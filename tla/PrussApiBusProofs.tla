-------------------------- MODULE PrussApiBusProofs --------------------------
(***************************************************************************)
(* Proofs about the bus side of the driver, for any set of channels,       *)
(* processes and names, and any number of minors.                          *)
(***************************************************************************)
EXTENDS PrussApiBus, TLAPS

\* The steps at which a channel has its cdev, and its node, respectively.
HasCdev == {"node", "rpdev", "fifo", "queue", "drvdata", "bound",
            "undo_fifo", "undo_node", "undo_cdev"}
HasNode == {"rpdev", "fifo", "queue", "drvdata", "bound", "undo_fifo", "undo_node"}

KernelOK ==
  /\ at \in [Chans -> ProbeSteps \cup UndoSteps \cup {"unbound", "bound"}]
  /\ minor \in [Chans -> Minors \cup {None}]
  /\ idr \in [Minors -> Chans \cup {None}]
  /\ cdevs \in [Minors -> Chans \cup {None}]
  /\ nodes \in [Ports -> Minors \cup {None}]
  /\ parts \in [Chans -> SUBSET DevParts]

\* A channel that is being probed, bound or removed owns its minor, and nobody
\* else does.
MinorInv ==
  /\ \A c \in Chans : at[c] \in {"unbound", "free"} <=> minor[c] = None
  /\ \A c \in Chans : minor[c] # None => idr[minor[c]] = c
  /\ \A m \in Minors : idr[m] # None => minor[idr[m]] = m

\* The cdev of a minor is that of its owner, while the owner has one.
CdevInv ==
  /\ \A c \in Chans : at[c] \in HasCdev => cdevs[minor[c]] = c
  /\ \A m \in Minors :
       cdevs[m] # None => minor[cdevs[m]] = m /\ at[cdevs[m]] \in HasCdev

\* A node was made by the channel it is named after, which has not destroyed it.
NodeInv ==
  \A n \in Ports : nodes[n] # None =>
    \E c \in Chans : minor[c] = nodes[n] /\ Port[c] = n /\ at[c] \in HasNode

\* Nothing is bound to a driver that is not there.
ModuleInv ==
  /\ module \in {{}, {"class", "region"}, ModuleParts}
  /\ module = {} => \A c \in Chans : at[c] = "unbound"
  /\ \A c \in Chans : at[c] = "unbound" => parts[c] = {}

\* The rest of TypeOK.
FilesOK ==
  /\ locked \in [Chans -> BOOLEAN]
  /\ file \in [Procs -> Chans \cup {Freed, None}]
  /\ call \in [Procs -> {"idle", "read", "write"}]
  /\ buf \in Procs \cup {None}
  /\ sent \in [Procs -> Procs \cup {None}]
  /\ callback \subseteq Chans

BusInv == KernelOK /\ MinorInv /\ CdevInv /\ NodeInv /\ ModuleInv

USE BusAssumption DEF Minors

LEMMA BusInit == Init => BusInv
  BY DEF Init, ModuleParts, BusInv, KernelOK, MinorInv, CdevInv, NodeInv, ModuleInv, HasCdev, HasNode,
     ProbeSteps, UndoSteps, DevParts

LEMMA ProbeKeeps == ASSUME BusInv, NEW c \in Chans, Probe(c) PROVE BusInv'
  <1> USE DEF BusInv, KernelOK, MinorInv, CdevInv, NodeInv, ModuleInv, HasCdev, HasNode,
              ProbeSteps, UndoSteps, DevParts, Goto, SetUp
  <1>1. CASE AllocMinor(c)
    BY <1>1 DEF AllocMinor
  <1>2. CASE AddCdev(c)
    <2>1. CASE cdevs' = [cdevs EXCEPT ![minor[c]] = c] /\ Goto(c, "node")
      <3>1. KernelOK'
        BY <1>2, <2>1 DEF AddCdev
      <3>2. MinorInv'
        BY <1>2, <2>1 DEF AddCdev
      <3>3. CdevInv'
        BY <1>2, <2>1 DEF AddCdev
      <3>4. NodeInv'
        BY <1>2, <2>1 DEF AddCdev
      <3>5. ModuleInv'
        BY <1>2, <2>1 DEF AddCdev
      <3> QED BY <3>1, <3>2, <3>3, <3>4, <3>5
    <2>2. CASE Goto(c, "undo_minor") /\ UNCHANGED cdevs
      <3>1. KernelOK'
        BY <1>2, <2>2 DEF AddCdev
      <3>2. MinorInv'
        BY <1>2, <2>2 DEF AddCdev
      <3>3. CdevInv'
        BY <1>2, <2>2 DEF AddCdev
      <3>4. NodeInv'
        BY <1>2, <2>2 DEF AddCdev
      <3>5. ModuleInv'
        BY <1>2, <2>2 DEF AddCdev
      <3> QED BY <3>1, <3>2, <3>3, <3>4, <3>5
    <2> QED BY <1>2, <2>1, <2>2 DEF AddCdev
  <1>3. CASE CreateNode(c)
    <2>1. CASE
             /\ nodes[Port[c]] = None
             /\ nodes' = [nodes EXCEPT ![Port[c]] = minor[c]]
             /\ Goto(c, "rpdev")
      <3>1. KernelOK'
        BY <1>3, <2>1 DEF CreateNode
      <3>2. MinorInv'
        BY <1>3, <2>1 DEF CreateNode
      <3>3. CdevInv'
        BY <1>3, <2>1 DEF CreateNode
      <3>4. NodeInv'
        BY <1>3, <2>1 DEF CreateNode
      <3>5. ModuleInv'
        BY <1>3, <2>1 DEF CreateNode
      <3> QED BY <3>1, <3>2, <3>3, <3>4, <3>5
    <2>2. CASE Goto(c, "undo_cdev") /\ UNCHANGED nodes
      <3>1. KernelOK'
        BY <1>3, <2>2 DEF CreateNode
      <3>2. MinorInv'
        BY <1>3, <2>2 DEF CreateNode
      <3>3. CdevInv'
        BY <1>3, <2>2 DEF CreateNode
      <3>4. NodeInv'
        BY <1>3, <2>2 DEF CreateNode
      <3>5. ModuleInv'
        BY <1>3, <2>2 DEF CreateNode
      <3> QED BY <3>1, <3>2, <3>3, <3>4, <3>5
    <2> QED BY <1>3, <2>1, <2>2 DEF CreateNode
  <1>4. CASE SetRpdev(c)
    BY <1>4 DEF SetRpdev
  <1>5. CASE AllocFifo(c)
    <2>1. CASE SetUp(c, "fifo", "queue")
      <3>1. KernelOK'
        BY <1>5, <2>1 DEF AllocFifo
      <3>2. MinorInv'
        BY <1>5, <2>1 DEF AllocFifo
      <3>3. CdevInv'
        BY <1>5, <2>1 DEF AllocFifo
      <3>4. NodeInv'
        BY <1>5, <2>1 DEF AllocFifo
      <3>5. ModuleInv'
        BY <1>5, <2>1 DEF AllocFifo
      <3> QED BY <3>1, <3>2, <3>3, <3>4, <3>5
    <2>2. CASE Goto(c, "undo_node") /\ UNCHANGED parts
      <3>1. KernelOK'
        BY <1>5, <2>2 DEF AllocFifo
      <3>2. MinorInv'
        BY <1>5, <2>2 DEF AllocFifo
      <3>3. CdevInv'
        BY <1>5, <2>2 DEF AllocFifo
      <3>4. NodeInv'
        BY <1>5, <2>2 DEF AllocFifo
      <3>5. ModuleInv'
        BY <1>5, <2>2 DEF AllocFifo
      <3> QED BY <3>1, <3>2, <3>3, <3>4, <3>5
    <2> QED BY <1>5, <2>1, <2>2 DEF AllocFifo
  <1>6. CASE InitQueue(c)
    BY <1>6 DEF InitQueue
  <1>7. CASE SetDrvdata(c)
    BY <1>7 DEF SetDrvdata
  <1> QED BY <1>1, <1>2, <1>3, <1>4, <1>5, <1>6, <1>7 DEF Probe

LEMMA UndoKeeps == ASSUME BusInv, NEW c \in Chans, Remove(c) \/ Undo(c) PROVE BusInv'
  <1> USE DEF BusInv, KernelOK, MinorInv, CdevInv, NodeInv, ModuleInv, HasCdev, HasNode,
              ProbeSteps, UndoSteps, DevParts, Goto
  <1>1. CASE Remove(c)
    <2>1. KernelOK'
      BY <1>1 DEF Remove
    <2>2. MinorInv'
      BY <1>1 DEF Remove
    <2>3. CdevInv'
      BY <1>1 DEF Remove
    <2>4. NodeInv'
      BY <1>1 DEF Remove
    <2>5. ModuleInv'
      BY <1>1 DEF Remove
    <2> QED BY <2>1, <2>2, <2>3, <2>4, <2>5
  <1>2. CASE FreeFifo(c)
    BY <1>2 DEF FreeFifo
  <1>3. CASE DestroyNode(c)
    BY <1>3 DEF DestroyNode
  <1>4. CASE DelCdev(c)
    <2>1. KernelOK'
      BY <1>4 DEF DelCdev
    <2>2. MinorInv'
      BY <1>4 DEF DelCdev
    <2>3. CdevInv'
      BY <1>4 DEF DelCdev
    <2>4. NodeInv'
      BY <1>4, SMTT(30) DEF DelCdev
    <2>5. ModuleInv'
      BY <1>4 DEF DelCdev
    <2> QED BY <2>1, <2>2, <2>3, <2>4, <2>5
  <1>5. CASE FreeMinor(c)
    BY <1>5 DEF FreeMinor
  <1>6. CASE FreeDev(c)
    <2>1. KernelOK'
      BY <1>6 DEF FreeDev
    <2>2. MinorInv'
      BY <1>6 DEF FreeDev
    <2>3. CdevInv'
      BY <1>6 DEF FreeDev
    <2>4. NodeInv'
      BY <1>6 DEF FreeDev
    <2>5. ModuleInv'
      BY <1>6 DEF FreeDev
    <2> QED BY <2>1, <2>2, <2>3, <2>4, <2>5
  <1> QED BY <1>1, <1>2, <1>3, <1>4, <1>5, <1>6 DEF Undo

LEMMA ModuleKeeps ==
  ASSUME BusInv,
         (\E x \in ModuleParts : InitFails(x)) \/ InitModule \/ ExitModule \/ ExitDone
  PROVE  BusInv'
  <1> USE DEF BusInv, KernelOK, MinorInv, CdevInv, NodeInv, ModuleInv, HasCdev, HasNode,
              ProbeSteps, UndoSteps, DevParts, ModuleParts
  <1>1. CASE \E x \in ModuleParts : InitFails(x)
    <2> PICK x \in ModuleParts : InitFails(x)
      BY <1>1
    <2>1. module' = {}
      BY DEF InitFails, HeldBefore, Undone
    <2> QED BY <2>1 DEF InitFails
  <1>2. CASE InitModule
    BY <1>2, SMTT(30) DEF InitModule
  <1>3. CASE ExitModule
    <2>1. module' = {"class", "region"}
      BY <1>3 DEF ExitModule
    <2> QED BY <1>3, <2>1 DEF ExitModule
  <1>4. CASE ExitDone
    BY <1>4 DEF ExitDone
  <1> QED BY <1>1, <1>2, <1>3, <1>4

LEMMA KernelKeeps == BusInv /\ UNCHANGED kernel => BusInv'
  BY DEF BusInv, KernelOK, MinorInv, CdevInv, NodeInv, ModuleInv, HasCdev, HasNode, kernel

LEMMA CallsLeaveKernel == ASSUME NEW p \in Procs, Calls(p) PROVE UNCHANGED kernel
  BY DEF Calls, Open, Release, BeginRead, EndRead, WriteCopy, WriteSend

LEMMA CallbackLeavesKernel ==
  ASSUME NEW c \in Chans, BeginCallback(c) \/ EndCallback(c) PROVE UNCHANGED kernel
  BY DEF BeginCallback, EndCallback

LEMMA BusStep == BusInv /\ [Next]_vars => BusInv'
  <1> SUFFICES ASSUME BusInv, [Next]_vars PROVE BusInv'
    OBVIOUS
  <1>1. ASSUME NEW c \in Chans, Probe(c) PROVE BusInv'
    BY <1>1, ProbeKeeps
  <1>2. ASSUME NEW c \in Chans, Remove(c) \/ Undo(c) PROVE BusInv'
    BY <1>2, UndoKeeps
  <1>3. ASSUME (\E x \in ModuleParts : InitFails(x)) \/ InitModule \/ ExitModule \/ ExitDone
        PROVE  BusInv'
    BY <1>3, ModuleKeeps
  <1>4. ASSUME NEW c \in Chans, BeginCallback(c) \/ EndCallback(c) PROVE BusInv'
    BY <1>4, CallbackLeavesKernel, KernelKeeps
  <1>5. ASSUME NEW p \in Procs, Calls(p) PROVE BusInv'
    BY <1>5, CallsLeaveKernel, KernelKeeps
  <1>6. CASE UNCHANGED vars
    BY <1>6, KernelKeeps DEF vars, kernel
  <1> QED BY <1>1, <1>2, <1>3, <1>4, <1>5, <1>6 DEF Next

(* Spec keeps the books of minors, cdevs and nodes in step, however probes,    *)
(* removals and module exits of several channels are interleaved.              *)
THEOREM Books == Spec => []BusInv
  BY BusInit, BusStep, PTL DEF Spec

(* NodeIsOurs: a node leads to the PRU it is named after, for any number of    *)
(* channels that come and go at once and reuse minors.                         *)
THEOREM NodesLead == Spec => []NodeIsOurs
  <1>1. BusInv => NodeIsOurs
    BY DEF BusInv, KernelOK, MinorInv, CdevInv, NodeInv, HasCdev, HasNode, NodeIsOurs
  <1> QED BY <1>1, Books, PTL

(* Unwound: failed probes, removals and module exits leave nothing behind,     *)
(* whoever has the devices open meanwhile.                                     *)
THEOREM NothingLeft == Spec => []Unwound
  <1>1. BusInv => Unwound
    <2> SUFFICES ASSUME BusInv PROVE Unwound
      OBVIOUS
    <2> USE DEF BusInv, KernelOK, MinorInv, CdevInv, NodeInv, ModuleInv, HasCdev, HasNode
    <2>1. ASSUME NEW c \in Chans, at[c] = "unbound"
          PROVE  parts[c] = {} /\ \A m \in Minors : idr[m] # c /\ cdevs[m] # c
      BY <2>1
    <2>2. ASSUME NEW m \in Minors, idr[m] = None PROVE \A n \in Ports : nodes[n] # m
      BY <2>2
    <2>3. ASSUME module = {}, NEW m \in Minors PROVE idr[m] = None
      BY <2>3
    <2> QED BY <2>1, <2>2, <2>3 DEF Unwound
  <1> QED BY <1>1, Books, PTL

(***************************************************************************)
(* The files.                                                              *)
(***************************************************************************)

LEMMA ProbeKeepsFiles == ASSUME BusInv, FilesOK, NEW c \in Chans, Probe(c) PROVE FilesOK'
  BY DEF FilesOK, Probe, AllocMinor, AddCdev, CreateNode, SetRpdev, AllocFifo, InitQueue,
     SetDrvdata, files

LEMMA UndoKeepsFiles ==
  ASSUME BusInv, FilesOK, NEW c \in Chans, Remove(c) \/ Undo(c) PROVE FilesOK'
  <1>1. CASE FreeDev(c)
    BY <1>1 DEF FilesOK, FreeDev
  <1>2. CASE Remove(c) \/ FreeFifo(c) \/ DestroyNode(c) \/ DelCdev(c) \/ FreeMinor(c)
    BY <1>2 DEF FilesOK, Remove, FreeFifo, DestroyNode, DelCdev, FreeMinor, files
  <1> QED BY <1>1, <1>2 DEF Undo

LEMMA ModuleKeepsFiles ==
  ASSUME FilesOK,
         (\E x \in ModuleParts : InitFails(x)) \/ InitModule \/ ExitModule \/ ExitDone
  PROVE  FilesOK'
  BY DEF FilesOK, InitFails, InitModule, ExitModule, ExitDone, files

LEMMA CallbackKeepsFiles ==
  ASSUME FilesOK, NEW c \in Chans, BeginCallback(c) \/ EndCallback(c) PROVE FilesOK'
  BY DEF FilesOK, BeginCallback, EndCallback, kernel, files

LEMMA CallsKeepFiles == ASSUME BusInv, FilesOK, NEW p \in Procs, Calls(p) PROVE FilesOK'
  <1> USE DEF BusInv, KernelOK, FilesOK
  <1>1. ASSUME NEW n \in Ports, Open(p, n) PROVE FilesOK'
    BY <1>1 DEF Open
  <1>2. CASE Release(p)
    BY <1>2 DEF Release
  <1>3. CASE BeginRead(p)
    BY <1>3 DEF BeginRead
  <1>4. CASE EndRead(p)
    BY <1>4 DEF EndRead
  <1>5. CASE WriteCopy(p)
    BY <1>5 DEF WriteCopy
  <1>6. CASE WriteSend(p)
    BY <1>6 DEF WriteSend
  <1> QED BY <1>1, <1>2, <1>3, <1>4, <1>5, <1>6 DEF Calls

LEMMA FilesStep == BusInv /\ FilesOK /\ [Next]_vars => FilesOK'
  <1> SUFFICES ASSUME BusInv, FilesOK, [Next]_vars PROVE FilesOK'
    OBVIOUS
  <1>1. ASSUME NEW c \in Chans, Probe(c) PROVE FilesOK'
    BY <1>1, ProbeKeepsFiles
  <1>2. ASSUME NEW c \in Chans, Remove(c) \/ Undo(c) PROVE FilesOK'
    BY <1>2, UndoKeepsFiles
  <1>3. ASSUME (\E x \in ModuleParts : InitFails(x)) \/ InitModule \/ ExitModule \/ ExitDone
        PROVE  FilesOK'
    BY <1>3, ModuleKeepsFiles
  <1>4. ASSUME NEW c \in Chans, BeginCallback(c) \/ EndCallback(c) PROVE FilesOK'
    BY <1>4, CallbackKeepsFiles
  <1>5. ASSUME NEW p \in Procs, Calls(p) PROVE FilesOK'
    BY <1>5, CallsKeepFiles
  <1>6. CASE UNCHANGED vars
    BY <1>6 DEF vars, files, FilesOK
  <1> QED BY <1>1, <1>2, <1>3, <1>4, <1>5, <1>6 DEF Next

(* The state keeps its shape.                                                  *)
THEOREM TypeCorrect == Spec => []TypeOK
  <1>1. BusInv /\ FilesOK => TypeOK
    BY DEF BusInv, KernelOK, ModuleInv, ModuleParts, FilesOK, TypeOK
  <1>2. Init => FilesOK
    BY DEF Init, FilesOK
  <1> QED BY <1>1, <1>2, BusInit, BusStep, FilesStep, PTL DEF Spec
=============================================================================
