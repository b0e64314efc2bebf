---------------------------- MODULE PrussdProofs ----------------------------
(***************************************************************************)
(* The message commands of the daemon, proved for any number of handler    *)
(* threads and messages, and a device of any capacity.                     *)
(***************************************************************************)
EXTENDS Prussd, SequenceTheorems, WellFoundedInduction, TLAPS

----------------------------------------------------------------------------
(* What FlattenSeq does to one more sequence.                              *)

\* Every set of natural numbers has a least one.
LEMMA NatMin ==
  ASSUME NEW T, T \subseteq Nat, T # {}
  PROVE  \E x \in T : \A y \in T : x <= y
<1> DEFINE R == OpToRel(<, Nat)
<1>1. IsWellFoundedOn(R, Nat)
  BY NatLessThanWellFounded
<1>2. \A x \in Nat : \A y \in Nat : y < x => <<y, x>> \in R
  BY DEF OpToRel
<1> HIDE DEF R
<1>3. PICK x \in T : \A y \in T : ~(<<y, x>> \in R)
  BY <1>1, WFMin
<1>4. \A y \in T : ~(y < x)
  BY <1>2, <1>3
<1>5. QED
  BY <1>4

\* f joins the first n sequences of s.
Joins(f, s, n) == f = [i \in 1 .. n |-> IF i = 1 THEN s[i] ELSE f[i - 1] \o s[i]]

LEMMA JoinsAt ==
  ASSUME NEW s, NEW n \in Nat, NEW f, Joins(f, s, n), NEW k \in 1 .. n
  PROVE  f[k] = IF k = 1 THEN s[k] ELSE f[k - 1] \o s[k]
  BY DEF Joins

LEMMA JoinsExist ==
  ASSUME NEW A, NEW s \in Seq(Seq(A)), NEW n \in 0 .. Len(s)
  PROVE  \E f : Joins(f, s, n) /\ \A i \in 1 .. n : f[i] \in Seq(A)
<1> DEFINE P(k) == \E f : Joins(f, s, k) /\ \A i \in 1 .. k : f[i] \in Seq(A)
<1> SUFFICES ASSUME {k \in 0 .. Len(s) : ~P(k)} # {} PROVE FALSE
  OBVIOUS
<1>1. PICK k \in 0 .. Len(s) : ~P(k) /\ \A m \in 0 .. Len(s) : ~P(m) => k <= m
  <2> DEFINE T == {m \in 0 .. Len(s) : ~P(m)}
  <2>1. T \subseteq Nat /\ T # {}
    OBVIOUS
  <2> HIDE DEF P
  <2>2. PICK k \in T : \A m \in T : k <= m
    <3> HIDE DEF T
    <3> QED
    BY <2>1, NatMin
  <2>3. QED
    BY <2>2
<1>2. CASE k = 0
  <2>1. Joins([i \in 1 .. 0 |-> << >>], s, 0)
    BY DEF Joins
  <2>2. QED
    BY <1>1, <1>2, <2>1
<1>3. CASE k # 0
  <2>1. P(k - 1)
    <3> HIDE DEF P
    <3> QED BY <1>1, <1>3
  <2>2. PICK g : Joins(g, s, k - 1) /\ \A i \in 1 .. k - 1 : g[i] \in Seq(A)
    BY <2>1
  <2> DEFINE f == [i \in 1 .. k |-> IF i = k THEN (IF k = 1 THEN s[k] ELSE g[k - 1] \o s[k]) ELSE g[i]]
  <2>3. \A i \in 1 .. k : f[i] = IF i = 1 THEN s[i] ELSE f[i - 1] \o s[i]
    <3> SUFFICES ASSUME NEW i \in 1 .. k PROVE f[i] = IF i = 1 THEN s[i] ELSE f[i - 1] \o s[i]
      OBVIOUS
    <3>1. CASE i = k
      BY <3>1
    <3>2. CASE i # k
      <4>1. i \in 1 .. k - 1 /\ k - 1 \in Nat
        BY <3>2
      <4>2. g[i] = IF i = 1 THEN s[i] ELSE g[i - 1] \o s[i]
        BY <4>1, <2>2, JoinsAt, SMTT(30)
      <4>3. f[i] = g[i] /\ (i # 1 => f[i - 1] = g[i - 1])
        BY <4>1
      <4>4. QED
        BY <4>2, <4>3
    <3> QED BY <3>1, <3>2
  <2>4. f = [i \in 1 .. k |-> IF i = 1 THEN s[i] ELSE f[i - 1] \o s[i]]
    BY <2>3
  <2>5. \A i \in 1 .. k : f[i] \in Seq(A)
    BY <2>2, <1>3
  <2>6. QED
    BY <1>1, <2>4, <2>5 DEF Joins
<1>4. QED
  BY <1>2, <1>3

Agree(f, g, n) == \A i \in 1 .. n : f[i] = g[i]

LEMMA JoinsAgree ==
  ASSUME NEW s, NEW t, NEW m \in Nat, NEW n \in 0 .. m, NEW f, NEW g,
         Joins(f, s, n), Joins(g, t, m), Agree(s, t, n)
  PROVE  Agree(f, g, n)
<1> USE DEF Agree
<1> DEFINE T == {i \in 1 .. n : f[i] # g[i]}
<1> SUFFICES ASSUME T # {} PROVE FALSE
  OBVIOUS
<1>1. PICK k \in T : \A j \in T : k <= j
  <2>1. T \subseteq Nat
    OBVIOUS
  <2> HIDE DEF T
  <2> QED BY <2>1, NatMin
<1>6. k \in 1 .. n /\ k \in 1 .. m /\ n \in Nat
  OBVIOUS
<1>2. f[k] = IF k = 1 THEN s[k] ELSE f[k - 1] \o s[k]
  BY <1>6, JoinsAt
<1>3. g[k] = IF k = 1 THEN t[k] ELSE g[k - 1] \o t[k]
  BY <1>6, JoinsAt
<1>4. k # 1 => f[k - 1] = g[k - 1]
  BY <1>1
<1>5. QED
  BY <1>2, <1>3, <1>4, <1>6

LEMMA FlattenIs ==
  ASSUME NEW A, NEW s \in Seq(Seq(A)), s # << >>
  PROVE  \E f : /\ Joins(f, s, Len(s))
                /\ FlattenSeq(s) = f[Len(s)]
                /\ FlattenSeq(s) \in Seq(A)
<1>1. Len(s) \in Nat \ {0}
  OBVIOUS
<1>2. PICK h : Joins(h, s, Len(s)) /\ \A i \in 1 .. Len(s) : h[i] \in Seq(A)
  BY <1>1, JoinsExist
<1> DEFINE f == CHOOSE f : Joins(f, s, Len(s))
<1>3. Joins(f, s, Len(s))
  BY <1>2
<1>4. FlattenSeq(s) = f[Len(s)]
  BY <1>1 DEF FlattenSeq, Joins
<1> HIDE DEF f
<1>5. Agree(f, h, Len(s))
  <2>1. Agree(s, s, Len(s)) /\ Len(s) \in Nat /\ Len(s) \in 0 .. Len(s)
    BY <1>1 DEF Agree
  <2>2. QED
    BY <1>2, <1>3, <2>1, JoinsAgree, Zenon
<1>6. QED
  BY <1>1, <1>2, <1>3, <1>4, <1>5 DEF Agree

LEMMA FlattenAppend ==
  ASSUME NEW A, NEW s \in Seq(Seq(A)), NEW e \in Seq(A)
  PROVE  FlattenSeq(Append(s, e)) = FlattenSeq(s) \o e
<1> DEFINE t == Append(s, e)
<1>1. t \in Seq(Seq(A)) /\ t # << >> /\ Len(t) = Len(s) + 1 /\ t[Len(t)] = e
      /\ \A i \in 1 .. Len(s) : s[i] = t[i]
  BY AppendProperties
<1> HIDE DEF t
<1>2. PICK g : Joins(g, t, Len(t)) /\ FlattenSeq(t) = g[Len(t)]
  BY <1>1, FlattenIs
<1>3. g[Len(t)] = IF Len(t) = 1 THEN e ELSE g[Len(t) - 1] \o e
  <2>1. Len(t) \in Nat /\ Len(t) \in 1 .. Len(t)
    BY <1>1
  <2>2. QED
    BY <1>1, <1>2, <2>1, JoinsAt
<1>4. CASE s = << >>
  <2>1. FlattenSeq(s) = << >>
    BY <1>4 DEF FlattenSeq
  <2>2. QED
    BY <1>1, <1>2, <1>3, <1>4, <2>1 DEF t
<1>5. CASE s # << >>
  <2>1. PICK f : Joins(f, s, Len(s)) /\ FlattenSeq(s) = f[Len(s)]
    BY <1>5, FlattenIs
  <2>2. Len(s) \in 1 .. Len(t) /\ Len(s) \in 0 .. Len(t) /\ Len(t) \in Nat
    BY <1>1, <1>5
  <2>3. f[Len(s)] = g[Len(s)]
    <3>1. Agree(s, t, Len(s))
      BY <1>1 DEF Agree
    <3>2. Agree(f, g, Len(s))
      BY <1>2, <2>1, <2>2, <3>1, JoinsAgree, Zenon
    <3>3. QED
      BY <3>2, <2>2, <1>5 DEF Agree
  <2>4. QED
    BY <1>1, <1>2, <1>3, <1>5, <2>1, <2>3 DEF t
<1>6. QED
  BY <1>4, <1>5
\* Joining sequences in another order, and joining one element.
LEMMA ConcatFour ==
  ASSUME NEW a \in Seq(Lines), NEW b \in Seq(Lines), NEW c \in Seq(Lines), NEW d \in Seq(Lines)
  PROVE  (a \o (b \o c)) \o d = a \o (b \o (c \o d))
<1>1. PICK y \in Seq(Lines) : y = b \o c
  BY ConcatProperties
<1>2. (a \o y) \o d = a \o (y \o d)
  BY ConcatAssociative, SMTT(30)
<1>3. (b \o c) \o d = b \o (c \o d)
  BY ConcatAssociative, SMTT(30)
<1>4. QED
  BY <1>1, <1>2, <1>3, Zenon

LEMMA ConcatOne ==
  ASSUME NEW A, NEW a \in Seq(A), NEW b \in Seq(A), Len(b) = 1
  PROVE  Len(a \o b) = Len(a) + 1 /\ \A j \in 1 .. Len(a) : (a \o b)[j] = a[j]
<1>1. Len(a) \in Nat
  OBVIOUS
<1>2. /\ Len(a \o b) = Len(a) + Len(b)
      /\ \A i \in 1 .. Len(a) + Len(b) : (a \o b)[i] = IF i <= Len(a) THEN a[i] ELSE b[i - Len(a)]
  BY ConcatProperties, Zenon
<1>3. QED
  BY <1>1, <1>2

----------------------------------------------------------------------------
(* The shape of the state, and who has the device.                         *)

Busy(t) == thread[t].pc \in {"select", "readline"}
Open(t) == thread[t].pc \in {"select", "readline", "write", "wait"}

\* One thread at most is past the open; a command under way has no answer.
HoldInv ==
  \A t \in Threads : /\ Open(t) <=> holder = t
                     /\ thread[t].pc \notin {"idle", "close"} => thread[t].ret = "none"

ThreadType == [cmd : Commands, pc : Stages, slept : 0 .. TimeToWait - 1, ret : Replies]

TypeInv == TypeOK /\ HoldInv

LEMMA ThreadTypes ==
  ASSUME TypeOK, NEW t \in Threads
  PROVE  /\ thread[t].pc \in Stages /\ thread[t].cmd \in Commands
         /\ thread[t].slept \in 0 .. TimeToWait - 1 /\ thread[t].ret \in Replies
         /\ t # "nobody"
  BY PrussdAssumption DEF TypeOK

\* A thread goes on within its command, the device as it was.
LEMMA GotoKeeps ==
  ASSUME TypeInv, NEW t \in Threads, NEW from, NEW to, Goto(t, from, to),
         from \notin {"idle", "close"}, to \in Stages \ {"idle", "close"},
         to \in {"select", "readline", "write", "wait"} <=>
           from \in {"select", "readline", "write", "wait"},
         UNCHANGED <<accepted, returned, delivered, holder>>,
         node' \in {"none", "device", "file"}, chunk' \in Seq(Lines), reply' \in Seq(Lines)
  PROVE  TypeInv'
<1>1. thread' = [thread EXCEPT ![t].pc = to] /\ thread[t].pc = from
  BY DEF Goto
<1>2. thread' \in [Threads -> ThreadType]
  BY <1>1 DEF TypeInv, TypeOK, ThreadType
<1>3. TypeOK'
  BY <1>2 DEF TypeInv, TypeOK, ThreadType
<1>4. HoldInv'
  <2> SUFFICES ASSUME NEW u \in Threads
               PROVE  /\ Open(u)' <=> holder' = u
                      /\ thread'[u].pc \notin {"idle", "close"} => thread'[u].ret = "none"
    BY DEF HoldInv, Open
  <2>1. CASE u = t
    BY <1>1, <2>1 DEF TypeInv, TypeOK, HoldInv, Open
  <2>2. CASE u # t
    BY <1>1, <2>2 DEF TypeInv, TypeOK, HoldInv, Open
  <2>3. QED
    BY <2>1, <2>2
<1>5. QED
  BY <1>3, <1>4 DEF TypeInv

\* A thread answers that does not have the device open.
LEMMA AnswersKeeps ==
  ASSUME TypeInv, NEW t \in Threads, NEW from, NEW r \in Replies, Answers(t, from, r),
         from \in {"args", "node", "open", "file", "gone"}, UNCHANGED <<Rest, holder>>
  PROVE  TypeInv'
<1>1. /\ thread' = [thread EXCEPT ![t].pc = "idle", ![t].ret = r]
      /\ thread[t].pc \in {"args", "node", "open", "file", "gone"} /\ holder' = holder
  BY DEF Answers
<1>2. thread' \in [Threads -> ThreadType]
  BY <1>1 DEF TypeInv, TypeOK, ThreadType, Stages
<1>3. TypeOK'
  BY <1>2 DEF TypeInv, TypeOK, ThreadType, Rest, device
<1>4. HoldInv'
  <2> SUFFICES ASSUME NEW u \in Threads
               PROVE  /\ Open(u)' <=> holder' = u
                      /\ thread'[u].pc \notin {"idle", "close"} => thread'[u].ret = "none"
    BY DEF HoldInv, Open
  <2>1. CASE u = t
    <3>1. ~Open(t) /\ holder # t
      BY <1>1 DEF TypeInv, HoldInv, Open
    <3>2. thread'[t].pc = "idle" /\ holder' # t
      BY <1>1, <3>1 DEF TypeInv, TypeOK
    <3>3. QED
      BY <2>1, <3>2 DEF Open
  <2>2. CASE u # t
    BY <1>1, <2>2 DEF TypeInv, TypeOK, HoldInv, Open
  <2>3. QED
    BY <2>1, <2>2
<1>5. QED
  BY <1>3, <1>4 DEF TypeInv

\* A thread answers and closes the device.
LEMMA ClosesKeeps ==
  ASSUME TypeInv, NEW t \in Threads, NEW r \in Replies, Closes(t, r), Open(t),
         UNCHANGED <<device, reply>>, delivered' \in Seq(Lines)
  PROVE  TypeInv'
<1>1. /\ thread' = [thread EXCEPT ![t].pc = "idle", ![t].ret = r]
      /\ holder' = "nobody" /\ chunk' = << >>
  BY DEF Closes
<1>2. thread' \in [Threads -> ThreadType]
  BY <1>1 DEF TypeInv, TypeOK, ThreadType, Stages
<1>3. TypeOK'
  BY <1>1, <1>2 DEF TypeInv, TypeOK, ThreadType, device
<1>4. HoldInv'
  <2> SUFFICES ASSUME NEW u \in Threads
               PROVE  /\ Open(u)' <=> holder' = u
                      /\ thread'[u].pc \notin {"idle", "close"} => thread'[u].ret = "none"
    BY DEF HoldInv, Open
  <2>1. CASE u = t
    BY <1>1, <2>1, ThreadTypes DEF TypeInv, TypeOK, HoldInv, Open
  <2>2. CASE u # t
    BY <1>1, <2>2, ThreadTypes DEF TypeInv, TypeOK, HoldInv, Open
  <2>3. QED
    BY <2>1, <2>2
<1>5. QED
  BY <1>3, <1>4 DEF TypeInv

\* The end of the first line is there when the chunk has a line.
LEMMA LineEndIs ==
  ASSUME chunk \in Seq(Lines), HasLine
  PROVE  /\ LineEnd \in 1 .. Len(chunk) /\ chunk[LineEnd].nl
         /\ \A j \in 1 .. LineEnd - 1 : ~chunk[j].nl
<1> DEFINE T == {k \in DOMAIN chunk : chunk[k].nl}
<1>1. T \subseteq Nat /\ T # {}
  BY DEF HasLine
<1>2. PICK k \in T : \A j \in T : k <= j
  <2> HIDE DEF T
  <2>1. QED
    BY <1>1, NatMin
<1>3. \E m \in DOMAIN chunk : chunk[m].nl /\ \A j \in 1 .. m - 1 : ~chunk[j].nl
  <2>1. k \in DOMAIN chunk /\ chunk[k].nl /\ \A j \in 1 .. k - 1 : ~chunk[j].nl
    BY <1>2
  <2>2. QED
    BY <2>1
<1>4. /\ LineEnd \in DOMAIN chunk
      /\ chunk[LineEnd].nl /\ \A j \in 1 .. LineEnd - 1 : ~chunk[j].nl
  BY <1>3 DEF LineEnd
<1>5. QED
  BY <1>4

\* A message of the device is a sequence of lines.
LEMMA ArrivesIs ==
  ASSUME TypeOK, NEW shape \in Shapes, arrives(shape)
  PROVE  \E e \in Seq(Lines) : accepted' = Append(accepted, e) /\ Len(e) = Len(shape)
<1> DEFINE e == [k \in DOMAIN shape |-> [id |-> Len(accepted) + 1, nl |-> shape[k]]]
<1>1. shape \in Seq(BOOLEAN) /\ MaxMsgs \in Nat /\ Len(accepted) \in Nat
  BY PrussdAssumption DEF TypeOK
<1>2. accepted' = Append(accepted, e) /\ Len(accepted) < MaxMsgs
  BY Zenon DEF arrives
<1>3. Len(accepted) + 1 \in 1 .. MaxMsgs
  BY <1>1, <1>2
<1>4. \A k \in DOMAIN shape : shape[k] \in BOOLEAN
  BY <1>1
<1>5. \A k \in DOMAIN shape : e[k] \in Lines
  BY <1>3, <1>4 DEF Lines
<1>6. e \in Seq(Lines) /\ Len(e) = Len(shape)
  BY <1>1, <1>5
<1>7. QED
  BY <1>2, <1>6

\* read() hands out a message.
LEMMA GetIs ==
  ASSUME TypeOK, Dev!Get
  PROVE  /\ Len(returned) + 1 \in 1 .. Len(accepted)
         /\ accepted[Len(returned) + 1] \in Seq(Lines)
         /\ returned' = Append(returned, accepted[Len(returned) + 1])
         /\ Last(returned') = accepted[Len(returned) + 1]
         /\ accepted' = accepted
<1>1. /\ returned' = Append(returned, accepted[Len(returned) + 1])
      /\ accepted' = accepted /\ Len(returned) < Len(accepted)
  BY DEF Dev!Get
<1>2. Len(returned) + 1 \in 1 .. Len(accepted)
  BY <1>1 DEF TypeOK
<1>3. accepted[Len(returned) + 1] \in Seq(Lines)
  BY <1>2 DEF TypeOK
<1>4. Last(returned') = accepted[Len(returned) + 1]
  BY <1>1, <1>3, AppendProperties DEF Last, TypeOK
<1>5. QED
  BY <1>1, <1>2, <1>3, <1>4

LEMMA StutterKeeps == TypeInv /\ UNCHANGED vars => TypeInv'
  BY DEF vars, device, TypeInv, TypeOK, HoldInv, Open

\* The device goes, and who had it open has it no more.
LEMMA RemovedKeeps == TypeInv /\ removed => TypeInv'
<1> SUFFICES ASSUME TypeInv, removed PROVE TypeInv'
  OBVIOUS
<1>1. /\ node' = "none" /\ accepted' = << >> /\ returned' = << >> /\ holder' = "nobody"
      /\ chunk' = << >> /\ reply' = << >> /\ delivered' = << >>
      /\ thread' = [u \in Threads |->
                      IF u = holder THEN [thread[u] EXCEPT !.pc = "gone"] ELSE thread[u]]
  BY DEF removed
<1>2. thread' \in [Threads -> ThreadType]
  BY <1>1 DEF TypeInv, TypeOK, ThreadType, Stages
<1>3. TypeOK'
  <2>1. << >> \in Seq(Lines) /\ << >> \in Seq(Seq(Lines))
    OBVIOUS
  <2>2. QED
    BY <1>1, <1>2, <2>1, Zenon DEF TypeOK, ThreadType
<1>4. HoldInv'
  <2> SUFFICES ASSUME NEW u \in Threads
               PROVE  /\ Open(u)' <=> holder' = u
                      /\ thread'[u].pc \notin {"idle", "close"} => thread'[u].ret = "none"
    BY DEF HoldInv, Open
  <2>0. thread[u] \in ThreadType
    BY DEF TypeInv, TypeOK, ThreadType
  <2>1. CASE u = holder
    <3>1. thread'[u].pc = "gone" /\ thread'[u].ret = thread[u].ret
      BY <1>1, <2>0, <2>1 DEF ThreadType
    <3>2. thread[u].ret = "none" /\ u # "nobody"
      BY <2>1, PrussdAssumption DEF TypeInv, HoldInv, Open
    <3>3. QED
      BY <1>1, <3>1, <3>2 DEF Open
  <2>2. CASE u # holder
    <3>1. thread'[u] = thread[u] /\ u # "nobody"
      BY <1>1, <2>2, PrussdAssumption
    <3>2. QED
      BY <1>1, <2>2, <3>1 DEF TypeInv, HoldInv, Open
  <2>3. QED
    BY <2>1, <2>2
<1>5. QED
  BY <1>3, <1>4 DEF TypeInv

\* The steps of a handler thread.
LEMMA ServeKeeps ==
  ASSUME TypeInv, NEW t \in Threads, serve(t)
  PROVE  TypeInv'
<1> USE DEF Stages
<1>0. /\ TypeOK /\ chunk \in Seq(Lines) /\ reply \in Seq(Lines) /\ delivered \in Seq(Lines)
      /\ node \in {"none", "device", "file"}
  BY DEF TypeInv, TypeOK
<1>1. CASE args_accepted(t)
  BY <1>0, <1>1, GotoKeeps DEF args_accepted, Rest, device
<1>2. CASE args_refused(t)
  <2>1. PICK err \in {"EINVAL", "EPERM"} : Answers(t, "args", err) /\ UNCHANGED <<Rest, holder>>
    BY <1>2 DEF args_refused
  <2>2. err \in Replies
    BY DEF Replies
  <2>3. QED
    BY <2>1, <2>2, AnswersKeeps
<1>3. CASE node_there(t)
  BY <1>0, <1>3, GotoKeeps DEF node_there, Rest, device
<1>4. CASE node_missing(t)
  <2>1. "ENODEV" \in Replies
    BY DEF Replies
  <2>2. QED
    BY <1>4, <2>1, AnswersKeeps DEF node_missing
<1>5. CASE node_sleep(t)
  <2>1. /\ thread[t].pc = "node" /\ thread[t].slept < TimeToWait - 1
        /\ thread' = [thread EXCEPT ![t].slept = @ + 1]
        /\ UNCHANGED <<node, accepted, returned, chunk, reply, delivered, holder>>
    BY <1>5 DEF node_sleep, Rest, device
  <2>2. thread[t].slept + 1 \in 0 .. TimeToWait - 1
    BY <1>0, <2>1, ThreadTypes DEF TimeToWait
  <2>3. thread' \in [Threads -> ThreadType]
    BY <1>0, <2>1, <2>2 DEF TypeOK, ThreadType
  <2>4. TypeOK'
    BY <1>0, <2>1, <2>3 DEF TypeOK, ThreadType
  <2>5. \A u \in Threads : thread'[u].pc = thread[u].pc /\ thread'[u].ret = thread[u].ret
    BY <1>0, <2>1 DEF TypeOK
  <2>6. HoldInv'
    BY <2>1, <2>5 DEF TypeInv, HoldInv, Open
  <2>7. QED
    BY <2>4, <2>6 DEF TypeInv
<1>6. CASE open_denied(t)
  <2>1. "EACCES" \in Replies
    BY DEF Replies
  <2>2. QED
    BY <1>6, <2>1, AnswersKeeps DEF open_denied
<1>7. CASE open_ok(t)
  <2> DEFINE to == Opened[thread[t].cmd]
  <2>1. to \in {"select", "write", "wait"}
    BY <1>0, ThreadTypes DEF Opened
  <2>2. /\ thread[t].pc = "open" /\ thread' = [thread EXCEPT ![t].pc = to]
        /\ holder = "nobody" /\ holder' = t /\ reply' = << >>
        /\ UNCHANGED <<node, accepted, returned, chunk, delivered>>
    BY <1>7 DEF open_ok, Goto, device
  <2> HIDE DEF to
  <2>3. thread' \in [Threads -> ThreadType]
    BY <1>0, <2>1, <2>2 DEF TypeOK, ThreadType
  <2>4. TypeOK'
    <3>1. reply' \in Seq(Lines)
      BY <2>2
    <3>2. QED
      BY <1>0, <2>2, <2>3, <3>1 DEF TypeOK, ThreadType
  <2>5. HoldInv'
    <3> SUFFICES ASSUME NEW u \in Threads
                 PROVE  /\ Open(u)' <=> holder' = u
                        /\ thread'[u].pc \notin {"idle", "close"} => thread'[u].ret = "none"
      BY DEF HoldInv, Open
    <3>1. CASE u = t
      BY <1>0, <2>1, <2>2, <3>1 DEF TypeInv, TypeOK, HoldInv, Open
    <3>2. CASE u # t
      <4>1. ~Open(u)
        BY <1>0, <2>2, ThreadTypes DEF TypeInv, HoldInv
      <4>2. QED
        BY <1>0, <2>2, <3>2, <4>1 DEF TypeInv, TypeOK, HoldInv, Open
    <3>3. QED
      BY <3>1, <3>2
  <2>6. QED
    BY <2>4, <2>5 DEF TypeInv
<1>8. CASE select_ready(t)
  BY <1>0, <1>8, GotoKeeps DEF select_ready, Rest, device
<1>9. CASE select_empty(t)
  <2>1. (IF reply = << >> THEN "empty" ELSE "lines") \in Replies
    BY DEF Replies
  <2>2. /\ Closes(t, IF reply = << >> THEN "empty" ELSE "lines") /\ Open(t)
        /\ UNCHANGED <<device, reply>> /\ delivered' = delivered \o reply
    BY <1>9 DEF select_empty, Open
  <2>3. delivered' \in Seq(Lines)
    BY <1>0, <2>2, ConcatProperties
  <2>4. QED
    BY <2>1, <2>2, <2>3, ClosesKeeps
<1>10. CASE readline_read(t)
  <2>1. /\ Dev!Get /\ chunk' = chunk \o Last(returned')
        /\ UNCHANGED <<node, holder, thread, reply, delivered>>
    BY <1>10 DEF readline_read
  <2>2. Last(returned') \in Seq(Lines) /\ accepted' = accepted
        /\ returned' = Append(returned, Last(returned'))
    BY <1>0, <2>1, GetIs
  <2>3. chunk' \in Seq(Lines)
    BY <1>0, <2>1, <2>2, ConcatProperties
  <2>4. returned' \in Seq(Seq(Lines))
    <3>1. returned \in Seq(Seq(Lines))
      BY <1>0 DEF TypeOK
    <3>2. PICK e : e \in Seq(Lines) /\ returned' = Append(returned, e)
      BY <2>2
    <3>3. QED
      BY <3>1, <3>2
  <2>5. TypeOK'
    BY <1>0, <2>1, <2>2, <2>3, <2>4 DEF TypeOK
  <2>6. HoldInv'
    BY <2>1 DEF TypeInv, HoldInv, Open
  <2>7. QED
    BY <2>5, <2>6 DEF TypeInv
<1>11. CASE readline_line(t)
  <2>1. /\ HasLine /\ Goto(t, "readline", "select")
        /\ reply' = reply \o SubSeq(chunk, 1, LineEnd)
        /\ chunk' = SubSeq(chunk, LineEnd + 1, Len(chunk))
        /\ UNCHANGED <<node, accepted, returned, holder, delivered>>
    BY <1>11 DEF readline_line, device
  <2>2. LineEnd \in 1 .. Len(chunk)
    BY <1>0, <2>1, LineEndIs
  <2>3. SubSeq(chunk, 1, LineEnd) \in Seq(Lines) /\ chunk' \in Seq(Lines)
    BY <1>0, <2>1, <2>2, SubSeqProperties
  <2>4. reply' \in Seq(Lines)
    BY <1>0, <2>1, <2>3, ConcatProperties
  <2>5. QED
    BY <1>0, <2>1, <2>3, <2>4, GotoKeeps
<1>12. CASE write(t)
  <2>1. (IF thread[t].cmd = "SENDMSG_s" THEN "0" ELSE "None") \in Replies
    BY DEF Replies
  <2>2. QED
    BY <1>0, <1>12, <2>1, ClosesKeeps DEF write, Open
<1>13. CASE write_fails(t)
  <2>1. "EIO" \in Replies
    BY DEF Replies
  <2>2. QED
    BY <1>0, <1>13, <2>1, ClosesKeeps DEF write_fails, Open
<1>14. CASE event_comes(t)
  <2>1. "0" \in Replies
    BY DEF Replies
  <2>2. QED
    BY <1>0, <1>14, <2>1, ClosesKeeps DEF event_comes, Open
<1>15. CASE open_missing(t)
  <2>1. "ENOENT" \in Replies
    BY DEF Replies
  <2>2. QED
    BY <1>15, <2>1, AnswersKeeps DEF open_missing
<1>16. CASE open_creates(t)
  BY <1>0, <1>16, GotoKeeps DEF open_creates
<1>17. CASE open_file(t)
  BY <1>0, <1>17, GotoKeeps DEF open_file, Rest, device
<1>18. CASE file_ends(t)
  <2>1. (IF thread[t].cmd = "SENDMSG_r" THEN "None" ELSE "0") \in Replies
    BY DEF Replies
  <2>2. QED
    BY <1>18, <2>1, AnswersKeeps DEF file_ends
<1>19. CASE file_loops(t)
  BY <1>19, StutterKeeps DEF file_loops
<1>20. QED
  BY <1>1, <1>2, <1>3, <1>4, <1>5, <1>6, <1>7, <1>8, <1>9, <1>10, <1>11, <1>12, <1>13, <1>14,
     <1>15, <1>16, <1>17, <1>18, <1>19
     DEF serve

LEMMA TypeNext == TypeInv /\ [Next]_vars => TypeInv'
<1> SUFFICES ASSUME TypeInv, [Next]_vars PROVE TypeInv'
  OBVIOUS
<1> USE DEF Stages
<1>0. TypeOK
  BY DEF TypeInv
<1>1. CASE UNCHANGED vars
  BY <1>1, StutterKeeps
<1>2. CASE probed
  BY <1>2 DEF probed, TypeInv, TypeOK, HoldInv, Open
<1>3. ASSUME NEW shape \in Shapes, arrives(shape) PROVE TypeInv'
  <2>1. PICK e \in Seq(Lines) : accepted' = Append(accepted, e)
    BY <1>0, <1>3, ArrivesIs
  <2>2. UNCHANGED <<node, returned, holder, thread, chunk, reply, delivered>>
    BY <1>3 DEF arrives, Dev!Put
  <2>3. accepted' \in Seq(Seq(Lines))
    BY <1>0, <2>1 DEF TypeOK
  <2>4. QED
    BY <2>2, <2>3 DEF TypeInv, TypeOK, HoldInv, Open
<1>4. ASSUME NEW t \in Threads, NEW cmd \in Commands, handle(t, cmd) PROVE TypeInv'
  <2> DEFINE new == [NoCommand EXCEPT !.cmd = cmd, !.pc = "args"]
  <2>1. /\ new \in ThreadType /\ new.pc = "args" /\ new.ret = "none"
    <3>1. new.pc = "args" /\ new.ret = "none"
      BY DEF NoCommand
    <3>2. NoCommand \in ThreadType
      BY DEF NoCommand, ThreadType, Commands, Replies, TimeToWait
    <3>3. \A x \in ThreadType : [x EXCEPT !.cmd = cmd, !.pc = "args"] \in ThreadType
      BY DEF ThreadType
    <3>4. QED
      BY <3>1, <3>2, <3>3
  <2>2. /\ thread' = [thread EXCEPT ![t] = new] /\ thread[t].pc = "idle"
        /\ UNCHANGED <<node, accepted, returned, holder, chunk, reply, delivered>>
    BY <1>4 DEF handle, Rest, device
  <2> HIDE DEF new
  <2>3. thread' \in [Threads -> ThreadType]
    BY <1>0, <2>1, <2>2 DEF TypeOK, ThreadType
  <2>4. TypeOK'
    BY <1>0, <2>2, <2>3 DEF TypeOK, ThreadType
  <2>5. HoldInv'
    <3> SUFFICES ASSUME NEW u \in Threads
                 PROVE  /\ Open(u)' <=> holder' = u
                        /\ thread'[u].pc \notin {"idle", "close"} => thread'[u].ret = "none"
      BY DEF HoldInv, Open
    <3>1. CASE u = t
      <4>1. ~Open(u) /\ holder # u
        BY <2>2, <3>1 DEF TypeInv, HoldInv, Open
      <4>2. thread'[u] = new
        BY <1>0, <2>2, <3>1 DEF TypeOK
      <4>3. QED
        BY <2>1, <2>2, <4>1, <4>2 DEF Open
    <3>2. CASE u # t
      BY <1>0, <2>2, <3>2 DEF TypeInv, TypeOK, HoldInv, Open
    <3>3. QED
      BY <3>1, <3>2
  <2>6. QED
    BY <2>4, <2>5 DEF TypeInv
<1>5. ASSUME NEW t \in Threads, event_timeout(t) PROVE TypeInv'
  <2>1. "ETIME" \in Replies
    BY DEF Replies
  <2>2. QED
    BY <1>0, <1>5, <2>1, ClosesKeeps DEF event_timeout, Open, TypeOK
<1>6. ASSUME NEW t \in Threads, gone_ends(t) PROVE TypeInv'
  <2>1. thread[t].cmd \in Commands
    BY <1>0, ThreadTypes
  <2>2. PICK r \in Endings[thread[t].cmd] : Answers(t, "gone", r) /\ UNCHANGED <<Rest, holder>>
    BY <1>6 DEF gone_ends
  <2>3. r \in Replies
    BY <2>1, <2>2 DEF Endings, Commands, Replies
  <2>4. QED
    BY <2>2, <2>3, AnswersKeeps
<1>7. QED
  BY <1>1, <1>2, <1>3, <1>4, <1>5, <1>6, ServeKeeps, RemovedKeeps DEF Next

LEMMA TypeInit == Init => TypeInv
<1> SUFFICES ASSUME Init PROVE TypeInv
  OBVIOUS
<1>1. NoCommand \in ThreadType /\ NoCommand.pc = "idle"
  BY DEF NoCommand, ThreadType, Commands, Stages, Replies, TimeToWait
<1>2. TypeOK
  <2>1. << >> \in Seq(Lines) /\ << >> \in Seq(Seq(Lines))
    OBVIOUS
  <2>2. /\ node = "none" /\ accepted = << >> /\ returned = << >> /\ holder = "nobody"
        /\ chunk = << >> /\ reply = << >> /\ delivered = << >>
    BY DEF Init, Dev!Init
  <2>3. thread \in [Threads -> ThreadType]
    BY <1>1 DEF Init
  <2>4. QED
    BY <2>1, <2>2, <2>3, Zenon DEF TypeOK, ThreadType
<1>3. HoldInv
  BY <1>1, PrussdAssumption DEF Init, HoldInv, Open
<1>4. QED
  BY <1>2, <1>3 DEF TypeInv

\* The shape of the state, and: one thread at most is past the open, and a
\* command under way has no answer.
THEOREM TypeCorrect == Spec => [](TypeOK /\ HoldInv)
<1>1. Spec => []TypeInv
  BY TypeInit, TypeNext, PTL DEF Spec
<1>2. TypeInv => TypeOK /\ HoldInv
  BY DEF TypeInv
<1>3. QED
  BY <1>1, <1>2, PTL

----------------------------------------------------------------------------
(* No line is lost.                                                        *)

\* What the PRU sends is a line, or the end of one.
OneLine == \A s \in Shapes : Len(s) = 1

AnyBusy == \E t \in Threads : Busy(t)
Reading == \E t \in Threads : thread[t].pc = "readline"

\* Lines wait in the chunk only within readline(), and end it.
LineInv ==
  /\ \A k \in 1 .. Len(accepted) : Len(accepted[k]) = 1
  /\ \A j \in 1 .. Len(chunk) - 1 : ~chunk[j].nl
  /\ chunk = << >> \/ Reading

Kept == Read = delivered \o (IF AnyBusy THEN reply \o chunk ELSE << >>)

LossInv == LineInv /\ Kept

\* Only the thread that has the device open is busy with it.
LEMMA Alone ==
  ASSUME TypeInv, NEW t \in Threads, Open(t), ~Busy(t)
  PROVE  ~AnyBusy /\ ~Reading
<1>1. \A u \in Threads : Open(u) => u = t
  BY DEF TypeInv, HoldInv
<1>2. \A u \in Threads : ~Busy(u)
  BY <1>1 DEF Busy, Open
<1>3. QED
  BY <1>2 DEF AnyBusy, Reading, Busy

LEMMA Unheld ==
  ASSUME TypeInv, holder = "nobody"
  PROVE  ~AnyBusy /\ ~Reading
<1>1. \A u \in Threads : ~Open(u)
  BY PrussdAssumption DEF TypeInv, HoldInv
<1>2. QED
  BY <1>1 DEF AnyBusy, Reading, Busy, Open

\* A thread that is not busy does something else.
LEMMA ElsewhereKeeps ==
  ASSUME LossInv, NEW t \in Threads, ~Busy(t), ~Busy(t)',
         \A u \in Threads : u # t => thread'[u] = thread[u],
         UNCHANGED <<accepted, returned, chunk, reply, delivered>>
  PROVE  LossInv'
<1>1. (AnyBusy' <=> AnyBusy) /\ (Reading' <=> Reading)
  BY DEF AnyBusy, Reading, Busy
<1>2. QED
  BY <1>1 DEF LossInv, LineInv, Kept, Read

\* A thread that has the device for something else closes it.
LEMMA ClosesLoses ==
  ASSUME TypeInv, LossInv, NEW t \in Threads, NEW r, Open(t), ~Busy(t), Closes(t, r),
         UNCHANGED <<accepted, returned, reply, delivered>>
  PROVE  LossInv'
<1>1. ~AnyBusy /\ ~Reading
  BY Alone
<1>2. chunk = << >> /\ chunk' = << >>
  BY <1>1 DEF LossInv, LineInv, Closes
<1>3. \A u \in Threads : u # t => thread'[u] = thread[u]
  BY DEF Closes, TypeInv, TypeOK
<1>4. ~Busy(t)'
  BY DEF Closes, TypeInv, TypeOK, Busy
<1>5. QED
  BY <1>2, <1>3, <1>4, ElsewhereKeeps

LEMMA OpenLoses ==
  ASSUME TypeInv, LossInv, NEW t \in Threads, open_ok(t)
  PROVE  LossInv'
<1>1. ~AnyBusy /\ ~Reading
  BY Unheld DEF open_ok
<1>2. /\ reply' = << >> /\ chunk' = chunk /\ chunk = << >>
      /\ UNCHANGED <<accepted, returned, delivered>>
  BY <1>1 DEF open_ok, device, LossInv, LineInv
<1>3. Read = delivered \o << >>
  BY <1>1 DEF LossInv, Kept
<1>4. reply' \o chunk' = << >>
  BY <1>2
<1>5. Kept'
  BY <1>2, <1>3, <1>4 DEF Kept, Read
<1>6. LineInv'
  BY <1>2 DEF LossInv, LineInv
<1>7. QED
  BY <1>5, <1>6 DEF LossInv

LEMMA EmptyLoses ==
  ASSUME TypeInv, TypeInv', LossInv, NEW t \in Threads, select_empty(t)
  PROVE  LossInv'
<1>1. /\ thread[t].pc = "select" /\ holder' = "nobody" /\ chunk' = << >>
      /\ delivered' = delivered \o reply
      /\ UNCHANGED <<accepted, returned, reply>>
  BY DEF select_empty, Closes, device
<1>2. ~AnyBusy'
  BY <1>1, PrussdAssumption DEF AnyBusy, Busy, TypeInv, HoldInv, Open
<1>3. AnyBusy /\ ~Reading
  <2>1. \A u \in Threads : Open(u) => u = t
    BY <1>1 DEF TypeInv, HoldInv, Open
  <2>2. QED
    BY <1>1, <2>1 DEF AnyBusy, Reading, Busy, Open
<1>4. chunk = << >>
  BY <1>3 DEF LossInv, LineInv
<1>5. reply \in Seq(Lines) /\ delivered \in Seq(Lines) /\ delivered' \in Seq(Lines)
  BY DEF TypeInv, TypeOK
<1>6. Read = delivered \o (reply \o << >>)
  BY <1>3, <1>4 DEF LossInv, Kept
<1>7. Read = delivered' \o << >>
  BY <1>1, <1>5, <1>6, ConcatEmptySeq
<1>8. Kept'
  BY <1>1, <1>2, <1>7 DEF Kept, Read
<1>9. LineInv'
  BY <1>1 DEF LossInv, LineInv
<1>10. QED
  BY <1>8, <1>9 DEF LossInv

LEMMA ReadLoses ==
  ASSUME TypeInv, LossInv, NEW t \in Threads, readline_read(t)
  PROVE  LossInv'
<1>1. /\ thread[t].pc = "readline" /\ ~HasLine /\ Dev!Get
      /\ chunk' = chunk \o Last(returned')
      /\ UNCHANGED <<thread, reply, delivered>>
  BY DEF readline_read
<1>2. TypeOK
  BY DEF TypeInv
<1>3. PICK e \in Seq(Lines) : /\ returned' = Append(returned, e) /\ Last(returned') = e
                              /\ Len(e) = 1 /\ accepted' = accepted
  BY <1>1, <1>2, GetIs DEF LossInv, LineInv
<1>4. AnyBusy /\ AnyBusy' /\ Reading /\ Reading'
  BY <1>1 DEF AnyBusy, Reading, Busy
<1>5. /\ returned \in Seq(Seq(Lines)) /\ chunk \in Seq(Lines)
      /\ reply \in Seq(Lines) /\ delivered \in Seq(Lines)
  BY <1>2 DEF TypeOK
<1>6. Kept'
  <2>1. Read' = Read \o e
    BY <1>3, <1>5, FlattenAppend DEF Read
  <2>2. Read = delivered \o (reply \o chunk)
    BY <1>4 DEF LossInv, Kept
  <2>3. (delivered \o (reply \o chunk)) \o e = delivered \o (reply \o (chunk \o e))
    <3>1. \A c, d \in Seq(Lines) : (delivered \o (reply \o c)) \o d = delivered \o (reply \o (c \o d))
      BY <1>5, ConcatFour, Zenon
    <3>2. QED
      BY <1>5, <3>1, Zenon
  <2>4. Read' = delivered \o (reply \o chunk')
    BY <1>1, <1>3, <2>1, <2>2, <2>3, Zenon
  <2>5. QED
    BY <1>1, <1>4, <2>4 DEF Kept
<1>7. LineInv'
  <2>1. /\ Len(chunk') = Len(chunk) + 1
        /\ \A j \in 1 .. Len(chunk) : chunk'[j] = chunk[j]
    <3>1. chunk' = chunk \o e /\ Len(e) = 1
      BY <1>1, <1>3
    <3>2. QED
      BY <1>5, <3>1, ConcatOne, Zenon
  <2>2. \A j \in 1 .. Len(chunk') - 1 : ~chunk'[j].nl
    BY <1>1, <1>5, <2>1 DEF HasLine
  <2>3. QED
    BY <1>3, <1>4, <2>2 DEF LossInv, LineInv
<1>8. QED
  BY <1>6, <1>7 DEF LossInv

LEMMA LineLoses ==
  ASSUME TypeInv, LossInv, NEW t \in Threads, readline_line(t)
  PROVE  LossInv'
<1>1. /\ HasLine /\ thread[t].pc = "readline" /\ thread' = [thread EXCEPT ![t].pc = "select"]
      /\ reply' = reply \o SubSeq(chunk, 1, LineEnd)
      /\ chunk' = SubSeq(chunk, LineEnd + 1, Len(chunk))
      /\ UNCHANGED <<accepted, returned, delivered>>
  BY DEF readline_line, Goto, device
<1>2. /\ chunk \in Seq(Lines) /\ reply \in Seq(Lines) /\ delivered \in Seq(Lines)
  BY DEF TypeInv, TypeOK
<1>3. LineEnd = Len(chunk)
  <2>1. LineEnd \in 1 .. Len(chunk) /\ chunk[LineEnd].nl
    BY <1>1, <1>2, LineEndIs
  <2>2. QED
    BY <1>2, <2>1 DEF LossInv, LineInv
<1>4. SubSeq(chunk, 1, LineEnd) = chunk /\ chunk' = << >>
  BY <1>1, <1>2, <1>3
<1>5. AnyBusy /\ AnyBusy'
  BY <1>1 DEF AnyBusy, Busy, TypeInv, TypeOK
<1>6. Kept'
  <2>1. Read = delivered \o (reply \o chunk)
    BY <1>5 DEF LossInv, Kept
  <2>2. reply \o chunk \in Seq(Lines)
    BY <1>2, ConcatProperties
  <2>3. reply' \o chunk' = reply \o chunk
    BY <1>1, <1>4, <2>2, ConcatEmptySeq
  <2>4. Read' = Read
    BY <1>1 DEF Read
  <2>5. QED
    BY <1>1, <1>5, <2>1, <2>3, <2>4 DEF Kept
<1>7. LineInv'
  <2>1. Len(chunk') - 1 = -1
    BY <1>4
  <2>2. \A k \in 1 .. Len(accepted') : Len(accepted'[k]) = 1
    BY <1>1 DEF LossInv, LineInv
  <2>3. QED
    BY <1>4, <2>1, <2>2 DEF LineInv
<1>8. QED
  BY <1>6, <1>7 DEF LossInv

LEMMA RemovedLoses ==
  ASSUME TypeInv, TypeInv', removed
  PROVE  LossInv'
<1>1. /\ accepted' = << >> /\ returned' = << >> /\ chunk' = << >> /\ delivered' = << >>
      /\ holder' = "nobody"
  BY DEF removed
<1>2. ~AnyBusy'
  BY <1>1, PrussdAssumption DEF AnyBusy, Busy, TypeInv, HoldInv, Open
<1>3. LineInv'
  BY <1>1 DEF LineInv
<1>4. Read' = << >>
  BY <1>1 DEF Read, FlattenSeq
<1>5. << >> \o << >> = << >>
  OBVIOUS
<1>6. QED
  BY <1>1, <1>2, <1>3, <1>4, <1>5 DEF LossInv, Kept

LEMMA LossNext ==
  ASSUME OneLine, TypeInv, TypeInv', LossInv, [Next]_vars
  PROVE  LossInv'
<1>0. TypeOK
  BY DEF TypeInv
<1>1. CASE UNCHANGED vars
  BY <1>1 DEF vars, device, LossInv, LineInv, Kept, Read, AnyBusy, Busy, Reading
<1>2. CASE probed
  BY <1>2 DEF probed, LossInv, LineInv, Kept, Read, AnyBusy, Busy, Reading
<1>3. ASSUME NEW shape \in Shapes, arrives(shape) PROVE LossInv'
  <2>1. PICK e \in Seq(Lines) : accepted' = Append(accepted, e) /\ Len(e) = 1
    BY <1>0, <1>3, ArrivesIs DEF OneLine
  <2>2. UNCHANGED <<returned, thread, chunk, reply, delivered>>
    BY <1>3 DEF arrives, Dev!Put
  <2>3. \A k \in 1 .. Len(accepted') : Len(accepted'[k]) = 1
    BY <1>0, <2>1 DEF LossInv, LineInv, TypeOK
  <2>4. QED
    BY <2>2, <2>3 DEF LossInv, LineInv, Kept, Read, AnyBusy, Busy, Reading
<1>4. ASSUME NEW t \in Threads, NEW cmd \in Commands, handle(t, cmd) PROVE LossInv'
  <2>1. /\ ~Busy(t) /\ ~Busy(t)' /\ \A u \in Threads : u # t => thread'[u] = thread[u]
        /\ UNCHANGED <<accepted, returned, chunk, reply, delivered>>
    BY <1>0, <1>4 DEF handle, Rest, device, Busy, TypeOK, NoCommand
  <2>2. QED
    BY <2>1, ElsewhereKeeps
<1>5. ASSUME NEW t \in Threads, event_timeout(t) PROVE LossInv'
  BY <1>5, ClosesLoses DEF event_timeout, device, Open, Busy
<1>6. ASSUME NEW t \in Threads,
             \/ args_accepted(t) \/ args_refused(t) \/ node_there(t) \/ node_missing(t)
             \/ node_sleep(t) \/ open_denied(t) \/ open_missing(t) \/ open_creates(t)
             \/ open_file(t) \/ file_ends(t) \/ gone_ends(t)
      PROVE  LossInv'
  <2>1. UNCHANGED <<accepted, returned, chunk, reply, delivered>>
    BY <1>6 DEF args_accepted, args_refused, node_there, node_missing, node_sleep, open_denied,
                open_missing, open_creates, open_file, file_ends, gone_ends, Rest, device
  <2>2. /\ thread[t].pc \in {"args", "node", "open", "file", "gone"}
        /\ thread'[t].pc \in {"node", "open", "file", "idle"}
        /\ \A u \in Threads : u # t => thread'[u] = thread[u]
    BY <1>0, <1>6 DEF args_accepted, args_refused, node_there, node_missing, node_sleep, open_denied,
                      open_missing, open_creates, open_file, file_ends, gone_ends,
                      Goto, Answers, TypeOK
  <2>3. QED
    BY <2>1, <2>2, ElsewhereKeeps DEF Busy
<1>7. ASSUME NEW t \in Threads, write(t) \/ write_fails(t) \/ event_comes(t) PROVE LossInv'
  BY <1>7, ClosesLoses DEF write, write_fails, event_comes, device, Open, Busy
<1>8. ASSUME NEW t \in Threads, select_ready(t) PROVE LossInv'
  <2>1. /\ thread[t].pc = "select" /\ thread'[t].pc = "readline"
        /\ UNCHANGED <<accepted, returned, chunk, reply, delivered>>
    BY <1>0, <1>8 DEF select_ready, Goto, Rest, device, TypeOK
  <2>2. AnyBusy /\ AnyBusy' /\ Reading'
    BY <2>1 DEF AnyBusy, Busy, Reading
  <2>3. QED
    BY <2>1, <2>2 DEF LossInv, LineInv, Kept, Read
<1>9. QED
  BY <1>1, <1>2, <1>3, <1>4, <1>5, <1>6, <1>7, <1>8, OpenLoses, EmptyLoses, ReadLoses, LineLoses,
     RemovedLoses DEF Next, serve, file_loops

LEMMA LossInit == Init => LossInv
<1> SUFFICES ASSUME Init PROVE LossInv
  OBVIOUS
<1>1. /\ accepted = << >> /\ returned = << >> /\ chunk = << >> /\ delivered = << >>
      /\ ~AnyBusy
  BY DEF Init, Dev!Init, NoCommand, AnyBusy, Busy
<1>2. LineInv
  BY <1>1 DEF LineInv
<1>3. Read = << >>
  BY <1>1 DEF Read, FlattenSeq
<1>4. << >> \o << >> = << >>
  OBVIOUS
<1>5. QED
  BY <1>1, <1>2, <1>3, <1>4 DEF LossInv, Kept

\* No line that left the device is lost, repeated or reordered, whichever
\* threads read it and whichever commands come between: it was sent to a
\* client, or is with the thread that has the device open. For messages of
\* one line, ended by a newline or not: get_msg's readline() leaves a second
\* line behind, and it is lost when the file is closed.
THEOREM LinesReachClients == ASSUME OneLine PROVE Spec => []NothingLost
<1>1. LossInv => NothingLost
  BY DEF LossInv, Kept, NothingLost, AnyBusy, Busy
<1>2. TypeInv /\ LossInv /\ [Next]_vars => TypeInv' /\ LossInv'
  BY TypeNext, LossNext
<1>3. Init => TypeInv /\ LossInv
  BY TypeInit, LossInit
<1>4. QED
  BY <1>1, <1>2, <1>3, PTL DEF Spec

\* A step of one thread leaves the others where they are.
LEMMA OthersKeep ==
  ASSUME TypeOK, NEW t \in Threads, NEW u \in Threads, u # t,
         serve(u) \/ event_timeout(u) \/ gone_ends(u) \/ \E cmd \in Commands : handle(u, cmd)
  PROVE  thread'[t] = thread[t]
<1>1. \/ \E r : Closes(u, r) \/ \E from : Answers(u, from, r) \/ Goto(u, from, r)
      \/ UNCHANGED thread
      \/ \E x : thread' = [thread EXCEPT ![u].slept = x] \/ thread' = [thread EXCEPT ![u] = x]
  BY DEF serve, event_timeout, handle, args_accepted, args_refused, node_there, node_missing,
         node_sleep, open_denied, open_ok, open_missing, open_creates, open_file, file_ends,
         file_loops, gone_ends, select_ready, select_empty, readline_read, readline_line,
         write, write_fails, event_comes, vars
<1>2. QED
  BY <1>1 DEF Closes, Answers, Goto, TypeOK

\* An EVENTWAIT on the device that is answered with 0 has seen a message, and the message is
\* still there: no other thread can have taken it, whatever the messages are.
THEOREM EventsAreTrue == Spec => EventIsTrue
<1>1. TypeInv /\ [Next]_vars =>
        [\A t \in Threads : (thread[t].pc = "wait" /\ thread'[t].ret = "0") => Readable']_vars
  <2> SUFFICES ASSUME TypeInv, Next, NEW t \in Threads,
                      thread[t].pc = "wait", thread'[t].ret = "0"
               PROVE  Readable'
    BY DEF vars
  <2>0. thread[t].ret = "none" /\ TypeOK
    BY DEF TypeInv, HoldInv
  <2>1. ~UNCHANGED thread
    BY <2>0
  <2>2. \A u \in Threads : u # t => /\ ~serve(u) /\ ~event_timeout(u) /\ ~gone_ends(u)
                                   /\ \A cmd \in Commands : ~handle(u, cmd)
    BY <2>0, OthersKeep
  <2>3. ~probed /\ ~removed /\ \A shape \in Shapes : ~arrives(shape)
    <3>1. ~probed /\ \A shape \in Shapes : ~arrives(shape)
      BY <2>1 DEF probed, arrives
    <3>2. ASSUME removed PROVE FALSE
      <4>1. thread'[t].ret = thread[t].ret
        BY <2>0, <3>2 DEF removed, TypeOK
      <4>2. QED
        BY <2>0, <4>1
    <3>3. QED
      BY <3>1, <3>2
  <2>4. \A cmd \in Commands : ~handle(t, cmd)
    BY DEF handle
  <2>5. ~event_timeout(t) /\ ~gone_ends(t)
    BY <2>0 DEF event_timeout, gone_ends, Answers, Closes, TypeOK
  <2>6. serve(t)
    BY <2>2, <2>3, <2>4, <2>5 DEF Next
  <2>7. event_comes(t)
    BY <2>6 DEF serve, args_accepted, args_refused, node_there, node_missing, node_sleep,
                open_denied, open_ok, open_missing, open_creates, open_file, file_ends,
                file_loops, select_ready, select_empty, readline_read, readline_line,
                write, write_fails, Goto, Answers
  <2>8. QED
    BY <2>7 DEF event_comes, Readable, device
<1>2. QED
  BY <1>1, TypeInit, TypeNext, PTL DEF Spec, EventIsTrue

=============================================================================
