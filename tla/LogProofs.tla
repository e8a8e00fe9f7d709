----------------------------- MODULE LogProofs ------------------------------
(***************************************************************************)
(* That the ring of al_log.c under its spin lock is the queue of LogQueue, *)
(* for any number of writers, any size of the ring and any number of       *)
(* lines.  The argument: the lock keeps all but one thread away from the   *)
(* ring (Exclusive), so the slot a writer has filled is still outside the  *)
(* lines that wait, and still its own, when it is published (FilledSlot).  *)
(***************************************************************************)
EXTENDS Log, SequenceTheorems, TLAPS

(* A writer that has filled the slot at tail: the ring is not full and the *)
(* slot holds a line.                                                      *)
FilledSlot ==
  \A w \in Writers :
    /\ logPc[w] = "in" => sent[w] > 0
    /\ logPc[w] = "filled" => Step(tail) # head /\ log[tail] \in Lines

IInv == LogTypeOK /\ Exclusive /\ FilledSlot
-----------------------------------------------------------------------------
(* Arithmetic of the ring.                                                 *)
LEMMA ModSmall ==
  \A a, c \in Nat : c > 0 /\ a < c + c => a % c = IF a < c THEN a ELSE a - c
BY SMT

LEMMA StepIs ==
  \A i \in Slots : Step(i) = (IF i + 1 = Count THEN 0 ELSE i + 1) /\ Step(i) \in Slots
BY LogAssumption, ModSmall DEF Step, Slots

LEMMA StepMoves == \A i \in Slots : Step(i) # i
BY LogAssumption, StepIs DEF Slots
-----------------------------------------------------------------------------
LEMMA OneOrTwo ==
  ASSUME NEW S, NEW a \in S, NEW b \in S
  PROVE  /\ <<a>> \o <<b>> \in Seq(S) /\ (<<a>> \o <<b>>)[1] = a
         /\ <<a>> \o <<>> \in Seq(S) /\ (<<a>> \o <<>>)[1] = a
OBVIOUS

LEMMA TextIs ==
  ASSUME LogTypeOK
  PROVE  Text(head) \in Seq(Lines \cup {Blank}) /\ Text(head)[1] = log[head]
<1>1. log[head] \in Lines \cup {Blank} /\ log[Step(head)] \in Lines \cup {Blank}
  BY StepIs DEF LogTypeOK
<1>2. QED
  BY <1>1, OneOrTwo, Zenon DEF Text
-----------------------------------------------------------------------------
LEMMA InitIInv == LogInit => IInv
<1> SUFFICES ASSUME LogInit PROVE IInv
  OBVIOUS
<1>1. LogTypeOK
  <2>1. /\ lock \in 0..1 /\ head \in Slots /\ tail \in Slots
        /\ sent \in [Writers -> 0..MaxLines]
    BY LogAssumption DEF LogInit, Slots
  <2>2. log \in [Slots -> Lines \cup {Blank}] /\ fd \in BOOLEAN
    BY Zenon DEF LogInit
  <2>3. logPc \in [Threads -> {"out", "in", "filled", "done"}]
    BY DEF LogInit
  <2>4. file \in Seq(Seq(Lines \cup {Blank}))
    BY DEF LogInit
  <2>5. QED
    BY <2>1, <2>2, <2>3, <2>4 DEF LogTypeOK
<1>2. Exclusive
  BY DEF LogInit, Exclusive, Holders
<1>3. FilledSlot
  BY DEF LogInit, FilledSlot, Threads
<1>4. QED
  BY <1>1, <1>2, <1>3 DEF IInv

LEMMA TypeStep == IInv /\ [LogNext]_logVars => LogTypeOK'
<1> SUFFICES ASSUME IInv, [LogNext]_logVars PROVE LogTypeOK'
  OBVIOUS
<1> USE StepIs, LogAssumption DEF IInv, LogTypeOK, Threads
<1>1. CASE UNCHANGED logVars
  BY <1>1 DEF logVars
<1>2. ASSUME NEW w \in Writers, log_core(w) PROVE LogTypeOK'
  BY <1>2 DEF log_core, Lock
<1>3. ASSUME NEW w \in Writers, Fill(w) PROVE LogTypeOK'
  <2>1. PICK long \in BOOLEAN :
          log' = [log EXCEPT ![tail] = [by |-> w, n |-> sent[w], long |-> long]]
    BY <1>3 DEF Fill
  <2>2. [by |-> w, n |-> sent[w], long |-> long] \in Lines
    BY <1>3 DEF Fill, FilledSlot, Lines
  <2>3. QED
    BY <1>3, <2>1, <2>2 DEF Fill
<1>4. ASSUME NEW w \in Writers, Publish(w) \/ Leave(w) PROVE LogTypeOK'
  BY <1>4 DEF Publish, Leave, Unlock
<1>5. CASE readlog
  BY <1>5 DEF readlog, Lock
<1>6. CASE WriteLine
  <2>1. Text(head) \in Seq(Lines \cup {Blank})
    BY TextIs
  <2>2. QED
    BY <1>6, <2>1 DEF WriteLine
<1>7. CASE Drained
  BY <1>7 DEF Drained, Unlock
<1>8. CASE poll_outlog_proc
  BY <1>8 DEF poll_outlog_proc
<1>9. QED
  BY <1>1, <1>2, <1>3, <1>4, <1>5, <1>6, <1>7, <1>8 DEF LogNext, LogThread, Inside

LEMMA ExclusiveStep == IInv /\ [LogNext]_logVars => Exclusive'
<1> SUFFICES ASSUME IInv, [LogNext]_logVars PROVE Exclusive'
  OBVIOUS
<1> USE DEF IInv, LogTypeOK, Threads, Exclusive, Holders
<1>1. ASSUME NEW t \in Threads, Lock(t) PROVE Exclusive'
  BY <1>1 DEF Lock
<1>2. ASSUME NEW t \in Threads, logPc[t] # "out", Unlock(t) PROVE Exclusive'
  BY <1>2 DEF Unlock
<1>3. ASSUME NEW t \in Threads, logPc[t] # "out", UNCHANGED lock,
             NEW where \in {"in", "filled", "done"}, logPc' = [logPc EXCEPT ![t] = where]
      PROVE  Exclusive'
  BY <1>3
<1>4. CASE UNCHANGED <<lock, logPc>>
  BY <1>4
<1>5. QED
  BY <1>1, <1>2, <1>3, <1>4
     DEF LogNext, LogThread, Inside, logVars, log_core, Fill, Publish, Leave, readlog,
         WriteLine, Drained, poll_outlog_proc

(* Another thread inside the lock would be a second holder.                *)
LEMMA FilledStep == IInv /\ [LogNext]_logVars => FilledSlot'
<1> SUFFICES ASSUME IInv, [LogNext]_logVars, NEW u \in Writers
             PROVE  /\ logPc'[u] = "in" => sent'[u] > 0
                    /\ logPc'[u] = "filled" => Step(tail') # head' /\ log'[tail'] \in Lines
  BY DEF FilledSlot, Step, Lines
<1> USE LogAssumption DEF IInv, LogTypeOK, Threads, FilledSlot
<1>a. ASSUME NEW t \in Threads, logPc[t] # "out", logPc[u] # "out" PROVE t = u
  BY <1>a DEF Exclusive, Holders
<1>b. ASSUME NEW t \in Threads, lock = 0 PROVE logPc[t] = "out"
  BY <1>b DEF Exclusive, Holders
<1>1. CASE UNCHANGED logVars
  BY <1>1 DEF logVars
<1>2. CASE \E w \in Writers : log_core(w)
  BY <1>2, <1>b DEF log_core, Lock
<1>3. ASSUME NEW w \in Writers, Fill(w)
      PROVE  /\ logPc'[u] = "in" => sent'[u] > 0
             /\ logPc'[u] = "filled" => Step(tail') # head' /\ log'[tail'] \in Lines
  <2>1. u # w => logPc'[u] = "out"
    BY <1>3, <1>a DEF Fill
  <2>2. Step(tail') # head'
    BY <1>3, StepIs, StepMoves DEF Fill, Full
  <2>3. log'[tail'] \in Lines
    BY <1>3 DEF Fill, Lines
  <2>4. logPc'[w] = "filled"
    BY <1>3 DEF Fill
  <2>5. QED
    BY <2>1, <2>2, <2>3, <2>4
<1>4. CASE \E w \in Writers : Publish(w) \/ Leave(w)
  BY <1>4, <1>a DEF Publish, Leave, Unlock
<1>5. CASE readlog \/ Drained
  BY <1>5, <1>a, <1>b DEF readlog, Lock, Drained, Unlock
<1>6. CASE WriteLine
  BY <1>6, <1>a DEF WriteLine
<1>7. CASE poll_outlog_proc
  BY <1>7 DEF poll_outlog_proc
<1>8. QED
  BY <1>1, <1>2, <1>3, <1>4, <1>5, <1>6, <1>7 DEF LogNext, LogThread, Inside

LEMMA StepIInv == IInv /\ [LogNext]_logVars => IInv'
BY TypeStep, ExclusiveStep, FilledStep DEF IInv

LEMMA Inductive == LogSpec => []IInv
BY InitIInv, StepIInv, PTL DEF LogSpec

(* log_core and readlog work on the ring one thread at a time (the CAS on  *)
(* g_log_mem->lock).                                                       *)
THEOREM LogExclusive == LogSpec => []Exclusive
<1>1. IInv => Exclusive
  BY DEF IInv
<1>2. QED
  BY <1>1, Inductive, PTL
-----------------------------------------------------------------------------
(***************************************************************************)
(* The lines that wait in a ring l with head h and tail t, the remainders  *)
(* resolved; LogPending is this for the ring as it stands.                 *)
(***************************************************************************)
Waits(h, t) == IF t >= h THEN t - h ELSE t + Count - h
At(h, i) == IF h + i - 1 < Count THEN h + i - 1 ELSE h + i - 1 - Count
Waiting(h, t, l) == [i \in 1..Waits(h, t) |-> l[At(h, i)]]

LEMMA WaitsIs ==
  ASSUME NEW h \in Slots, NEW t \in Slots
  PROVE  /\ Waits(h, t) \in Nat /\ Waits(h, t) < Count
         /\ \A i \in 1..Waits(h, t) : At(h, i) \in Slots /\ At(h, i) # t
BY LogAssumption DEF Waits, At, Slots

LEMMA PendingIs ==
  ASSUME NEW h \in Slots, NEW t \in Slots, NEW l
  PROVE  Waiting(h, t, l)
           = [i \in 1 .. ((t + Count - h) % Count) |-> l[(h + i - 1) % Count]]
<1> USE LogAssumption DEF Slots
<1>1. (t + Count - h) % Count = Waits(h, t)
  <2>1. PICK a \in Nat : a = t + Count - h
    OBVIOUS
  <2>2. a < Count + Count /\ Count \in Nat /\ Count > 0
    BY <2>1
  <2>3. a % Count = IF a < Count THEN a ELSE a - Count
    BY <2>2, ModSmall
  <2>4. QED
    BY <2>1, <2>3 DEF Waits
<1>2. ASSUME NEW i \in 1..Waits(h, t) PROVE (h + i - 1) % Count = At(h, i)
  <2>1. PICK a \in Nat : a = h + i - 1
    BY WaitsIs
  <2>2. a < Count + Count /\ Count \in Nat /\ Count > 0
    BY WaitsIs, <2>1
  <2>3. a % Count = IF a < Count THEN a ELSE a - Count
    BY <2>2, ModSmall
  <2>4. QED
    BY <2>1, <2>3 DEF At
<1>3. QED
  BY <1>1, <1>2 DEF Waiting

(* A queue of n lines, and what its operations do to it.                   *)
LEMMA QueueTail ==
  ASSUME NEW S, NEW n \in Nat, NEW q \in [1..n -> S], n > 0
  PROVE  /\ q # <<>> /\ Head(q) = q[1]
         /\ Tail(q) = [i \in 1..(n - 1) |-> q[i + 1]]
<1>1. q \in Seq(S) /\ Len(q) = n
  BY SMT
<1>2. q # <<>> /\ Head(q) = q[1]
  BY <1>1, SMT
<1> DEFINE r == [i \in 1..(n - 1) |-> q[i + 1]]
<1>3. r \in [1..(n - 1) -> S]
  OBVIOUS
<1>4. r \in Seq(S) /\ Len(r) = n - 1
  BY <1>3
<1>5. /\ Tail(q) \in Seq(S) /\ Len(Tail(q)) = n - 1
      /\ \A i \in 1..(n - 1) : Tail(q)[i] = q[i + 1]
  BY <1>1, <1>2, HeadTailProperties
<1>6. QED
  BY <1>2, <1>4, <1>5, SeqEqual

LEMMA QueueAppend ==
  ASSUME NEW S, NEW n \in Nat, NEW q \in [1..n -> S], NEW x \in S
  PROVE  Append(q, x) = [i \in 1..(n + 1) |-> IF i = n + 1 THEN x ELSE q[i]]
<1>1. q \in Seq(S) /\ Len(q) = n
  BY SMT
<1> DEFINE r == [i \in 1..(n + 1) |-> IF i = n + 1 THEN x ELSE q[i]]
<1>2. r \in [1..(n + 1) -> S]
  OBVIOUS
<1>3. r \in Seq(S) /\ Len(r) = n + 1
  BY <1>2
<1>4. /\ Append(q, x) \in Seq(S) /\ Len(Append(q, x)) = n + 1
      /\ \A i \in 1..(n + 1) : Append(q, x)[i] = r[i]
  BY <1>1, AppendProperties
<1>5. QED
  BY <1>3, <1>4, SeqEqual

(* Writing at tail does not touch what waits.                              *)
LEMMA WaitingSame ==
  ASSUME NEW h \in Slots, NEW t \in Slots, NEW l, NEW m,
         \A j \in Slots \ {t} : m[j] = l[j]
  PROVE  Waiting(h, t, m) = Waiting(h, t, l)
BY WaitsIs DEF Waiting

(* Moving head takes the oldest line away.                                 *)
LEMMA WaitingDrop ==
  ASSUME NEW h \in Slots, NEW t \in Slots, t # h,
         NEW l \in [Slots -> Lines \cup {Blank}], NEW m, \A j \in Slots \ {t} : m[j] = l[j]
  PROVE  /\ Waiting(Step(h), t, m) = Tail(Waiting(h, t, l))
         /\ Waiting(h, t, l) # <<>> /\ Head(Waiting(h, t, l)) = l[h]
<1> DEFINE n == Waits(h, t)
           q == Waiting(h, t, l)
<1>a. Step(h) = (IF h + 1 = Count THEN 0 ELSE h + 1)
  BY StepIs
<1>1. n \in Nat /\ n > 0 /\ n < Count /\ Waits(Step(h), t) = n - 1 /\ At(h, 1) = h
  BY <1>a, LogAssumption DEF Slots, Waits, At
<1>2. \A i \in 1..(n - 1) : i + 1 \in 1..n /\ At(Step(h), i) = At(h, i + 1)
  BY <1>a, <1>1, LogAssumption DEF Slots, At
<1>3. q \in [1..n -> Lines \cup {Blank}] /\ \A i \in 1..n : q[i] = l[At(h, i)]
  BY WaitsIs DEF Waiting
<1>4. l[h] \in Lines \cup {Blank} /\ \A i \in 1..n : At(h, i) \in Slots \ {t}
  BY WaitsIs
<1> HIDE DEF n, q
<1>5. Tail(q) = [i \in 1..(n - 1) |-> q[i + 1]] /\ q # <<>> /\ Head(q) = q[1]
  BY QueueTail, <1>1, <1>3
<1>6. \A i \in 1..(n - 1) : q[i + 1] = m[At(Step(h), i)]
  BY <1>2, <1>3, <1>4
<1>7. Waiting(Step(h), t, m) = Tail(q)
  BY <1>1, <1>5, <1>6, Zenon DEF Waiting
<1>8. QED
  BY <1>1, <1>3, <1>5, <1>7 DEF q

(* Moving tail adds the line in its slot.                                  *)
LEMMA WaitingAdd ==
  ASSUME NEW h \in Slots, NEW t \in Slots, Step(t) # h,
         NEW l \in [Slots -> Lines \cup {Blank}]
  PROVE  /\ Waiting(h, Step(t), l) = Append(Waiting(h, t, l), l[t])
         /\ Waits(h, t) < Count - 1
<1> DEFINE n == Waits(h, t)
           q == Waiting(h, t, l)
<1>a. Step(t) = (IF t + 1 = Count THEN 0 ELSE t + 1)
  BY StepIs
<1>1. n \in Nat /\ n < Count - 1 /\ Waits(h, Step(t)) = n + 1 /\ At(h, n + 1) = t
  BY <1>a, LogAssumption DEF Slots, Waits, At
<1>2. q \in [1..n -> Lines \cup {Blank}] /\ \A i \in 1..n : q[i] = l[At(h, i)]
  BY WaitsIs DEF Waiting
<1>3. l[t] \in Lines \cup {Blank}
  OBVIOUS
<1> HIDE DEF n, q
<1>4. Append(q, l[t]) = [i \in 1..(n + 1) |-> IF i = n + 1 THEN l[t] ELSE q[i]]
  BY QueueAppend, <1>1, <1>2, <1>3
<1>5. ASSUME NEW i \in 1..(n + 1)
      PROVE  (IF i = n + 1 THEN l[t] ELSE q[i]) = l[At(h, i)]
  <2>1. i = n + 1 \/ i \in 1..n
    BY <1>1
  <2>2. QED
    BY <1>1, <1>2, <2>1
<1>6. Waiting(h, Step(t), l) = Append(q, l[t])
  BY <1>1, <1>4, <1>5 DEF Waiting
<1>7. QED
  BY <1>1, <1>6 DEF n, q

(* What the file holds of each line: its own slot first.                   *)
Written(f) == [i \in 1..Len(f) |-> f[i][1]]

LEMMA WrittenAppend ==
  ASSUME NEW S, NEW f \in Seq(S), NEW x \in S
  PROVE  Written(Append(f, x)) = Append(Written(f), x[1])
<1> DEFINE T == {f[i][1] : i \in 1..Len(f)} \cup {x[1]}
           n == Len(f)
<1>1. n \in Nat /\ Written(f) \in [1..n -> T] /\ x[1] \in T
  BY LenProperties DEF Written
<1>2. /\ Len(Append(f, x)) = n + 1
      /\ \A i \in 1..n : Append(f, x)[i] = f[i]
      /\ Append(f, x)[n + 1] = x
  BY AppendProperties
<1>3. \A i \in 1..n : Written(f)[i] = f[i][1]
  BY DEF Written
<1> HIDE DEF T, n
<1>4. Append(Written(f), x[1])
        = [i \in 1..(n + 1) |-> IF i = n + 1 THEN x[1] ELSE Written(f)[i]]
  BY <1>1, QueueAppend
<1>5. ASSUME NEW i \in 1..(n + 1)
      PROVE  Append(f, x)[i][1] = IF i = n + 1 THEN x[1] ELSE Written(f)[i]
  <2>1. i = n + 1 \/ i \in 1..n
    BY <1>1
  <2>2. QED
    BY <1>1, <1>2, <1>3, <2>1
<1>6. Written(Append(f, x)) = [i \in 1..(n + 1) |-> Append(f, x)[i][1]]
  BY <1>2 DEF Written
<1>7. QED
  BY <1>4, <1>5, <1>6

LEMMA QueueInit == LogInit => Queue!Init
<1> SUFFICES ASSUME LogInit PROVE Queue!Init
  OBVIOUS
<1>1. Waits(0, 0) = 0
  BY DEF Waits
<1>2. LogPending = Waiting(0, 0, log)
  BY PendingIs, LogAssumption DEF LogInit, LogPending, Slots
<1>3. LogPending = <<>>
  BY <1>1, <1>2 DEF Waiting
<1>4. QED
  BY <1>3 DEF LogInit, Queue!Init

LEMMA QueueStep == IInv /\ LogTypeOK' /\ [LogNext]_logVars => [Queue!Next]_Queue!vars
<1> SUFFICES ASSUME IInv, LogTypeOK', [LogNext]_logVars PROVE [Queue!Next]_Queue!vars
  OBVIOUS
<1>0. LogTypeOK
  BY DEF IInv
<1>1. LogPending = Waiting(head, tail, log) /\ LogPending' = Waiting(head', tail', log')
  BY <1>0, PendingIs DEF LogPending, LogTypeOK
<1>t. head \in Slots /\ tail \in Slots /\ log \in [Slots -> Lines \cup {Blank}]
  BY <1>0 DEF LogTypeOK
<1>2. CASE UNCHANGED <<head, tail, log, file>>
  BY <1>2 DEF LogPending, Queue!vars
<1>3. ASSUME NEW w \in Writers, Fill(w) PROVE [Queue!Next]_Queue!vars
  <2>1. \A j \in Slots \ {tail} : log'[j] = log[j]
    BY <1>t, <1>3 DEF Fill
  <2>2. tail' = tail /\ file' = file
    BY <1>3 DEF Fill
  <2>3. CASE ~Full
    <3>1. LogPending' = LogPending
      <4>1. Waiting(head, tail, log') = Waiting(head, tail, log)
        BY <1>t, <2>1, WaitingSame, SMT
      <4>2. head' = head
        BY <1>3, <2>3 DEF Fill
      <4>3. QED
        BY <1>1, <2>2, <4>1, <4>2, Zenon
    <3>2. QED
      BY <2>2, <3>1 DEF Queue!vars
  <2>4. CASE Full
    <3>1. tail # head /\ head' = Step(head)
      BY <1>t, <1>3, <2>4, StepMoves DEF Fill, Full
    <3>2. LogPending' = Tail(LogPending)
      <4>1. Waiting(Step(head), tail, log') = Tail(Waiting(head, tail, log))
        BY <1>t, <2>1, <3>1, WaitingDrop, SMT
      <4>2. QED
        BY <1>1, <2>2, <3>1, <4>1, Zenon
    <3>3. Waits(head, tail) = Count - 1
      <4>1. Step(tail) = (IF tail + 1 = Count THEN 0 ELSE tail + 1)
        BY <1>t, StepIs
      <4>2. QED
        BY <1>t, <2>4, <4>1, LogAssumption DEF Full, Waits, Slots
    <3>4. Len(LogPending) = Count - 1
      BY <1>1, <1>t, <3>3, LogAssumption DEF Waiting
    <3>5. QED
      BY <2>2, <3>2, <3>4 DEF Queue!Next, Queue!DropOldest
  <2>5. QED
    BY <2>3, <2>4
<1>4. ASSUME NEW w \in Writers, Publish(w) PROVE [Queue!Next]_Queue!vars
  <2>1. /\ Step(tail) # head /\ log[tail] \in Lines
        /\ tail' = Step(tail) /\ head' = head /\ log' = log /\ file' = file
    BY <1>4 DEF Publish, FilledSlot, IInv
  <2>2. LogPending' = Append(LogPending, log[tail]) /\ Waits(head, tail) < Count - 1
    BY <1>1, <1>t, <2>1, WaitingAdd, SMT
  <2>3. Len(LogPending) < Count - 1
    BY <1>1, <1>t, <2>2, WaitsIs DEF Waiting
  <2>4. QED
    BY <2>1, <2>2, <2>3 DEF Queue!Next, Queue!Put
<1>5. CASE WriteLine
  <2>1. /\ tail # head /\ file' = Append(file, Text(head))
        /\ head' = Step(head) /\ tail' = tail /\ log' = log
    BY <1>5 DEF WriteLine
  <2>2. LogPending' = Tail(LogPending) /\ LogPending # <<>> /\ Head(LogPending) = log[head]
    <3>1. \A j \in Slots \ {tail} : log[j] = log[j]
      OBVIOUS
    <3>2. /\ Waiting(Step(head), tail, log) = Tail(Waiting(head, tail, log))
          /\ Waiting(head, tail, log) # <<>>
          /\ Head(Waiting(head, tail, log)) = log[head]
      BY <1>t, <2>1, <3>1, WaitingDrop, SMT
    <3>3. QED
      BY <1>1, <2>1, <3>2, Zenon
  <2>3. Written(file') = Append(Written(file), log[head])
    BY <1>0, <2>1, WrittenAppend, TextIs DEF LogTypeOK
  <2>4. QED
    BY <2>2, <2>3 DEF Queue!Next, Queue!Write, Written
<1>6. QED
  BY <1>2, <1>3, <1>4, <1>5
     DEF LogNext, LogThread, Inside, logVars, log_core, Leave, readlog, Drained,
         poll_outlog_proc

(* Every behaviour of the ring under its lock (log_core, readlog) is one   *)
(* of the queue: filling a full ring gives up the oldest line, publishing  *)
(* the slot adds one, readlog writes the oldest to the file, and every     *)
(* other step leaves what waits and what is written as they are.           *)
THEOREM RingIsQueue == LogSpec => ImplementsQueue
<1>1. IInv /\ IInv' /\ [LogNext]_logVars => [Queue!Next]_Queue!vars
  BY QueueStep DEF IInv
<1>2. QED
  BY <1>1, QueueInit, Inductive, PTL DEF LogSpec, ImplementsQueue, Queue!Spec
=============================================================================
