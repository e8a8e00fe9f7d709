-------------------------------- MODULE Log --------------------------------
(***************************************************************************)
(* The log (al_log.c): every thread of the program formats its lines into  *)
(* the slots of one ring, and the log thread (poll_outlog_proc in          *)
(* al_master.c) writes them to a file.  A one-byte spin lock guards the    *)
(* ring on both sides.  A line is the writer, its number and whether it is *)
(* longer than a slot; time, level and module are left out.                *)
(***************************************************************************)
EXTENDS Naturals, Sequences, FiniteSets

CONSTANTS
  Writers,
  Count,      \* slots of the ring, 2048 in the code
  MaxLines    \* bound: lines a thread writes

ASSUME LogAssumption ==
  Count \in Nat /\ Count > 1 /\ MaxLines \in Nat /\ "log" \notin Writers

VARIABLES
  lock, head, tail,
  log,        \* [slots -> line, or Blank]
  fd,         \* whether the log thread has a file open
  logPc,      \* [threads -> where each is]
  sent,       \* [Writers -> lines begun]
  file        \* what the log thread has written: per line, the slots' lines
logVars == <<lock, head, tail, log, fd, logPc, sent, file>>

Threads == Writers \cup {"log"}
Slots == 0 .. Count - 1
Lines == [by : Writers, n : 1..MaxLines, long : BOOLEAN]
Blank == [by |-> "log", n |-> 0, long |-> FALSE]    \* the ring is zeroed

Step(i) == (i + 1) % Count
Full == Step(tail) = head

(* init_log *)
LogInit ==
  /\ lock = 0 /\ head = 0 /\ tail = 0
  /\ log = [i \in Slots |-> Blank]
  /\ fd = FALSE
  /\ logPc = [t \in Threads |-> "out"]
  /\ sent = [w \in Writers |-> 0]
  /\ file = <<>>

(* CAS(&g_log_mem->lock, 0, 1), and the store that ends the section.       *)
Lock(t) == lock = 0 /\ lock' = 1 /\ logPc' = [logPc EXCEPT ![t] = "in"]
Unlock(t) == lock' = 0 /\ logPc' = [logPc EXCEPT ![t] = "out"]

(***************************************************************************)
(* log_core: take the lock; if the ring is full give up the oldest line;   *)
(* fill the slot at tail; advance tail; release.                           *)
(***************************************************************************)
log_core(w) ==
  /\ logPc[w] = "out" /\ sent[w] < MaxLines
  /\ Lock(w)
  /\ sent' = [sent EXCEPT ![w] = @ + 1]
  /\ UNCHANGED <<head, tail, log, fd, file>>

FillKeepsHead(w) ==
  /\ logPc[w] = "in"
  /\ \E long \in BOOLEAN :
       log' = [log EXCEPT ![tail] = [by |-> w, n |-> sent[w], long |-> long]]
  /\ logPc' = [logPc EXCEPT ![w] = "filled"]
  /\ UNCHANGED <<lock, head, tail, fd, sent, file>>
Fill(w) ==
  /\ logPc[w] = "in"
  /\ head' = IF Full THEN Step(head) ELSE head
  /\ \E long \in BOOLEAN :
       log' = [log EXCEPT ![tail] = [by |-> w, n |-> sent[w], long |-> long]]
  /\ logPc' = [logPc EXCEPT ![w] = "filled"]
  /\ UNCHANGED <<lock, tail, fd, sent, file>>

Publish(w) ==
  /\ logPc[w] = "filled"
  /\ tail' = Step(tail)
  /\ logPc' = [logPc EXCEPT ![w] = "done"]
  /\ UNCHANGED <<lock, head, log, fd, sent, file>>

Leave(w) ==
  logPc[w] = "done" /\ Unlock(w) /\ UNCHANGED <<head, tail, log, fd, sent, file>>

(***************************************************************************)
(* readlog writes msglen bytes from the slot: of a line vsnprintf had to   *)
(* cut, msglen is the length it would have had, so the next slot's bytes   *)
(* follow.                                                                 *)
(***************************************************************************)
Text(i) == <<log[i]>> \o (IF log[i].long THEN <<log[Step(i)]>> ELSE <<>>)

readlog ==
  /\ fd /\ logPc["log"] = "out"
  /\ Lock("log")
  /\ UNCHANGED <<head, tail, log, fd, sent, file>>

WriteLine ==
  /\ logPc["log"] = "in" /\ tail # head
  /\ file' = Append(file, Text(head))
  /\ head' = Step(head)
  /\ UNCHANGED <<lock, tail, log, fd, logPc, sent>>

(* The ring is empty; poll_outlog_proc may close a file that has grown.    *)
Drained ==
  /\ logPc["log"] = "in" /\ tail = head
  /\ Unlock("log")
  /\ fd' \in BOOLEAN
  /\ UNCHANGED <<head, tail, log, sent, file>>

NoReopen == ~fd /\ UNCHANGED logVars
poll_outlog_proc ==
  ~fd /\ fd' = TRUE /\ UNCHANGED <<lock, head, tail, log, logPc, sent, file>>

LogThread == readlog \/ WriteLine \/ Drained \/ poll_outlog_proc
Inside(w) == Fill(w) \/ Publish(w) \/ Leave(w)
LogNext == LogThread \/ \E w \in Writers : log_core(w) \/ Inside(w)

LogSpec == LogInit /\ [][LogNext]_logVars

(* The log thread and a thread inside the lock are scheduled; the spin     *)
(* promises nobody the lock while others take it.                          *)
LogFair == WF_logVars(LogThread) /\ \A w \in Writers : WF_logVars(Inside(w))
-----------------------------------------------------------------------------
Holders == {t \in Threads : logPc[t] # "out"}

(* Types; head and tail stay inside the ring.                              *)
LogTypeOK ==
  /\ lock \in 0..1 /\ head \in Slots /\ tail \in Slots
  /\ log \in [Slots -> Lines \cup {Blank}]
  /\ fd \in BOOLEAN
  /\ logPc \in [Threads -> {"out", "in", "filled", "done"}]
  /\ sent \in [Writers -> 0..MaxLines]
  /\ file \in Seq(Seq(Lines \cup {Blank}))

(* The CAS of log_core and readlog lets one thread at a time at the ring,  *)
(* and the lock is taken exactly while someone is there.                   *)
Exclusive ==
  /\ \A t, u \in Holders : t = u
  /\ (lock = 1) = (Holders # {})

(* The lines waiting in the ring, oldest first.                            *)
LogPending ==
  [i \in 1 .. ((tail + Count - head) % Count) |-> log[(head + i - 1) % Count]]

Queue == INSTANCE LogQueue
  WITH Room <- Count - 1, queue <- LogPending,
       file <- [i \in 1..Len(file) |-> file[i][1]]

(* The ring under its lock keeps the promise of the abstract log: order is *)
(* kept, and only the oldest line of a full ring is given up.              *)
ImplementsQueue == Queue!Spec

LogQuiet == \A w \in Writers : logPc[w] = "out" /\ sent[w] = MaxLines

(* Once no thread writes any more, the log thread (poll_outlog_proc,       *)
(* readlog) empties the ring.                                              *)
EmptiedWhenQuiet == LogQuiet ~> (LogQuiet /\ head = tail)
=============================================================================
