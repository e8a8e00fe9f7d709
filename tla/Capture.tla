------------------------------ MODULE Capture -------------------------------
(***************************************************************************)
(* The packet capture of one device (al_pktdump.c): the workers that read  *)
(* or write the device call al_output for every burst while is_pcap is     *)
(* set, and the debug API starts a capture with al_pcap_set.               *)
(*                                                                         *)
(* A capture whose time is over is closed without the lock, and the lock   *)
(* is released after the first packet of a burst and inside                *)
(* al_port_cap_init, so workers meet in the file.  Only descriptors of     *)
(* this file are modelled.  A step is one system call or one store, except *)
(* that a write takes the unlock after it along, the failed write of the   *)
(* file header also the close, and open the store of its descriptor.       *)
(***************************************************************************)
EXTENDS Integers, Sequences, FiniteSets

CONSTANTS
  Capturers,     \* workers that call al_output for the device
  Descriptors,   \* numbers open may return; when none is left it fails
  MaxBurst,      \* bound: packets of a burst
  MaxRecords     \* bound: records in the file when a burst begins

NoFd == -1
ASSUME CaptureAssumption ==
  /\ Descriptors \subseteq Nat /\ MaxBurst \in Nat /\ MaxRecords \in Nat

VARIABLES
  capOn,         \* is_pcap of the device
  capOver,       \* whether the time of the capture is over
  capApi,        \* al_pcap_set: "out", or "flag" with is_pcap still to set
  capFd,         \* dump_fd.fd
  capLock,       \* dump_fd.lock
  capOpened,     \* descriptors of the file that are open
  capAt,         \* [Capturers -> where in al_output, packets left]
  capAlone,      \* history: no two workers were in al_output at once
  capFile        \* history: what is in the file, kept while capAlone
captureVars ==
  <<capOn, capOver, capApi, capFd, capLock, capOpened, capAt, capAlone, capFile>>

CaptureInit ==
  /\ capOn = FALSE /\ capOver = TRUE /\ capApi = "out"
  /\ capFd = NoFd /\ capLock = 0 /\ capOpened = {}
  /\ capAt = [w \in Capturers |-> [at |-> "out", left |-> 0]]
  /\ capAlone = TRUE /\ capFile = <<>>

Goto(w, pc) == capAt' = [capAt EXCEPT ![w].at = pc]
Idle == \A w \in Capturers : capAt[w].at = "out"
Record(r) == capFile' = IF capAlone THEN Append(capFile, r) ELSE capFile
-----------------------------------------------------------------------------
(* The API and the clock.                                                  *)
al_set_pcap_duration ==
  /\ capApi = "out" /\ capApi' = "flag" /\ capOver' = FALSE
  /\ UNCHANGED <<capOn, capFd, capLock, capOpened, capAt, capAlone, capFile>>

al_pcap_set ==
  /\ capApi = "flag" /\ capApi' = "out" /\ capOn' = TRUE
  /\ UNCHANGED <<capOver, capFd, capLock, capOpened, capAt, capAlone, capFile>>

TimePasses ==
  /\ ~capOver /\ capOver' = TRUE
  /\ UNCHANGED <<capOn, capApi, capFd, capLock, capOpened, capAt, capAlone, capFile>>
-----------------------------------------------------------------------------
(* The worker.                                                             *)
al_output(w, n) ==
  /\ capAt[w].at = "out" /\ capOn
  /\ Len(capFile) + n <= MaxRecords
  /\ \/ capOver /\ capFd # NoFd
        /\ capAt' = [capAt EXCEPT ![w] = [at |-> "close", left |-> 0]]
     \/ ~capOver /\ n # 0
        /\ capAt' = [capAt EXCEPT ![w] = [at |-> "lock", left |-> n]]
  /\ capAlone' = (capAlone /\ Idle)
  /\ UNCHANGED <<capOn, capOver, capApi, capFd, capLock, capOpened, capFile>>

CloseFile(w) ==
  /\ capAt[w].at = "close" /\ Goto(w, "closed")
  /\ capOpened' = capOpened \ {capFd}
  /\ UNCHANGED <<capOn, capOver, capApi, capFd, capLock, capAlone, capFile>>

ForgetFile(w) ==
  /\ capAt[w].at = "closed" /\ Goto(w, "finish")
  /\ capFd' = NoFd
  /\ UNCHANGED <<capOn, capOver, capApi, capLock, capOpened, capAlone, capFile>>

al_finished_pcap(w) ==
  /\ capAt[w].at = "finish" /\ Goto(w, "out")
  /\ capOn' = FALSE
  /\ UNCHANGED <<capOver, capApi, capFd, capLock, capOpened, capAlone, capFile>>

LockFile(w) ==
  /\ capAt[w].at = "lock" /\ capLock = 0 /\ capLock' = 1
  /\ Goto(w, IF capFd = NoFd THEN "open" ELSE "packet")
  /\ UNCHANGED <<capOn, capOver, capApi, capFd, capOpened, capAlone, capFile>>

al_port_cap_init(w) ==
  /\ capAt[w].at = "open"
  /\ \/ \E d \in Descriptors \ capOpened :
          /\ capFd' = d /\ capOpened' = capOpened \cup {d} /\ capFile' = <<>>
          /\ Goto(w, "header")
     \/ /\ capFd' = NoFd /\ Goto(w, "failed")
        /\ UNCHANGED <<capOpened, capFile>>
  /\ UNCHANGED <<capOn, capOver, capApi, capLock, capAlone>>

(* The lock is released here on success too, with the burst still to come. *)
WriteFileHeader(w) ==
  /\ capAt[w].at = "header" /\ capLock' = 0
  /\ \/ /\ capFd \in capOpened /\ Record("header") /\ Goto(w, "packet")
        /\ UNCHANGED <<capFd, capOpened>>
     \/ /\ capOpened' = capOpened \ {capFd} /\ capFd' = NoFd
        /\ Goto(w, "failed") /\ UNCHANGED capFile
  /\ UNCHANGED <<capOn, capOver, capApi, capAlone>>

UnlockFailed(w) ==
  /\ capAt[w].at = "failed" /\ Goto(w, "forget") /\ capLock' = 0
  /\ UNCHANGED <<capOn, capOver, capApi, capFd, capOpened, capAlone, capFile>>

ForgetFailed(w) ==
  /\ capAt[w].at = "forget" /\ Goto(w, "out") /\ capFd' = NoFd
  /\ UNCHANGED <<capOn, capOver, capApi, capLock, capOpened, capAlone, capFile>>

WriteKeepsLock(w) ==
  /\ capAt[w].at = "packet"
  /\ \/ capFd \in capOpened /\ Record("packet") /\ Goto(w, "data")
     \/ Goto(w, "out") /\ UNCHANGED capFile
  /\ UNCHANGED <<capOn, capOver, capApi, capFd, capLock, capOpened, capAlone>>

WritePacketHeader(w) ==
  /\ capAt[w].at = "packet"
  /\ \/ /\ capFd \in capOpened /\ Record("packet") /\ Goto(w, "data")
        /\ UNCHANGED capLock
     \/ capLock' = 0 /\ Goto(w, "out") /\ UNCHANGED capFile
  /\ UNCHANGED <<capOn, capOver, capApi, capFd, capOpened, capAlone>>

(* The segments of the packet, up to the first that cannot be written.     *)
WritePacket(w) ==
  /\ capAt[w].at = "data" /\ capLock' = 0
  /\ \/ capFd \in capOpened /\ Record("data")
     \/ UNCHANGED capFile
  /\ capAt' = [capAt EXCEPT ![w] =
       [at |-> IF capAt[w].left = 1 THEN "out" ELSE "packet",
        left |-> capAt[w].left - 1]]
  /\ UNCHANGED <<capOn, capOver, capApi, capFd, capOpened, capAlone>>

CaptureNext ==
  \/ al_set_pcap_duration \/ al_pcap_set \/ TimePasses
  \/ \E w \in Capturers :
       \/ \E n \in 0..MaxBurst : al_output(w, n)
       \/ CloseFile(w) \/ ForgetFile(w) \/ al_finished_pcap(w)
       \/ LockFile(w) \/ al_port_cap_init(w) \/ WriteFileHeader(w)
       \/ UnlockFailed(w) \/ ForgetFailed(w)
       \/ WritePacketHeader(w) \/ WritePacket(w)

CaptureSpec == CaptureInit /\ [][CaptureNext]_captureVars
-----------------------------------------------------------------------------
(* al_output never leaves the lock taken, by whatever path it returns and  *)
(* however bursts of two workers, the end of a capture and the start of    *)
(* the next fall together: while it is taken some worker is at a step that *)
(* comes to a release.  And as long as no two workers were in al_output at *)
(* once, the file has one descriptor at most and dump_fd.fd names it, what *)
(* is written after a restart of the capture goes to a file that begins    *)
(* with the header, and no data is there without its packet header.        *)
CaptureKept ==
  /\ capLock = 1 => \E w \in Capturers :
       capAt[w].at \in {"open", "header", "failed", "packet", "data"}
  /\ capAlone =>
       /\ Idle => capOpened = {capFd} \ {NoFd}
       /\ Cardinality(capOpened) <= 1
       /\ \A i \in DOMAIN capFile :
            /\ capFile[i] = "header" <=> i = 1
            /\ capFile[i] = "data" => capFile[i - 1] = "packet"
=============================================================================
