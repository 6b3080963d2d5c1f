------------------------------- MODULE Audit --------------------------------
(* internal/audit/audit.go and openAudit: concurrent Records append JSON      *)
(* lines to a file opened with O_APPEND.  The label is taken from an atomic   *)
(* counter before the lock; the line is written under it.  os.File.Write may  *)
(* stop with an error after some of the bytes, so a line is a head and a tail *)
(* (the tail ends in the newline).  The process may die and be started again: *)
(* the file stays, the counter starts over.                                   *)
(*                                                                            *)
(* A label is named by the process and the number of its Record; its text is  *)
(* that number and what the clock read.  The clock may stand still or step    *)
(* back while a process runs; a process starts later than all that the ones   *)
(* before it have read.                                                       *)
(*                                                                            *)
(* An operator whose comment starts with FAULT is a bug that could have been  *)
(* written in place of the definition below it; no specification uses it.     *)
EXTENDS Naturals, Sequences

CONSTANTS Writers,   \* goroutines that call Record
          MaxSeq,    \* bound on the labels of one process
          MaxRuns,   \* bound on the times the process is started
          MaxClock   \* bound on the clock

ASSUME MaxSeqAssumption == MaxSeq \in Nat \ {0}
ASSUME MaxRunsAssumption == MaxRuns \in Nat \ {0}
ASSUME MaxClockAssumption == MaxClock \in Nat \ {0}

NoWriter == "none"
ASSUME WritersAssumption == NoWriter \notin Writers

VARIABLES run,      \* the incarnation of the process
          seq,      \* l.seq
          boot,     \* the clock when the process started
          owner,    \* who holds l.mu
          pc,       \* where each Record stands
          label,    \* the label of its entry, with its run
          stamp,    \* for each label, what the clock read, or 0 before that
          file,     \* what has been appended: heads and tails
          returned, \* what every Record that returned did return, by label
          before    \* for each label, those of its run acknowledged when it was taken

vars == <<run, seq, boot, owner, pc, label, stamp, file, returned, before>>

Labels == (1 .. MaxRuns) \X (1 .. MaxSeq)
NoLabel == <<1, 1>>     \* the label of a writer outside Record means nothing
Chunks == [label : Labels, part : {"head", "tail"}]
PCs == {"idle", "clock", "lock", "write", "torn"}

TypeOK == /\ run \in 1 .. MaxRuns
          /\ seq \in 0 .. MaxSeq
          /\ boot \in 1 .. MaxClock
          /\ owner \in Writers \union {NoWriter}
          /\ pc \in [Writers -> PCs]
          /\ label \in [Writers -> Labels]
          /\ stamp \in [Labels -> 0 .. MaxClock]
          /\ file \in Seq(Chunks)
          /\ returned \in [Labels -> {"none", "nil", "error"}]
          /\ before \in [Labels -> SUBSET Labels]

Init == /\ run = 1
        /\ seq = 0
        /\ boot = 1
        /\ owner = NoWriter
        /\ pc = [w \in Writers |-> "idle"]
        /\ label = [w \in Writers |-> NoLabel]
        /\ stamp = [l \in Labels |-> 0]
        /\ file = <<>>
        /\ returned = [l \in Labels |-> "none"]
        /\ before = [l \in Labels |-> {}]

Goto(w, s) == pc' = [pc EXCEPT ![w] = s]
Emit(w, p) == file' = Append(file, [label |-> label[w], part |-> p])
Returns(w, r) == /\ Goto(w, "idle")
                 /\ owner' = NoWriter
                 /\ label' = [label EXCEPT ![w] = NoLabel]
                 /\ returned' = [returned EXCEPT ![label[w]] = r]
Finished == {l \in Labels : l[1] = run /\ returned[l] = "nil"}

\* FAULT: the counter is loaded and stored instead of added to: a store is lost.
NextLabelLostUpdate(w) ==
  /\ pc[w] = "idle"
  /\ seq < MaxSeq
  /\ seq' \in {seq, seq + 1}
  /\ label' = [label EXCEPT ![w] = <<run, seq + 1>>]
  /\ before' = [before EXCEPT ![<<run, seq + 1>>] = Finished]
  /\ Goto(w, "clock")
  /\ UNCHANGED <<run, boot, owner, stamp, file, returned>>

\* nextLabel adds to the counter.
NextLabel(w) ==
  /\ pc[w] = "idle"
  /\ seq < MaxSeq
  /\ seq' = seq + 1
  /\ label' = [label EXCEPT ![w] = <<run, seq'>>]
  /\ before' = [before EXCEPT ![<<run, seq'>>] = Finished]
  /\ Goto(w, "clock")
  /\ UNCHANGED <<run, boot, owner, stamp, file, returned>>

\* FAULT: the time is formatted without fractions of its unit.
ReadClockCoarse(w) ==
  /\ pc[w] = "clock"
  /\ \E t \in boot .. MaxClock : stamp' = [stamp EXCEPT ![label[w]] = t - (t % 2)]
  /\ Goto(w, "lock")
  /\ UNCHANGED <<run, seq, boot, owner, label, file, returned, before>>

\* FAULT: the line is queued, and Record returns nil before it is written.
ReadClockQueued(w) ==
  /\ pc[w] = "clock"
  /\ \E t \in boot .. MaxClock : stamp' = [stamp EXCEPT ![label[w]] = t]
  /\ returned' = [returned EXCEPT ![label[w]] = "nil"]
  /\ Goto(w, "lock")
  /\ UNCHANGED <<run, seq, boot, owner, label, file, before>>

\* nextLabel reads the clock; then the marshalling.  All of it is outside the lock.
ReadClock(w) ==
  /\ pc[w] = "clock"
  /\ \E t \in boot .. MaxClock : stamp' = [stamp EXCEPT ![label[w]] = t]
  /\ Goto(w, "lock")
  /\ UNCHANGED <<run, seq, boot, owner, label, file, returned, before>>

\* FAULT: the lock is not taken.
LockNone(w) == /\ pc[w] = "lock"
               /\ owner' = w
               /\ Goto(w, "write")
               /\ UNCHANGED <<run, seq, boot, label, stamp, file, returned, before>>

Lock(w) == /\ pc[w] = "lock"
           /\ owner = NoWriter
           /\ owner' = w
           /\ Goto(w, "write")
           /\ UNCHANGED <<run, seq, boot, label, stamp, file, returned, before>>

WriteHead(w) == /\ pc[w] = "write"
                /\ Emit(w, "head")
                /\ Goto(w, "torn")
                /\ UNCHANGED <<run, seq, boot, owner, label, stamp, returned, before>>

\* The rest of the line; the deferred unlock; Record returns nil.
WriteTail(w) == /\ pc[w] = "torn"
                /\ Emit(w, "tail")
                /\ Returns(w, "nil")
                /\ UNCHANGED <<run, seq, boot, stamp, before>>

\* FAULT: the unlock is not deferred and the error path forgets it.
WriteErrorLocked(w) == /\ pc[w] \in {"write", "torn"}
                       /\ Goto(w, "idle")
                       /\ returned' = [returned EXCEPT ![label[w]] = "error"]
                       /\ UNCHANGED <<run, seq, boot, owner, label, stamp, file, before>>

\* The disk is full or the pipe is broken, before the first byte or after some.
WriteError(w) == /\ pc[w] \in {"write", "torn"}
                 /\ Returns(w, "error")
                 /\ UNCHANGED <<run, seq, boot, stamp, file, before>>

\* The process dies and is started again; openAudit appends to the same file.
Restart == /\ run < MaxRuns
           /\ run' = run + 1
           /\ seq' = 0
           /\ \E t \in 1 .. MaxClock : (\A l \in Labels : stamp[l] < t) /\ boot' = t
           /\ owner' = NoWriter
           /\ pc' = [w \in Writers |-> "idle"]
           /\ label' = [w \in Writers |-> NoLabel]
           /\ UNCHANGED <<stamp, file, returned, before>>

Record(w) == \/ NextLabel(w) \/ ReadClock(w) \/ Lock(w)
             \/ WriteHead(w) \/ WriteTail(w) \/ WriteError(w)
Next == Restart \/ \E w \in Writers : Record(w)
Spec == Init /\ [][Next]_vars

\* A write ends one way or the other, and Go's mutex starves nobody.
Fairness == \A w \in Writers :
  SF_vars(Lock(w)) /\ WF_vars(WriteHead(w) \/ WriteTail(w) \/ WriteError(w))
FairSpec == Spec /\ Fairness

-----------------------------------------------------------------------------
HeadAt(l) == {i \in DOMAIN file : file[i] = [label |-> l, part |-> "head"]}
TailAt(l) == {i \in DOMAIN file : file[i] = [label |-> l, part |-> "tail"]}

\* What is written of a label.
Text(l) == <<l[2], stamp[l]>>

(* No two lines of the file have the same label, in whichever process they    *)
(* were written: the counter tells those of a process apart, whatever its     *)
(* clock does, and the clock those of two processes.                          *)
UniqueLabels == \A k, l \in Labels : \A i \in HeadAt(k), j \in HeadAt(l) :
                  Text(k) = Text(l) => i = j

\* The line of k has been given up: its Record failed, or died before the one of l.
GivenUp(k, l) == returned[k] = "error" \/ k[1] < l[1]

(* A Record that returned nil has its bytes in the file, complete and in one  *)
(* piece: nobody wrote between them.  And a line continues a fragment only    *)
(* when that is what is left of a Record that returned an error, or died with *)
(* an earlier process.                                                        *)
AckedInOnePiece ==
  /\ \A l \in Labels : returned[l] = "nil" => \E i \in HeadAt(l) : i + 1 \in TailAt(l)
  /\ \A k, l \in Labels : \A i \in HeadAt(k) : i + 1 \in HeadAt(l) => GivenUp(k, l)

(* Lines and labels disagree on the order of two records only if the two      *)
(* Records overlapped: whoever had returned before the label of another was   *)
(* taken has its line before it.                                              *)
RealTimeOrder == \A k, l \in Labels : k \in before[l] =>
  \A i \in TailAt(k), j \in HeadAt(l) : i < j

(* Record returns, with or without an error, however many others write.       *)
RecordReturns == \A w \in Writers : (pc[w] = "lock") ~> (pc[w] = "idle")
=============================================================================
