------------------------- MODULE ObservabilityProofs -------------------------
(* What the sanitizer's goroutines leave behind for an operator, the audit    *)
(* log and the metrics, for any number of goroutines, of records, of restarts *)
(* and of scrapes.  Audit: a label is used once, a Record that returned nil   *)
(* has its line in the file in one piece, and the lines of Records that did   *)
(* not overlap are in their order.  Metrics: the breakdown of the blocked     *)
(* items never disagrees with their total by more than the blocks in progress.*)
EXTENDS Audit, Metrics, Lemmas, SequenceTheorems

\* The lock is held exactly by the one that is writing.
LockInv == \A w \in Writers : pc[w] \in {"write", "torn"} <=> owner = w

\* A Record in progress has a label of this run that the counter has passed.
LabelInv == \A w \in Writers : pc[w] # "idle" =>
              /\ label[w] \in Labels /\ label[w][1] = run /\ label[w][2] <= seq
              /\ returned[label[w]] = "none"

OwnLabels == \A v, w \in Writers :
               pc[v] # "idle" /\ pc[w] # "idle" /\ label[v] = label[w] => v = w

\* Labels that have not been given out yet left no trace.
Fresh(l) == l[1] > run \/ (l[1] = run /\ l[2] > seq)
FreshInv == \A l \in Labels : Fresh(l) =>
              returned[l] = "none" /\ \A i \in DOMAIN file : file[i].label # l

\* How far the line of a Record in progress has come.
LineInv == \A w \in Writers :
             /\ pc[w] \in {"clock", "lock", "write"} => \A i \in DOMAIN file : file[i].label # label[w]
             /\ pc[w] = "torn" =>
                  /\ Len(file) \in DOMAIN file
                  /\ file[Len(file)] = [label |-> label[w], part |-> "head"]
                  /\ \A i \in DOMAIN file : file[i].label = label[w] => i = Len(file)

OneHead == \A l \in Labels : \A i, j \in HeadAt(l) : i = j
BeforeInv == \A k, l \in Labels : k \in before[l] => returned[k] = "nil"

\* The processes read the clock one after the other: those that have ended before this
\* one started, and those that have not started not at all.
ClockInv == /\ \A l \in Labels : l[1] > run => stamp[l] = 0
            /\ \A l \in Labels : l[1] = run /\ stamp[l] # 0 => stamp[l] >= boot
            /\ \A l \in Labels : l[1] < run => stamp[l] < boot
            /\ \A k, l \in Labels : k[1] < l[1] /\ stamp[l] # 0 => stamp[k] < stamp[l]

\* What is in the file or about to be has a time.
StampInv == /\ \A w \in Writers : pc[w] \in {"lock", "write", "torn"} => stamp[label[w]] # 0
            /\ \A i \in DOMAIN file : stamp[file[i].label] # 0

\* A fragment of this process at the end of the file is being completed or given up.
EndInv == \A l \in Labels : Len(file) \in HeadAt(l) /\ l[1] = run =>
            returned[l] = "error" \/ \E w \in Writers : pc[w] = "torn" /\ label[w] = l

\* The two parts of AckedInOnePiece.
Whole == \A l \in Labels : returned[l] = "nil" => \E i \in HeadAt(l) : i + 1 \in TailAt(l)
Continued == \A k, l \in Labels : \A i \in HeadAt(k) : i + 1 \in HeadAt(l) => GivenUp(k, l)

IInv == /\ TypeOK /\ LockInv /\ LabelInv /\ OwnLabels /\ FreshInv /\ LineInv
        /\ OneHead /\ Whole /\ BeforeInv /\ RealTimeOrder
        /\ ClockInv /\ StampInv /\ EndInv /\ Continued

LEMMA InitIInv == Init => IInv
<1> SUFFICES ASSUME Init PROVE IInv
  OBVIOUS
<1>1. TypeOK
  BY MaxSeqAssumption, MaxRunsAssumption, MaxClockAssumption
  DEF Init, TypeOK, PCs, NoLabel, Labels
<1>2. ClockInv /\ StampInv
  BY DEF Init, ClockInv, StampInv, Labels
<1>3. EndInv /\ Continued
  BY DEF Init, EndInv, Continued, HeadAt
<1> QED BY <1>1, <1>2, <1>3, WritersAssumption DEF Init, IInv, LockInv, LabelInv, OwnLabels,
      FreshInv, LineInv, OneHead, Whole, BeforeInv, RealTimeOrder, HeadAt, TailAt

(* Where the clock is not read and no process starts, the readings stay.      *)
LEMMA ClockStays == ASSUME ClockInv, UNCHANGED <<run, boot, stamp>> PROVE ClockInv'
BY DEF ClockInv

(* Taking a label: it is the first one that is fresh.                         *)
LEMMA NextLabelIInv == ASSUME IInv, NEW w \in Writers, NextLabel(w) PROVE IInv'
<1> DEFINE new == <<run, seq + 1>>
<1>0. /\ TypeOK /\ pc[w] = "idle" /\ seq < MaxSeq /\ seq' = seq + 1
      /\ label' = [label EXCEPT ![w] = new]
      /\ before' = [before EXCEPT ![new] = Finished]
      /\ pc' = [pc EXCEPT ![w] = "clock"]
      /\ UNCHANGED <<run, boot, owner, stamp, file, returned>>
  BY DEF NextLabel, Goto, IInv
<1>1. new \in Labels /\ new[1] = run /\ new[2] = seq + 1 /\ seq \in Nat /\ run \in Nat
  BY <1>0, MaxSeqAssumption, MaxRunsAssumption DEF TypeOK, Labels
<1>2. returned[new] = "none" /\ \A i \in DOMAIN file : file[i].label # new
  BY <1>0, <1>1 DEF IInv, FreshInv, Fresh
<1> HIDE DEF new
<1>3. TypeOK'
  <2>1. Finished \in SUBSET Labels
    BY DEF Finished
  <2>2. seq' \in 0 .. MaxSeq
    BY <1>0, <1>1, MaxSeqAssumption
  <2> QED BY <1>0, <1>1, <2>1, <2>2 DEF TypeOK, PCs
<1>4. \A v \in Writers \ {w} : pc'[v] = pc[v] /\ label'[v] = label[v]
  BY <1>0 DEF TypeOK
<1>5. pc'[w] = "clock" /\ label'[w] = new
  BY <1>0 DEF TypeOK
<1>6. LockInv'
  BY <1>0, <1>4, <1>5 DEF IInv, LockInv
<1>7. \A v \in Writers \ {w} : pc[v] # "idle" =>
        /\ label[v] \in Labels /\ label[v][1] = run /\ label[v][2] <= seq
        /\ returned[label[v]] = "none"
  BY DEF IInv, LabelInv
<1>8. LabelInv'
  <2>1. ASSUME NEW v \in Writers, pc'[v] # "idle", v # w
        PROVE  label'[v] \in Labels /\ label'[v][1] = run /\ label'[v][2] <= seq + 1
               /\ returned[label'[v]] = "none"
    <3>1. label[v] \in Labels /\ label[v][1] = run /\ label[v][2] <= seq
          /\ returned[label[v]] = "none" /\ label[v][2] \in Nat
      BY <1>4, <1>7, <2>1 DEF Labels
    <3> QED BY <1>1, <1>4, <2>1, <3>1
  <2> QED BY <1>0, <1>1, <1>2, <1>5, <2>1 DEF LabelInv
<1>9. OwnLabels'
  <2>1. \A v \in Writers \ {w} : pc[v] # "idle" => label[v] # new
    BY <1>1, <1>7
  <2> QED BY <1>4, <1>5, <2>1 DEF IInv, OwnLabels
<1>10. FreshInv'
  <2>1. \A l \in Labels : Fresh(l)' => Fresh(l)
    BY <1>0, <1>1 DEF Fresh, Labels
  <2> QED BY <1>0, <2>1 DEF IInv, FreshInv
<1>11. LineInv'
  BY <1>0, <1>2, <1>4, <1>5 DEF IInv, LineInv
<1>12. OneHead' /\ Whole'
  BY <1>0 DEF IInv, OneHead, Whole, HeadAt, TailAt
<1>13. \A l \in Labels : before'[l] = IF l = new THEN Finished ELSE before[l]
  BY <1>0 DEF TypeOK
<1>14. BeforeInv'
  BY <1>0, <1>13 DEF IInv, BeforeInv, Finished
<1>15. RealTimeOrder'
  BY <1>0, <1>2, <1>13 DEF IInv, RealTimeOrder, HeadAt, TailAt
<1>16. ClockInv' /\ StampInv'
  <2>1. ClockInv'
    BY <1>0, ClockStays DEF IInv
  <2> QED BY <1>0, <1>4, <1>5, <2>1 DEF IInv, StampInv
<1>17. EndInv' /\ Continued'
  BY <1>0, <1>4 DEF IInv, EndInv, Continued, GivenUp, HeadAt
<1> QED BY <1>3, <1>6, <1>8, <1>9, <1>10, <1>11, <1>12, <1>14, <1>15, <1>16, <1>17 DEF IInv

(* Reading the clock: not before this process started, so after whatever the  *)
(* processes before it have read.                                             *)
LEMMA ReadClockIInv == ASSUME IInv, NEW w \in Writers, ReadClock(w) PROVE IInv'
<1> DEFINE own == label[w]
<1>0. /\ TypeOK /\ pc[w] = "clock"
      /\ pc' = [pc EXCEPT ![w] = "lock"]
      /\ UNCHANGED <<run, seq, boot, owner, label, file, returned, before>>
  BY DEF ReadClock, Goto, IInv
<1>1. pc'[w] = "lock" /\ \A v \in Writers \ {w} : pc'[v] = pc[v]
  BY <1>0 DEF TypeOK
<1>2. own \in Labels /\ own[1] = run
  BY <1>0 DEF IInv, LabelInv
<1>3. PICK t \in boot .. MaxClock : stamp' = [stamp EXCEPT ![own] = t]
  BY DEF ReadClock
<1>4. /\ boot \in 1 .. MaxClock /\ run \in Nat
      /\ \A l \in Labels : stamp[l] \in 0 .. MaxClock /\ l[1] \in Nat
  BY <1>0 DEF TypeOK, Labels
<1>5. t \in 1 .. MaxClock /\ t >= boot
  BY <1>3, <1>4, MaxClockAssumption
<1>6. \A l \in Labels : stamp'[l] = IF l = own THEN t ELSE stamp[l]
  BY <1>0, <1>3 DEF TypeOK
<1> HIDE DEF own
<1>7. TypeOK'
  <2>1. stamp' \in [Labels -> 0 .. MaxClock]
    BY <1>0, <1>2, <1>3, <1>5, MaxClockAssumption DEF TypeOK
  <2> QED BY <1>0, <2>1 DEF TypeOK, PCs
<1>8. LockInv' /\ LabelInv' /\ OwnLabels' /\ LineInv'
  BY <1>0, <1>1 DEF IInv, LockInv, LabelInv, OwnLabels, LineInv
<1>9. FreshInv' /\ OneHead' /\ Whole' /\ BeforeInv' /\ RealTimeOrder'
  BY <1>0 DEF IInv, FreshInv, Fresh, OneHead, Whole, BeforeInv, RealTimeOrder, HeadAt, TailAt
<1>10. ClockInv'
  <2>1. /\ \A l \in Labels : l[1] > run => stamp[l] = 0
        /\ \A l \in Labels : l[1] = run /\ stamp[l] # 0 => stamp[l] >= boot
        /\ \A l \in Labels : l[1] < run => stamp[l] < boot
        /\ \A k, l \in Labels : k[1] < l[1] /\ stamp[l] # 0 => stamp[k] < stamp[l]
    BY DEF IInv, ClockInv
  <2>2. \A k, l \in Labels : k[1] < l[1] /\ stamp'[l] # 0 => stamp'[k] < stamp'[l]
    <3> SUFFICES ASSUME NEW k \in Labels, NEW l \in Labels, k[1] < l[1], stamp'[l] # 0
                 PROVE  stamp'[k] < stamp'[l]
      OBVIOUS
    <3>1. CASE l = own
      <4>1. k[1] < run /\ k # own
        BY <1>2, <1>4, <3>1
      <4> QED BY <1>4, <1>5, <1>6, <2>1, <3>1, <4>1
    <3>2. CASE k = own
      <4>1. l[1] > run /\ l # own
        BY <1>2, <1>4, <3>2
      <4> QED BY <1>6, <2>1, <4>1
    <3> QED BY <1>6, <2>1, <3>1, <3>2
  <2>3. /\ \A l \in Labels : l[1] > run => stamp'[l] = 0
        /\ \A l \in Labels : l[1] < run => stamp'[l] < boot
    BY <1>2, <1>4, <1>6, <2>1
  <2>4. \A l \in Labels : l[1] = run /\ stamp'[l] # 0 => stamp'[l] >= boot
    BY <1>5, <1>6, <2>1
  <2> QED BY <1>0, <2>2, <2>3, <2>4 DEF ClockInv
<1>11. StampInv'
  <2>1. \A l \in Labels : stamp[l] # 0 => stamp'[l] # 0
    BY <1>5, <1>6
  <2>2. /\ \A v \in Writers : label[v] \in Labels
        /\ \A i \in DOMAIN file : file[i].label \in Labels
    <3>1. \A i \in DOMAIN file : file[i] \in Chunks
      BY <1>0 DEF TypeOK
    <3> QED BY <1>0, <3>1 DEF TypeOK, Chunks
  <2>3. stamp'[label[w]] # 0
    BY <1>2, <1>5, <1>6 DEF own
  <2> QED BY <1>0, <1>1, <2>1, <2>2, <2>3 DEF IInv, StampInv
<1>12. EndInv' /\ Continued'
  BY <1>0, <1>1 DEF IInv, EndInv, Continued, GivenUp, HeadAt
<1> QED BY <1>7, <1>8, <1>9, <1>10, <1>11, <1>12 DEF IInv

LEMMA LockIInv == ASSUME IInv, NEW w \in Writers, Lock(w) PROVE IInv'
<1>0. /\ TypeOK /\ pc[w] = "lock" /\ owner = NoWriter /\ owner' = w
      /\ pc' = [pc EXCEPT ![w] = "write"]
      /\ UNCHANGED <<run, seq, boot, label, stamp, file, returned, before>>
  BY DEF Lock, Goto, IInv
<1>1. pc'[w] = "write" /\ \A v \in Writers \ {w} : pc'[v] = pc[v]
  BY <1>0 DEF TypeOK
<1>2. TypeOK'
  BY <1>0 DEF TypeOK, PCs
<1>3. LockInv'
  BY <1>0, <1>1, WritersAssumption DEF IInv, LockInv
<1>4. LabelInv' /\ OwnLabels' /\ LineInv'
  BY <1>0, <1>1 DEF IInv, LabelInv, OwnLabels, LineInv
<1>5. ClockInv' /\ StampInv'
  <2>1. ClockInv'
    BY <1>0, ClockStays DEF IInv
  <2> QED BY <1>0, <1>1, <2>1 DEF IInv, StampInv
<1>6. EndInv' /\ Continued'
  BY <1>0, <1>1 DEF IInv, EndInv, Continued, GivenUp, HeadAt
<1> QED BY <1>0, <1>2, <1>3, <1>4, <1>5, <1>6 DEF IInv, FreshInv, Fresh, OneHead, Whole,
      BeforeInv, RealTimeOrder, HeadAt, TailAt

(* What is appended to the file comes behind everything that is in it.        *)
LEMMA EmitShape ==
  ASSUME TypeOK, NEW w \in Writers, NEW p \in {"head", "tail"}, Emit(w, p)
  PROVE  /\ DOMAIN file' = DOMAIN file \union {Len(file) + 1}
         /\ Len(file') = Len(file) + 1 /\ Len(file) + 1 \in Nat
         /\ file' \in Seq(Chunks)
         /\ file'[Len(file) + 1] = [label |-> label[w], part |-> p]
         /\ \A i \in DOMAIN file : file'[i] = file[i] /\ i \in Nat /\ i < Len(file) + 1
<1>1. file \in Seq(Chunks) /\ [label |-> label[w], part |-> p] \in Chunks
  BY DEF TypeOK, Chunks
<1> QED BY <1>1 DEF Emit

LEMMA WriteHeadIInv == ASSUME IInv, NEW w \in Writers, WriteHead(w) PROVE IInv'
<1> DEFINE end == Len(file) + 1
<1>0. /\ TypeOK /\ pc[w] = "write" /\ Emit(w, "head")
      /\ pc' = [pc EXCEPT ![w] = "torn"]
      /\ UNCHANGED <<run, seq, boot, owner, label, stamp, returned, before>>
  BY DEF WriteHead, Goto, IInv
<1>1. pc'[w] = "torn" /\ \A v \in Writers \ {w} : pc'[v] = pc[v]
  BY <1>0 DEF TypeOK
<1>2. /\ DOMAIN file' = DOMAIN file \union {end} /\ Len(file') = end /\ end \in Nat
      /\ file' \in Seq(Chunks)
      /\ file'[end] = [label |-> label[w], part |-> "head"]
      /\ \A i \in DOMAIN file : file'[i] = file[i] /\ i \in Nat /\ i < end
  <2>1. "head" \in {"head", "tail"} /\ "tail" \in {"head", "tail"}
    OBVIOUS
  <2> QED BY <1>0, <2>1, EmitShape, Zenon
<1>3. TypeOK'
  BY <1>0, <1>2 DEF TypeOK, PCs
<1> HIDE DEF end
<1>4. \A i \in DOMAIN file : file[i].label # label[w]
  BY <1>0 DEF IInv, LineInv
<1>5. label[w] \in Labels /\ label[w][1] = run /\ label[w][2] <= seq
      /\ returned[label[w]] = "none"
  BY <1>0 DEF IInv, LabelInv
<1>6. LockInv' /\ LabelInv' /\ OwnLabels'
  BY <1>0, <1>1 DEF IInv, LockInv, LabelInv, OwnLabels
<1>7. FreshInv'
  <2>1. ~Fresh(label[w])
    BY <1>0, <1>5 DEF Fresh, TypeOK, Labels
  <2> QED BY <1>0, <1>2, <2>1 DEF IInv, FreshInv, Fresh
\* Nobody else is in the middle of a line, and the label is nobody else's.
<1>8. LineInv'
  <2>1. ASSUME NEW v \in Writers, v # w
        PROVE  /\ pc'[v] # "torn"
               /\ pc'[v] \in {"clock", "lock", "write"} => \A i \in DOMAIN file' : file'[i].label # label[v]
    <3>1. pc[v] \notin {"write", "torn"}
      BY <1>0, <2>1 DEF IInv, LockInv
    <3>2. pc[v] \in {"clock", "lock"} =>
            label[v] # label[w] /\ \A i \in DOMAIN file : file[i].label # label[v]
      BY <1>0, <2>1 DEF IInv, OwnLabels, LineInv
    <3> QED BY <1>1, <1>2, <2>1, <3>1, <3>2
  <2>2. \A i \in DOMAIN file' : file'[i].label = label[w] => i = end
    BY <1>2, <1>4
  <2> QED BY <1>0, <1>1, <1>2, <2>1, <2>2 DEF LineInv
<1>9. \A l \in Labels : /\ HeadAt(l)' = IF l = label[w] THEN {end} ELSE HeadAt(l)
                        /\ TailAt(l)' = TailAt(l)
  BY <1>2, <1>4 DEF HeadAt, TailAt
<1>10. OneHead'
  BY <1>9 DEF IInv, OneHead
<1>11. Whole'
  BY <1>0, <1>5, <1>9 DEF IInv, Whole
<1>12. BeforeInv'
  BY <1>0 DEF IInv, BeforeInv
<1>13. RealTimeOrder'
  <2>1. \A k \in Labels : \A i \in TailAt(k) : i < end
    BY <1>2 DEF TailAt
  <2> QED BY <1>0, <1>9, <2>1 DEF IInv, RealTimeOrder
<1>14. ClockInv' /\ StampInv'
  <2>1. ClockInv'
    BY <1>0, ClockStays DEF IInv
  <2>2. stamp[label[w]] # 0 /\ file'[end].label = label[w]
    BY <1>0, <1>2 DEF IInv, StampInv
  <2>3. \A v \in Writers : pc'[v] \in {"lock", "write", "torn"} => stamp[label[v]] # 0
    BY <1>1, <2>2 DEF IInv, StampInv
  <2>4. \A i \in DOMAIN file' : stamp[file'[i].label] # 0
    BY <1>2, <2>2 DEF IInv, StampInv
  <2> QED BY <1>0, <2>1, <2>3, <2>4 DEF StampInv
<1>15. EndInv'
  <2>1. ASSUME NEW l \in Labels, end \in HeadAt(l)' PROVE pc'[w] = "torn" /\ label'[w] = l
    BY <1>0, <1>1, <1>2, <2>1 DEF HeadAt
  <2> QED BY <1>2, <2>1 DEF EndInv
\* Whoever left the fragment has given it up: nobody else is in the middle of a line.
<1>16. Continued'
  <2> SUFFICES ASSUME NEW k \in Labels, NEW l \in Labels, NEW i \in HeadAt(k)',
                      i + 1 \in HeadAt(l)'
               PROVE  GivenUp(k, l)
    BY <1>0 DEF Continued, GivenUp
  <2>1. i \in DOMAIN file' /\ i + 1 \in DOMAIN file' /\ i + 1 # i
    BY <1>2 DEF HeadAt
  <2>2. i \in HeadAt(k)
    <3>1. i # end /\ i \in DOMAIN file
      BY <1>2, <2>1
    <3> QED BY <1>2, <3>1 DEF HeadAt
  <2>3. CASE i + 1 # end
    <3>1. i + 1 \in HeadAt(l)
      BY <1>2, <2>1, <2>3 DEF HeadAt
    <3> QED BY <2>2, <3>1 DEF IInv, Continued
  <2>4. CASE i + 1 = end
    <3>1. l = label[w] /\ l[1] = run
      BY <1>2, <1>5, <2>1, <2>4 DEF HeadAt
    <3>2. i = Len(file) /\ file[i].label = k
      BY <1>2, <2>2, <2>4 DEF HeadAt, end
    <3>3. \A v \in Writers : pc[v] # "torn"
      BY <1>0 DEF IInv, LockInv
    <3>4. k[1] = run => returned[k] = "error"
      BY <2>2, <3>2, <3>3 DEF IInv, EndInv
    <3>5. k[1] <= run
      <4>1. ~Fresh(k) /\ k[1] \in Nat /\ run \in Nat
        BY <1>0, <2>2, <3>2 DEF IInv, FreshInv, HeadAt, Labels, TypeOK
      <4> QED BY <4>1 DEF Fresh
    <3> QED BY <1>0, <3>1, <3>4, <3>5 DEF GivenUp, Labels, TypeOK
  <2> QED BY <2>3, <2>4
<1> QED BY <1>3, <1>6, <1>7, <1>8, <1>10, <1>11, <1>12, <1>13, <1>14, <1>15, <1>16 DEF IInv

(* A Record that returns gives its lock and its label back.                   *)
LEMMA ReturnsInv ==
  ASSUME IInv, NEW w \in Writers, pc[w] \in {"write", "torn"}, NEW r \in {"nil", "error"},
         Returns(w, r), UNCHANGED <<run, seq, boot, stamp, before>>
  PROVE  /\ pc' \in [Writers -> PCs] /\ label' \in [Writers -> Labels]
         /\ owner' \in Writers \union {NoWriter}
         /\ returned' \in [Labels -> {"none", "nil", "error"}]
         /\ label[w] \in Labels /\ returned[label[w]] = "none"
         /\ \A l \in Labels : returned'[l] = IF l = label[w] THEN r ELSE returned[l]
         /\ pc'[w] = "idle"
         /\ \A v \in Writers \ {w} : /\ pc'[v] = pc[v] /\ label'[v] = label[v]
                                     /\ pc'[v] \in {"idle", "clock", "lock"}
         /\ label[w][1] = run /\ label[w][2] <= seq
         /\ LockInv' /\ LabelInv' /\ OwnLabels' /\ BeforeInv' /\ ClockInv'
         /\ \A v \in Writers : pc'[v] \in {"lock", "write", "torn"} => stamp[label'[v]] # 0
<1>0. /\ pc' = [pc EXCEPT ![w] = "idle"] /\ owner' = NoWriter
      /\ label' = [label EXCEPT ![w] = NoLabel]
      /\ returned' = [returned EXCEPT ![label[w]] = r] /\ TypeOK
  BY DEF Returns, Goto, IInv
<1>1. NoLabel \in Labels
  BY MaxSeqAssumption, MaxRunsAssumption DEF NoLabel, Labels
<1>2. label[w] \in Labels /\ returned[label[w]] = "none" /\ label[w][1] = run /\ label[w][2] <= seq
  BY DEF IInv, LabelInv
<1>3. /\ pc' \in [Writers -> PCs] /\ label' \in [Writers -> Labels]
      /\ owner' \in Writers \union {NoWriter}
      /\ returned' \in [Labels -> {"none", "nil", "error"}]
  BY <1>0, <1>1, <1>2 DEF TypeOK, PCs
<1>4. \A l \in Labels : returned'[l] = IF l = label[w] THEN r ELSE returned[l]
  BY <1>0 DEF TypeOK
<1>5. pc'[w] = "idle" /\ \A v \in Writers \ {w} : pc'[v] = pc[v] /\ label'[v] = label[v]
  BY <1>0 DEF TypeOK
<1>6. \A v \in Writers \ {w} : pc[v] \in {"idle", "clock", "lock"}
  BY <1>0 DEF IInv, LockInv, TypeOK, PCs
<1>7. LockInv'
  BY <1>0, <1>5, <1>6, WritersAssumption DEF LockInv
<1>8. LabelInv'
  BY <1>4, <1>5 DEF IInv, LabelInv, OwnLabels
<1>9. OwnLabels'
  BY <1>5 DEF IInv, OwnLabels
<1>10. BeforeInv'
  BY <1>2, <1>4 DEF IInv, BeforeInv
<1>11. ClockInv'
  BY ClockStays DEF IInv
<1>12. \A v \in Writers : pc'[v] \in {"lock", "write", "torn"} => stamp[label'[v]] # 0
  BY <1>5 DEF IInv, StampInv
<1> QED BY <1>2, <1>3, <1>4, <1>5, <1>6, <1>7, <1>8, <1>9, <1>10, <1>11, <1>12

LEMMA WriteTailIInv == ASSUME IInv, NEW w \in Writers, WriteTail(w) PROVE IInv'
<1> DEFINE end == Len(file) + 1
<1>0. /\ TypeOK /\ pc[w] = "torn" /\ Emit(w, "tail") /\ Returns(w, "nil")
      /\ UNCHANGED <<run, seq, boot, stamp, before>>
  BY DEF WriteTail, IInv
<1>1. /\ pc' \in [Writers -> PCs] /\ label' \in [Writers -> Labels]
      /\ owner' \in Writers \union {NoWriter}
      /\ returned' \in [Labels -> {"none", "nil", "error"}]
      /\ label[w] \in Labels /\ returned[label[w]] = "none"
      /\ \A l \in Labels : returned'[l] = IF l = label[w] THEN "nil" ELSE returned[l]
      /\ pc'[w] = "idle"
      /\ \A v \in Writers \ {w} : /\ pc'[v] = pc[v] /\ label'[v] = label[v]
                                  /\ pc'[v] \in {"idle", "clock", "lock"}
      /\ label[w][1] = run /\ label[w][2] <= seq
      /\ LockInv' /\ LabelInv' /\ OwnLabels' /\ BeforeInv' /\ ClockInv'
      /\ \A v \in Writers : pc'[v] \in {"lock", "write", "torn"} => stamp[label'[v]] # 0
  BY <1>0, ReturnsInv
<1>2. /\ DOMAIN file' = DOMAIN file \union {end} /\ Len(file') = end /\ end \in Nat
      /\ file' \in Seq(Chunks)
      /\ file'[end] = [label |-> label[w], part |-> "tail"]
      /\ \A i \in DOMAIN file : file'[i] = file[i] /\ i \in Nat /\ i < end
  <2>1. "head" \in {"head", "tail"} /\ "tail" \in {"head", "tail"}
    OBVIOUS
  <2> QED BY <1>0, <2>1, EmitShape, Zenon
<1>3. TypeOK'
  BY <1>0, <1>1, <1>2 DEF TypeOK
\* The head is the last thing in the file: the lock has kept it so.
<1>4. /\ Len(file) \in DOMAIN file /\ Len(file) + 1 = end
      /\ file[Len(file)] = [label |-> label[w], part |-> "head"]
      /\ \A i \in DOMAIN file : file[i].label = label[w] => i = Len(file)
  BY <1>0 DEF IInv, LineInv
<1> HIDE DEF end
<1>5. FreshInv'
  <2>1. ~Fresh(label[w])
    BY <1>0, <1>1 DEF Fresh, TypeOK, Labels
  <2> QED BY <1>0, <1>1, <1>2, <2>1 DEF IInv, FreshInv, Fresh
<1>6. LineInv'
  <2>1. ASSUME NEW v \in Writers, v # w, pc'[v] \in {"clock", "lock"}
        PROVE  \A i \in DOMAIN file' : file'[i].label # label'[v]
    <3>0. pc[v] \in {"clock", "lock"} /\ pc[v] # "idle" /\ pc[w] # "idle"
      BY <1>0, <1>1, <2>1
    <3>1. label[v] # label[w] /\ \A i \in DOMAIN file : file[i].label # label[v]
      BY <2>1, <3>0 DEF IInv, OwnLabels, LineInv
    <3> QED BY <1>1, <1>2, <2>1, <3>1
  <2> QED BY <1>1, <2>1 DEF LineInv
<1>7. \A l \in Labels : /\ HeadAt(l)' = HeadAt(l)
                        /\ TailAt(l)' = IF l = label[w] THEN {end} ELSE TailAt(l)
  <2>1. \A i \in DOMAIN file : file[i] # [label |-> label[w], part |-> "tail"]
    BY <1>4
  <2> QED BY <1>2, <2>1 DEF HeadAt, TailAt
<1>8. OneHead'
  BY <1>7 DEF IInv, OneHead
<1>9. Whole'
  <2>1. Len(file) \in HeadAt(label[w]) /\ Len(file) + 1 = end
    BY <1>4 DEF HeadAt
  <2>0. PICK own \in Labels : own = label[w]
    BY <1>1
  <2>2. Len(file) \in HeadAt(own)' /\ Len(file) + 1 \in TailAt(own)'
    BY <1>7, <2>0, <2>1
  <2>3. ASSUME NEW l \in Labels, l # label[w], returned'[l] = "nil"
        PROVE  \E i \in HeadAt(l)' : i + 1 \in TailAt(l)'
    BY <1>1, <1>7, <2>3 DEF IInv, Whole
  <2>4. ASSUME NEW l \in Labels, returned'[l] = "nil"
        PROVE  \E i \in HeadAt(l)' : i + 1 \in TailAt(l)'
    BY <2>0, <2>2, <2>3, <2>4
  <2> QED BY <2>4 DEF Whole
\* Nobody has waited for this Record to return, so its tail comes before nothing.
<1>10. RealTimeOrder'
  <2>1. \A l \in Labels : label[w] \notin before[l]
    BY <1>1 DEF IInv, BeforeInv
  <2> QED BY <1>0, <1>7, <2>1 DEF IInv, RealTimeOrder
<1>11. StampInv'
  <2>1. stamp[label[w]] # 0
    BY <1>0 DEF IInv, StampInv
  <2>2. \A i \in DOMAIN file' : stamp[file'[i].label] # 0
    BY <1>2, <2>1 DEF IInv, StampInv
  <2> QED BY <1>0, <1>1, <2>2 DEF StampInv
<1>12. EndInv'
  <2>1. \A l \in Labels : end \notin HeadAt(l)'
    BY <1>2 DEF HeadAt
  <2> QED BY <1>2, <2>1 DEF EndInv
<1>13. Continued'
  <2>1. \A k \in Labels : returned[k] = "error" => returned'[k] = "error"
    BY <1>1
  <2> QED BY <1>7, <2>1 DEF IInv, Continued, GivenUp
<1> QED BY <1>1, <1>3, <1>5, <1>6, <1>8, <1>9, <1>10, <1>11, <1>12, <1>13 DEF IInv

LEMMA WriteErrorIInv == ASSUME IInv, NEW w \in Writers, WriteError(w) PROVE IInv'
<1>0. /\ TypeOK /\ pc[w] \in {"write", "torn"} /\ Returns(w, "error")
      /\ UNCHANGED <<run, seq, boot, stamp, file, before>>
  BY DEF WriteError, IInv
<1>1. /\ pc' \in [Writers -> PCs] /\ label' \in [Writers -> Labels]
      /\ owner' \in Writers \union {NoWriter}
      /\ returned' \in [Labels -> {"none", "nil", "error"}]
      /\ label[w] \in Labels /\ returned[label[w]] = "none"
      /\ \A l \in Labels : returned'[l] = IF l = label[w] THEN "error" ELSE returned[l]
      /\ pc'[w] = "idle"
      /\ \A v \in Writers \ {w} : /\ pc'[v] = pc[v] /\ label'[v] = label[v]
                                  /\ pc'[v] \in {"idle", "clock", "lock"}
      /\ label[w][1] = run /\ label[w][2] <= seq
      /\ LockInv' /\ LabelInv' /\ OwnLabels' /\ BeforeInv' /\ ClockInv'
      /\ \A v \in Writers : pc'[v] \in {"lock", "write", "torn"} => stamp[label'[v]] # 0
  BY <1>0, ReturnsInv
<1>2. TypeOK'
  BY <1>0, <1>1 DEF TypeOK
<1>3. FreshInv'
  <2>1. ~Fresh(label[w])
    BY <1>0, <1>1 DEF Fresh, TypeOK, Labels
  <2> QED BY <1>0, <1>1, <2>1 DEF IInv, FreshInv, Fresh
<1>4. LineInv'
  BY <1>0, <1>1 DEF IInv, LineInv
<1>5. OneHead' /\ Whole' /\ RealTimeOrder'
  BY <1>0, <1>1 DEF IInv, OneHead, Whole, RealTimeOrder, HeadAt, TailAt
<1>6. StampInv'
  BY <1>0, <1>1 DEF IInv, StampInv
<1>7. EndInv' /\ Continued'
  <2>1. \A k \in Labels : returned[k] = "error" => returned'[k] = "error"
    BY <1>1
  <2>2. Continued'
    BY <1>0, <2>1 DEF IInv, Continued, GivenUp, HeadAt
  <2>3. ASSUME NEW l \in Labels, Len(file) \in HeadAt(l), l[1] = run
        PROVE  returned'[l] = "error" \/ \E v \in Writers : pc'[v] = "torn" /\ label'[v] = l
    <3>1. CASE returned[l] = "error"
      BY <2>1, <3>1
    <3>2. CASE \E v \in Writers : pc[v] = "torn" /\ label[v] = l
      <4>1. PICK v \in Writers : pc[v] = "torn" /\ label[v] = l
        BY <3>2
      <4>2. v = w
        BY <1>1, <4>1
      <4> QED BY <1>1, <4>1, <4>2
    <3> QED BY <2>3, <3>1, <3>2 DEF IInv, EndInv
  <2>4. EndInv'
    BY <1>0, <2>3 DEF EndInv, HeadAt
  <2> QED BY <2>2, <2>4
<1> QED BY <1>1, <1>2, <1>3, <1>4, <1>5, <1>6, <1>7 DEF IInv

(* A new process starts on the file of the old one, with labels of its own.   *)
LEMMA RestartIInv == ASSUME IInv, Restart PROVE IInv'
<1>0. /\ TypeOK /\ run < MaxRuns /\ run' = run + 1 /\ seq' = 0 /\ owner' = NoWriter
      /\ pc' = [v \in Writers |-> "idle"] /\ label' = [v \in Writers |-> NoLabel]
      /\ boot' \in 1 .. MaxClock /\ \A l \in Labels : stamp[l] < boot'
      /\ UNCHANGED <<stamp, file, returned, before>>
  BY DEF Restart, IInv
<1>1. TypeOK'
  <2>1. NoLabel \in Labels
    BY MaxSeqAssumption, MaxRunsAssumption DEF NoLabel, Labels
  <2> QED BY <1>0, <2>1, MaxSeqAssumption, MaxRunsAssumption DEF TypeOK, PCs
<1>2. FreshInv'
  <2>1. \A l \in Labels : Fresh(l)' => Fresh(l)
    BY <1>0 DEF Fresh, Labels, TypeOK
  <2> QED BY <1>0, <2>1 DEF IInv, FreshInv
<1>3. LockInv' /\ LabelInv' /\ OwnLabels' /\ LineInv'
  BY <1>0, WritersAssumption DEF LockInv, LabelInv, OwnLabels, LineInv
<1>4. ClockInv'
  <2>1. run \in Nat /\ \A l \in Labels : l[1] \in Nat /\ stamp[l] \in Nat
    BY <1>0 DEF TypeOK, Labels
  <2>2. /\ \A l \in Labels : l[1] > run => stamp[l] = 0
        /\ \A k, l \in Labels : k[1] < l[1] /\ stamp[l] # 0 => stamp[k] < stamp[l]
    BY DEF IInv, ClockInv
  <2>3. \A l \in Labels : (l[1] > run + 1 => stamp[l] = 0) /\ (l[1] = run + 1 => stamp[l] = 0)
    BY <2>1, <2>2
  <2> QED BY <1>0, <2>2, <2>3 DEF ClockInv
<1>5. StampInv'
  BY <1>0 DEF IInv, StampInv
\* No line of the new process is in the file.
<1>6. EndInv'
  <2>1. \A l \in Labels : l[1] = run + 1 => Fresh(l)
    BY <1>0 DEF Fresh, TypeOK
  <2> QED BY <1>0, <2>1 DEF IInv, FreshInv, EndInv, HeadAt
<1>7. Continued'
  BY <1>0 DEF IInv, Continued, GivenUp, HeadAt
<1> QED BY <1>0, <1>1, <1>2, <1>3, <1>4, <1>5, <1>6, <1>7 DEF IInv, OneHead, Whole, BeforeInv,
      RealTimeOrder, HeadAt, TailAt

LEMMA NextIInv == IInv /\ [Next]_vars => IInv'
<1> SUFFICES ASSUME IInv, [Next]_vars PROVE IInv'
  OBVIOUS
<1>1. CASE UNCHANGED vars
  BY <1>1 DEF vars, IInv, TypeOK, LockInv, LabelInv, OwnLabels, FreshInv, Fresh, LineInv,
      OneHead, Whole, BeforeInv, RealTimeOrder, ClockInv, StampInv, EndInv, Continued, GivenUp,
      HeadAt, TailAt
<1> QED BY <1>1, NextLabelIInv, ReadClockIInv, LockIInv, WriteHeadIInv, WriteTailIInv, WriteErrorIInv,
      RestartIInv DEF Next, Record

(* No two lines of the file have the same label. Of one process they have    *)
(* different numbers, of two processes different times.                       *)
THEOREM AuditUniqueLabels == Spec => []UniqueLabels
<1>1. IInv => UniqueLabels
  <2> SUFFICES ASSUME IInv, NEW k \in Labels, NEW l \in Labels,
                      NEW i \in HeadAt(k), NEW j \in HeadAt(l), Text(k) = Text(l)
               PROVE  i = j
    BY DEF UniqueLabels
  <2>1. stamp[k] # 0 /\ stamp[l] # 0 /\ stamp[k] = stamp[l] /\ k[2] = l[2]
    BY DEF IInv, StampInv, HeadAt, Text
  <2>2. stamp[k] \in Nat /\ k[1] \in Nat /\ l[1] \in Nat
    BY DEF IInv, TypeOK, Labels
  <2>3. ~(k[1] < l[1]) /\ ~(l[1] < k[1])
    BY <2>1, <2>2 DEF IInv, ClockInv
  <2>4. k = l
    BY <2>1, <2>2, <2>3 DEF Labels
  <2> QED BY <2>4 DEF IInv, OneHead
<1> QED BY <1>1, InitIInv, NextIInv, PTL DEF Spec

(* The line of a Record that returned nil is whole, whatever other Records,   *)
(* torn writes and restarts do, and what a line continues is left of a Record *)
(* that failed or of a process that has ended.                                *)
THEOREM AuditAckedInOnePiece == Spec => []AckedInOnePiece
<1>1. IInv => AckedInOnePiece
  BY DEF IInv, Whole, Continued, AckedInOnePiece
<1> QED BY <1>1, InitIInv, NextIInv, PTL DEF Spec

(* The lines of Records that did not overlap are in the order of the Records. *)
THEOREM AuditRealTimeOrder == Spec => []RealTimeOrder
<1>1. IInv => RealTimeOrder
  BY DEF IInv
<1> QED BY <1>1, InitIInv, NextIInv, PTL DEF Spec

-----------------------------------------------------------------------------
(* The metrics.  In memory, the total of blocked items is ahead of the        *)
(* breakdown by the workers between the two additions (MemoryInv).  A scrape  *)
(* loads the total before any reason, and what it has loaded is compared with *)
(* Snapshot, the breakdown it would show if it loaded the rest now: that only *)
(* grows while the scrape runs, and is the breakdown shown when it ends       *)
(* (ScrapeInv).                                                               *)

Entries(s) == [r \in ReasonSet |-> s[r]]

(* The breakdown is a sum of a function, so the lemmas about Summing apply.   *)
LEMMA ReasonsFinite == IsFiniteSet(ReasonSet)
<1>1. IsFiniteSet(DOMAIN Reasons)
  <2>1. DOMAIN Reasons = 1 .. Len(Reasons) /\ Len(Reasons) \in Nat
    BY ReasonsAssumption
  <2> QED BY <2>1, FS_Interval
<1> DEFINE D == DOMAIN Reasons
           F == [j \in D |-> Reasons[j]]
<1>2. ReasonSet = {F[j] : j \in D}
  BY DEF ReasonSet
<1>3. F \in Surjection(D, ReasonSet)
  BY <1>2 DEF Surjection
<1> HIDE DEF F
<1> QED BY <1>1, <1>3, FS_Surjection

LEMMA NamesApart == /\ ReasonSet \intersect {"processed", "blocked", "sanitized", "regions"} = {}
                    /\ Names = {"processed", "blocked", "sanitized", "regions"} \union ReasonSet
<1>1. \A j \in DOMAIN Reasons : Reasons[j] \in
        {"decode", "unsupported_format", "too_large", "detector_error", "strip",
         "encode", "audit", "policy", "canceled"}
  BY ReasonsAssumption
<1>2. {Totals[j] : j \in 1 .. 4} = {"processed", "blocked", "sanitized", "regions"}
  <2>1. /\ Totals[1] = "processed" /\ Totals[2] = "blocked"
        /\ Totals[3] = "sanitized" /\ Totals[4] = "regions"
    BY DEF Totals
  <2>2. 1 .. 4 = {1, 2, 3, 4}
    OBVIOUS
  <2> QED BY <2>1, <2>2
<1> QED BY <1>1, <1>2 DEF ReasonSet, Names

LEMMA BreakdownIs ==
  ASSUME NEW s
  PROVE  \E g : Summing(g, Entries(s), ReasonSet) /\ Breakdown(s) = g[ReasonSet]
<1> DEFINE A == ReasonSet
           val(u) == s[CHOOSE x \in u : TRUE]
           Eqn(g) == g = [u \in SUBSET A |->
                         IF u = {} THEN 0
                         ELSE val(u) + g[u \ {CHOOSE x \in u : TRUE}]]
           it == CHOOSE g : Eqn(g)
<1>1. PICK g : SumFcn(g, Entries(s), A)
  <2> HIDE DEF A
  <2> QED BY ReasonsFinite, SumFcnExists DEF A
<1>2. \A u \in SUBSET A : u # {} => Entries(s)[Pick(u)] = val(u)
  BY DEF Pick, Entries
<1>3. Eqn(g)
  <2> HIDE DEF A
  <2> QED BY <1>1, <1>2 DEF SumFcn, Pick
<1>4. Eqn(it)
  <2> HIDE DEF Eqn
  <2> QED BY <1>3
<1>5. SumFcn(it, Entries(s), A)
  <2> HIDE DEF it, A, val
  <2> QED BY <1>2, <1>4 DEF SumFcn, Pick
<1>6. Breakdown(s) = it[A]
  BY DEF Breakdown, MapThenSumSet, MapThenFoldSet
<1> QED BY <1>5, <1>6, SumFcnUnfolds

LEMMA BreakdownMonotone ==
  ASSUME NEW s, NEW t, \A r \in ReasonSet : s[r] \in Int /\ t[r] \in Int /\ s[r] <= t[r]
  PROVE  Breakdown(s) \in Int /\ Breakdown(s) <= Breakdown(t)
<1> DEFINE A == ReasonSet
           f == Entries(s)
           e == Entries(t)
<1>1. PICK g : Summing(g, f, A) /\ Breakdown(s) = g[A]
  BY BreakdownIs
<1>2. PICK h : Summing(h, e, A) /\ Breakdown(t) = h[A]
  BY BreakdownIs
<1>3. /\ \A x \in A : f[x] \in Int /\ e[x] \in Int /\ f[x] <= e[x]
      /\ A \in SUBSET A /\ IsFiniteSet(A)
  BY ReasonsFinite DEF Entries
<1> HIDE DEF A, f, e
<1>4. \A u \in SUBSET A : g[u] <= h[u]
  BY <1>1, <1>2, <1>3, SummingMonotone
<1>5. \A u \in SUBSET A : g[u] \in Int
  BY <1>1, <1>3, SummingInt
<1> QED BY <1>1, <1>2, <1>3, <1>4, <1>5

(* One reason more, one more in the breakdown.                                *)
LEMMA BreakdownBump ==
  ASSUME NEW s, NEW t, NEW x \in ReasonSet, NEW k \in Int,
         \A r \in ReasonSet : s[r] \in Int /\ t[r] = IF r = x THEN s[r] + k ELSE s[r]
  PROVE  Breakdown(t) = Breakdown(s) + k
<1> DEFINE A == ReasonSet
           f == Entries(s)
           e == Entries(t)
<1>1. PICK g : Summing(g, f, A) /\ Breakdown(s) = g[A]
  BY BreakdownIs
<1>2. PICK h : Summing(h, e, A) /\ Breakdown(t) = h[A]
  BY BreakdownIs
<1>3. /\ \A y \in A : f[y] \in Int /\ e[y] = IF y = x THEN f[y] + k ELSE f[y]
      /\ A \in SUBSET A /\ IsFiniteSet(A) /\ x \in A
  BY ReasonsFinite DEF Entries
<1> HIDE DEF A, f, e
<1>4. \A u \in SUBSET A : h[u] = IF x \in u THEN g[u] + k ELSE g[u]
  BY <1>1, <1>2, <1>3, SummingChange
<1> QED BY <1>1, <1>2, <1>3, <1>4

LEMMA BreakdownZero ==
  ASSUME NEW s, \A r \in ReasonSet : s[r] = 0
  PROVE  Breakdown(s) = 0
<1> DEFINE A == ReasonSet
           f == Entries(s)
           D == {0}
<1>1. PICK g : Summing(g, f, A) /\ Breakdown(s) = g[A]
  BY BreakdownIs
<1>2. /\ \A x \in A : f[x] \in D
      /\ A \in SUBSET A /\ IsFiniteSet(A)
      /\ 0 \in D /\ \A a, b \in D : a + b \in D
  BY ReasonsFinite DEF Entries
<1> HIDE DEF A, f, D
<1>3. \A u \in SUBSET A : g[u] \in D
  BY <1>1, <1>2, SummingIn
<1> QED BY <1>1, <1>2, <1>3 DEF D

(* The counters as the scrape in progress will show them: what it has loaded, *)
(* and for the reasons it has not, what is there now.                         *)
Snapshot == [r \in ReasonSet |-> IF r \in DOMAIN loaded THEN loaded[r] ELSE value[r]]
Uncounted == {w \in Workers : at[w] = "counted"}

MemoryInv ==
  /\ value \in [Names -> Nat]
  /\ at \in [Workers -> {"idle", "counted", "reason", "regions"}]
  /\ DOMAIN why = Workers
  /\ \A w \in Blocking : why[w] \in ReasonSet
  /\ value["blocked"] = Breakdown(value) + Cardinality(Blocking)
  /\ value["blocked"] + value["sanitized"] + Cardinality(Uncounted) <= value["processed"]

ScrapeInv ==
  /\ DOMAIN loaded \subseteq Names
  /\ loaded \in [DOMAIN loaded -> Nat]
  /\ "blocked" \notin DOMAIN loaded => DOMAIN loaded \subseteq {"processed"}
  /\ "blocked" \in DOMAIN loaded =>
       loaded["blocked"] <= Breakdown(Snapshot) + Cardinality(Workers)
  /\ scrapes \in Seq([Names -> Nat])
  /\ ScrapeLagBounded

LEMMA CountedWorkers ==
  ASSUME NEW P, P \subseteq Workers
  PROVE  /\ IsFiniteSet(P) /\ Cardinality(P) \in Nat /\ Cardinality(Workers) \in Nat
         /\ Cardinality(P) <= Cardinality(Workers)
         /\ \A w \in Workers \ P : Cardinality(P \union {w}) = Cardinality(P) + 1
         /\ \A w \in P : Cardinality(P \ {w}) = Cardinality(P) - 1
BY WorkersAssumption, FS_Subset, FS_CardinalityType, FS_AddElement, FS_RemoveElement

(* What a counter does to the memory.                                         *)
LEMMA Bumping ==
  ASSUME value \in [Names -> Nat], NEW n \in Names, NEW k \in Nat, Bump(n, k)
  PROVE  /\ value' \in [Names -> Nat]
         /\ value'[n] = value[n] + k
         /\ \A m \in Names \ {n} : value'[m] = value[m]
         /\ \A m \in Names : value[m] <= value'[m]
         /\ Breakdown(value') = IF n \in ReasonSet THEN Breakdown(value) + k ELSE Breakdown(value)
         /\ Breakdown(value) \in Int
<1>1. /\ value' \in [Names -> Nat] /\ value'[n] = value[n] + k
      /\ \A m \in Names \ {n} : value'[m] = value[m]
      /\ \A m \in Names : value[m] <= value'[m] /\ value[m] \in Nat
  BY DEF Bump
<1>2. ReasonSet \subseteq Names
  BY NamesApart
<1>3. CASE n \in ReasonSet
  <2>1. \A r \in ReasonSet : /\ value[r] \in Int
                             /\ value'[r] = IF r = n THEN value[r] + k ELSE value[r]
    BY <1>1, <1>2
  <2>2. Breakdown(value') = Breakdown(value) + k
    BY <1>3, <2>1, BreakdownBump
  <2>3. Breakdown(value) \in Int
    <3>1. \A r \in ReasonSet : value[r] <= value[r]
      BY <2>1
    <3> QED BY <2>1, <3>1, BreakdownMonotone
  <2> QED BY <1>1, <1>3, <2>2, <2>3
<1>4. CASE n \notin ReasonSet
  <2>1. \A r \in ReasonSet : /\ value[r] \in Int /\ value'[r] \in Int /\ value'[r] = value[r]
                             /\ value[r] <= value'[r] /\ value'[r] <= value[r]
    BY <1>1, <1>2, <1>4
  <2>2. Breakdown(value) \in Int /\ Breakdown(value) <= Breakdown(value')
    BY <2>1, BreakdownMonotone
  <2>3. Breakdown(value') \in Int /\ Breakdown(value') <= Breakdown(value)
    BY <2>1, BreakdownMonotone
  <2> QED BY <1>1, <1>4, <2>2, <2>3
<1> QED BY <1>3, <1>4

LEMMA ItemMemory ==
  ASSUME MemoryInv, NEW w \in Workers, Item(w)
  PROVE  /\ MemoryInv'
         /\ \A m \in Names : value[m] <= value'[m]
<1> DEFINE B == Blocking
           C == Uncounted
<1>1. /\ B \subseteq Workers /\ C \subseteq Workers
      /\ value \in [Names -> Nat] /\ DOMAIN why = Workers
      /\ at \in [Workers -> {"idle", "counted", "reason", "regions"}]
      /\ \A v \in B : why[v] \in ReasonSet
  BY DEF MemoryInv, Blocking, Uncounted
<1>2. /\ value["blocked"] = Breakdown(value) + Cardinality(B)
      /\ value["blocked"] + value["sanitized"] + Cardinality(C) <= value["processed"]
  BY DEF MemoryInv
<1>3. /\ w \notin B => Cardinality(B \union {w}) = Cardinality(B) + 1
      /\ w \in B => Cardinality(B \ {w}) = Cardinality(B) - 1
      /\ w \notin C => Cardinality(C \union {w}) = Cardinality(C) + 1
      /\ w \in C => Cardinality(C \ {w}) = Cardinality(C) - 1
      /\ Cardinality(B) \in Nat /\ Cardinality(C) \in Nat
  BY <1>1, CountedWorkers
<1>4. \A n \in {"processed", "blocked", "sanitized", "regions"} :
         n \in Names /\ n \notin ReasonSet /\ value[n] \in Nat
  BY <1>1, NamesApart
<1>5. \A s : Turns(w, s) /\ s \in {"idle", "counted", "reason", "regions"} =>
         /\ at' \in [Workers -> {"idle", "counted", "reason", "regions"}]
         /\ B' = IF s = "reason" THEN B \union {w} ELSE B \ {w}
         /\ C' = IF s = "counted" THEN C \union {w} ELSE C \ {w}
  BY <1>1 DEF Turns, Blocking, Uncounted
<1>6. (w \in B <=> at[w] = "reason") /\ (w \in C <=> at[w] = "counted")
  BY DEF Blocking, Uncounted
<1> SUFFICES /\ value' \in [Names -> Nat]
             /\ \A m \in Names : value[m] <= value'[m]
             /\ at' \in [Workers -> {"idle", "counted", "reason", "regions"}]
             /\ DOMAIN why' = Workers
             /\ \A v \in B' : why'[v] \in ReasonSet
             /\ value'["blocked"] = Breakdown(value') + Cardinality(B')
             /\ value'["blocked"] + value'["sanitized"] + Cardinality(C') <= value'["processed"]
  BY DEF MemoryInv
<1> HIDE DEF B, C
<1>7. CASE IncUploadsProcessed(w)
  <2>1. /\ B' = B /\ C' = C \union {w} /\ w \notin C /\ why' = why /\ at'\in [Workers -> {"idle", "counted", "reason", "regions"}]
    BY <1>5, <1>6, <1>7 DEF IncUploadsProcessed
  <2>2. /\ value' \in [Names -> Nat] /\ \A m \in Names : value[m] <= value'[m]
        /\ value'["processed"] = value["processed"] + 1
        /\ value'["blocked"] = value["blocked"] /\ value'["sanitized"] = value["sanitized"]
        /\ Breakdown(value') = Breakdown(value)
    BY <1>1, <1>4, <1>7, Bumping DEF IncUploadsProcessed
  <2> QED BY <1>1, <1>2, <1>3, <1>4, <2>1, <2>2
<1>8. CASE NotCounted(w)
  <2>1. /\ B' = B /\ C' = C \ {w} /\ w \in C /\ value' = value /\ why' = why /\ at'\in [Workers -> {"idle", "counted", "reason", "regions"}]
    BY <1>5, <1>6, <1>8 DEF NotCounted
  <2> QED BY <1>1, <1>2, <1>3, <1>4, <2>1
<1>9. CASE IncUploadsBlocked(w)
  <2>1. /\ B' = B \union {w} /\ w \notin B /\ C' = C \ {w} /\ w \in C /\ at'\in [Workers -> {"idle", "counted", "reason", "regions"}]
    BY <1>5, <1>6, <1>9 DEF IncUploadsBlocked
  <2>2. /\ value' \in [Names -> Nat] /\ \A m \in Names : value[m] <= value'[m]
        /\ value'["blocked"] = value["blocked"] + 1
        /\ value'["processed"] = value["processed"] /\ value'["sanitized"] = value["sanitized"]
        /\ Breakdown(value') = Breakdown(value) /\ Breakdown(value) \in Int
    BY <1>1, <1>4, <1>9, Bumping DEF IncUploadsBlocked
  <2>3. DOMAIN why' = Workers /\ \A v \in B' : why'[v] \in ReasonSet
    BY <1>1, <1>9, <2>1 DEF IncUploadsBlocked
  <2> QED BY <1>2, <1>3, <1>4, <2>1, <2>2, <2>3
<1>10. CASE IncReason(w)
  <2>1. /\ B' = B \ {w} /\ w \in B /\ C' = C /\ why' = why /\ at'\in [Workers -> {"idle", "counted", "reason", "regions"}]
    BY <1>5, <1>6, <1>10 DEF IncReason
  <2>2. why[w] \in ReasonSet /\ why[w] \in Names
    BY <1>1, <2>1, NamesApart
  <2>3. /\ value' \in [Names -> Nat] /\ \A m \in Names : value[m] <= value'[m]
        /\ value'["blocked"] = value["blocked"]
        /\ value'["processed"] = value["processed"] /\ value'["sanitized"] = value["sanitized"]
        /\ Breakdown(value') = Breakdown(value) + 1 /\ Breakdown(value) \in Int
    BY <1>1, <1>4, <1>10, <2>2, Bumping DEF IncReason
  <2> QED BY <1>1, <1>2, <1>3, <1>4, <2>1, <2>3
<1>11. CASE IncImagesSanitized(w)
  <2>1. /\ B' = B /\ C' = C \ {w} /\ w \in C /\ why' = why /\ at'\in [Workers -> {"idle", "counted", "reason", "regions"}]
    BY <1>5, <1>6, <1>11 DEF IncImagesSanitized
  <2>2. /\ value' \in [Names -> Nat] /\ \A m \in Names : value[m] <= value'[m]
        /\ value'["sanitized"] = value["sanitized"] + 1
        /\ value'["blocked"] = value["blocked"] /\ value'["processed"] = value["processed"]
        /\ Breakdown(value') = Breakdown(value)
    BY <1>1, <1>4, <1>11, Bumping DEF IncImagesSanitized
  <2> QED BY <1>1, <1>2, <1>3, <1>4, <2>1, <2>2
<1>12. CASE AddRegionsMasked(w)
  <2>1. /\ B' = B /\ C' = C /\ why' = why /\ at'\in [Workers -> {"idle", "counted", "reason", "regions"}]
    BY <1>5, <1>6, <1>12 DEF AddRegionsMasked
  <2>2. PICK k \in 0 .. 1 : Bump("regions", k)
    BY <1>12 DEF AddRegionsMasked
  <2>3. /\ value' \in [Names -> Nat] /\ \A m \in Names : value[m] <= value'[m]
        /\ value'["sanitized"] = value["sanitized"]
        /\ value'["blocked"] = value["blocked"] /\ value'["processed"] = value["processed"]
        /\ Breakdown(value') = Breakdown(value)
    BY <1>1, <1>4, <2>2, Bumping
  <2> QED BY <1>1, <1>2, <1>3, <1>4, <2>1, <2>3
<1> QED BY <1>7, <1>8, <1>9, <1>10, <1>11, <1>12 DEF Item

LEMMA OrderIs ==
  /\ Len(Reasons) \in Nat /\ Len(Order) = 4 + Len(Reasons)
  /\ \A k \in 1 .. Len(Order) : Order[k] = IF k <= 4 THEN Totals[k] ELSE Reasons[k - 4]
  /\ \A k \in 1 .. Len(Order) : Order[k] \in Names
  /\ Order[1] = "processed" /\ Order[2] = "blocked"
<1>1. Len(Totals) = 4 /\ Totals[1] = "processed" /\ Totals[2] = "blocked"
  BY DEF Totals
<1>2. Totals \in Seq(Names)
  <2>1. \A k \in 1 .. 4 : Totals[k] \in Names
    BY DEF Names
  <2>2. Totals \in [1 .. 4 -> Names]
    BY <2>1 DEF Totals
  <2> QED BY <2>2, SeqDef
<1>3. Len(Reasons) \in Nat /\ Reasons \in [1 .. Len(Reasons) -> Names]
  <2>1. Len(Reasons) \in Nat /\ Reasons = [k \in 1 .. Len(Reasons) |-> Reasons[k]]
    BY ReasonsAssumption
  <2>2. \A k \in 1 .. Len(Reasons) : Reasons[k] \in Names
    BY <2>1 DEF Names, ReasonSet
  <2> QED BY <2>1, <2>2
<1>4. Reasons \in Seq(Names)
  BY <1>3, SeqDef
<1>5. /\ Order \in Seq(Names) /\ Len(Order) = 4 + Len(Reasons)
      /\ \A k \in 1 .. Len(Order) : Order[k] = IF k <= 4 THEN Totals[k] ELSE Reasons[k - 4]
  <2> DEFINE t == Totals
             r == Reasons
  <2>1. t \in Seq(Names) /\ r \in Seq(Names) /\ Len(t) = 4
    BY <1>1, <1>2, <1>4
  <2> HIDE DEF t, r
  <2>2. /\ t \o r \in Seq(Names) /\ Len(t \o r) = Len(t) + Len(r)
        /\ \A k \in 1 .. Len(t) + Len(r) : (t \o r)[k] = IF k <= Len(t) THEN t[k] ELSE r[k - Len(t)]
    BY <2>1, ConcatProperties
  <2>3. Order = t \o r
    BY DEF Order, t, r
  <2> QED BY <2>1, <2>2, <2>3 DEF t, r
<1>6. \A k \in 1 .. Len(Order) : Order[k] \in Names
  BY <1>5, ElementOfSeq
<1>7. 1 \in 1 .. Len(Order) /\ 2 \in 1 .. Len(Order)
  BY <1>3, <1>5
<1> QED BY <1>1, <1>3, <1>5, <1>6, <1>7

LEMMA NamesFinite == IsFiniteSet(Names)
<1>1. IsFiniteSet({"processed"}) /\ IsFiniteSet({"blocked"})
      /\ IsFiniteSet({"sanitized"}) /\ IsFiniteSet({"regions"})
  BY FS_Singleton
<1>2. IsFiniteSet({"processed"} \union {"blocked"} \union {"sanitized"} \union {"regions"})
  BY <1>1, FS_Union
<1>3. Names = ({"processed"} \union {"blocked"} \union {"sanitized"} \union {"regions"}) \union ReasonSet
  BY NamesApart
<1> QED BY <1>2, <1>3, ReasonsFinite, FS_Union

(* A counter only grows, and so does what the scrape will show.               *)
LEMMA SnapshotNumbers ==
  ASSUME value \in [Names -> Nat], value' \in [Names -> Nat], ScrapeInv, loaded' = loaded,
         \A m \in Names : value[m] <= value'[m]
  PROVE  /\ Breakdown(Snapshot) <= Breakdown(Snapshot')
         /\ Breakdown(Snapshot) \in Int /\ Breakdown(Snapshot') \in Int
<1>1. \A r \in ReasonSet : Snapshot[r] \in Int /\ Snapshot'[r] \in Int /\ Snapshot[r] <= Snapshot'[r]
  <2> TAKE r \in ReasonSet
  <2>1. r \in Names
    BY NamesApart
  <2>2. CASE r \in DOMAIN loaded
    <3>1. Snapshot[r] = loaded[r] /\ Snapshot'[r] = loaded[r] /\ loaded[r] \in Nat
      BY <2>2 DEF ScrapeInv, Snapshot
    <3> QED BY <3>1
  <2>3. CASE r \notin DOMAIN loaded
    <3>1. Snapshot[r] = value[r] /\ Snapshot'[r] = value'[r]
      BY <2>3 DEF Snapshot
    <3> QED BY <2>1, <3>1
  <2> QED BY <2>2, <2>3
<1> DEFINE s == Snapshot
           t == Snapshot'
<1>2. \A r \in ReasonSet : s[r] \in Int /\ t[r] \in Int /\ s[r] <= t[r]
  BY <1>1
<1> HIDE DEF s, t
<1>3. Breakdown(s) <= Breakdown(t) /\ Breakdown(s) \in Int
  BY <1>2, BreakdownMonotone
<1>4. \A r \in ReasonSet : t[r] \in Int /\ t[r] <= t[r]
  BY <1>2
<1>5. Breakdown(t) \in Int
  BY <1>4, BreakdownMonotone
<1> QED BY <1>3, <1>5 DEF s, t

LEMMA LoadScrape ==
  ASSUME MemoryInv, ScrapeInv, LoadNext
  PROVE  MemoryInv' /\ ScrapeInv'
<1> DEFINE c == Cardinality(DOMAIN loaded)
           n == Order[c + 1]
           D == DOMAIN loaded
<1>1. /\ c < Len(Order) /\ DOMAIN loaded' = D \union {n}
      /\ loaded' = [m \in D \union {n} |-> IF m \in D THEN loaded[m] ELSE value[n]]
      /\ UNCHANGED <<value, at, why, scrapes>>
  BY DEF LoadNext
<1>2. D \subseteq Names /\ IsFiniteSet(D) /\ c \in Nat
  BY NamesFinite, FS_Subset, FS_CardinalityType DEF ScrapeInv
<1>3. Len(Order) \in Nat
  BY OrderIs
<1>4. n \in Names
  <2>1. c + 1 \in 1 .. Len(Order)
    BY <1>1, <1>2, <1>3
  <2> QED BY <2>1, OrderIs
<1>5. value \in [Names -> Nat]
  BY DEF MemoryInv
<1>6. loaded' \in [D \union {n} -> Nat]
  <2>1. \A m \in D : loaded[m] \in Nat
    BY DEF ScrapeInv
  <2>2. value[n] \in Nat
    BY <1>4, <1>5
  <2> QED BY <1>1, <2>1, <2>2
<1>7. \A r \in ReasonSet : Snapshot'[r] = Snapshot[r]
  <2> TAKE r \in ReasonSet
  <2>1. CASE r \in D
    <3>1. Snapshot'[r] = loaded'[r] /\ Snapshot[r] = loaded[r] /\ loaded'[r] = loaded[r]
      BY <1>1, <2>1 DEF Snapshot
    <3> QED BY <3>1
  <2>2. CASE r \notin D /\ r = n
    <3>1. Snapshot'[r] = loaded'[r] /\ Snapshot[r] = value[r] /\ loaded'[r] = value[n]
      BY <1>1, <2>2 DEF Snapshot
    <3> QED BY <2>2, <3>1
  <2>3. CASE r \notin D /\ r # n
    <3>1. Snapshot'[r] = value'[r] /\ Snapshot[r] = value[r]
      BY <1>1, <2>3 DEF Snapshot
    <3> QED BY <1>1, <3>1
  <2> QED BY <2>1, <2>2, <2>3
<1>8. \A r \in ReasonSet : Snapshot[r] \in Int
  <2> TAKE r \in ReasonSet
  <2>1. r \in Names
    BY NamesApart
  <2> QED BY <1>5, <2>1 DEF Snapshot, ScrapeInv
<1>9. Breakdown(Snapshot') = Breakdown(Snapshot) /\ Breakdown(Snapshot) \in Int
  <2> DEFINE s == Snapshot
             t == Snapshot'
  <2>1. \A r \in ReasonSet : s[r] \in Int /\ t[r] \in Int /\ s[r] <= t[r] /\ t[r] <= s[r]
    BY <1>7, <1>8
  <2> HIDE DEF s, t
  <2>2. Breakdown(s) \in Int /\ Breakdown(t) \in Int
        /\ Breakdown(s) <= Breakdown(t) /\ Breakdown(t) <= Breakdown(s)
    BY <2>1, BreakdownMonotone
  <2>3. Breakdown(s) = Breakdown(t)
    BY <2>2
  <2> QED BY <2>2, <2>3 DEF s, t
<1>10. MemoryInv'
  BY <1>1 DEF MemoryInv, Blocking, Uncounted
<1>11. "blocked" \in DOMAIN loaded' =>
         loaded'["blocked"] <= Breakdown(Snapshot') + Cardinality(Workers)
  <2>1. CASE "blocked" \in D
    BY <1>1, <1>9, <2>1 DEF ScrapeInv
  <2>2. CASE "blocked" \notin D /\ n = "blocked"
    <3>1. \A r \in ReasonSet : r \notin D
      BY <2>2, NamesApart DEF ScrapeInv
    <3>2. \A r \in ReasonSet : Snapshot[r] = value[r]
      BY <3>1 DEF Snapshot
    <3>3. Breakdown(Snapshot) = Breakdown(value)
      <4> DEFINE s == Snapshot
      <4>1. \A r \in ReasonSet : /\ s[r] \in Int /\ value[r] \in Int
                                 /\ s[r] <= value[r] /\ value[r] <= s[r]
        BY <1>8, <3>2
      <4> HIDE DEF s
      <4>2. /\ Breakdown(s) \in Int /\ Breakdown(value) \in Int
            /\ Breakdown(s) <= Breakdown(value) /\ Breakdown(value) <= Breakdown(s)
        BY <4>1, BreakdownMonotone
      <4> QED BY <4>2 DEF s
    <3>4. loaded'["blocked"] = value["blocked"]
      BY <1>1, <2>2
    <3>5. Cardinality(Blocking) <= Cardinality(Workers)
          /\ Cardinality(Blocking) \in Nat /\ Cardinality(Workers) \in Nat
      BY CountedWorkers DEF Blocking
    <3>6. value["blocked"] = Breakdown(value) + Cardinality(Blocking)
      BY DEF MemoryInv
    <3>7. Breakdown(Snapshot') = Breakdown(value) /\ Breakdown(value) \in Int
      BY <1>9, <3>3
    <3> QED BY <3>4, <3>5, <3>6, <3>7
  <2> QED BY <1>1, <2>1, <2>2
<1>12. "blocked" \notin DOMAIN loaded' => DOMAIN loaded' \subseteq {"processed"}
  <2> SUFFICES ASSUME "blocked" \notin D, n # "blocked" PROVE D \union {n} \subseteq {"processed"}
    BY <1>1
  <2>1. D = {} \/ D = {"processed"}
    BY DEF ScrapeInv
  <2>2. Order[1] = "processed" /\ Order[2] = "blocked"
    BY OrderIs
  <2>3. CASE D = {}
    <3>1. c = 0
      BY <2>3, FS_EmptySet
    <3> QED BY <2>2, <2>3, <3>1
  <2>4. CASE D = {"processed"}
    <3>1. c = 1
      BY <2>4, FS_Singleton
    <3> QED BY <2>2, <3>1
  <2> QED BY <2>1, <2>3, <2>4
<1>13. scrapes' \in Seq([Names -> Nat]) /\ ScrapeLagBounded'
  BY <1>1 DEF ScrapeInv, ScrapeLagBounded
<1> QED BY <1>1, <1>2, <1>4, <1>6, <1>10, <1>11, <1>12, <1>13 DEF ScrapeInv

LEMMA ServeScrape ==
  ASSUME MemoryInv, ScrapeInv, Serve
  PROVE  MemoryInv' /\ ScrapeInv'
<1>1. /\ DOMAIN loaded = Names /\ scrapes' = Append(scrapes, loaded) /\ loaded' = NoSamples
      /\ UNCHANGED <<value, at, why>>
  BY DEF Serve
<1>2. loaded \in [Names -> Nat] /\ scrapes \in Seq([Names -> Nat])
  BY <1>1 DEF ScrapeInv
<1>3. loaded["blocked"] - Breakdown(loaded) <= Cardinality(Workers)
  <2>1. "blocked" \in DOMAIN loaded
    BY <1>1, NamesApart
  <2>2. loaded["blocked"] <= Breakdown(Snapshot) + Cardinality(Workers)
    BY <2>1 DEF ScrapeInv
  <2>3. Breakdown(Snapshot) = Breakdown(loaded) /\ Breakdown(loaded) \in Int
    <3> DEFINE s == Snapshot
    <3>1. \A r \in ReasonSet : /\ s[r] \in Int /\ loaded[r] \in Int
                               /\ s[r] <= loaded[r] /\ loaded[r] <= s[r]
      <4> TAKE r \in ReasonSet
      <4>1. r \in Names
        BY NamesApart
      <4>2. s[r] = loaded[r] /\ loaded[r] \in Nat
        BY <1>1, <1>2, <4>1 DEF Snapshot
      <4> QED BY <4>2
    <3> HIDE DEF s
    <3>2. /\ Breakdown(s) \in Int /\ Breakdown(loaded) \in Int
          /\ Breakdown(s) <= Breakdown(loaded) /\ Breakdown(loaded) <= Breakdown(s)
      BY <3>1, BreakdownMonotone
    <3> QED BY <3>2 DEF s
  <2>4. loaded["blocked"] \in Nat /\ Cardinality(Workers) \in Nat
    BY <1>1, <1>2, <2>1, CountedWorkers
  <2> QED BY <2>2, <2>3, <2>4
<1>4. scrapes' \in Seq([Names -> Nat])
  BY <1>1, <1>2
<1>5. ScrapeLagBounded'
  <2> SUFFICES ASSUME NEW j \in DOMAIN scrapes'
               PROVE  scrapes'[j]["blocked"] - Breakdown(scrapes'[j]) <= Cardinality(Workers)
    BY DEF ScrapeLagBounded
  <2>1. \/ j \in DOMAIN scrapes /\ scrapes'[j] = scrapes[j]
        \/ scrapes'[j] = loaded
    BY <1>1, <1>2
  <2> QED BY <1>3, <2>1 DEF ScrapeInv, ScrapeLagBounded
<1>6. MemoryInv'
  BY <1>1 DEF MemoryInv, Blocking, Uncounted
<1>7. DOMAIN loaded' = {} /\ loaded' \in [DOMAIN loaded' -> Nat]
  BY <1>1 DEF NoSamples
<1> QED BY <1>4, <1>5, <1>6, <1>7 DEF ScrapeInv

LEMMA MetricsInitInv == MetricsInit => MemoryInv /\ ScrapeInv
<1> SUFFICES ASSUME MetricsInit PROVE MemoryInv /\ ScrapeInv
  OBVIOUS
<1>1. /\ value = [n \in Names |-> 0] /\ loaded = NoSamples /\ scrapes = <<>>
      /\ at = [w \in Workers |-> "idle"] /\ DOMAIN why = Workers
  BY DEF MetricsInit
<1>2. Blocking = {} /\ Uncounted = {}
  BY <1>1 DEF Blocking, Uncounted
<1>3. Cardinality(Blocking) = 0 /\ Cardinality(Uncounted) = 0
  BY <1>2, FS_EmptySet
<1>4. /\ value["blocked"] = 0 /\ value["sanitized"] = 0 /\ value["processed"] = 0
      /\ \A r \in ReasonSet : value[r] = 0
  BY <1>1, NamesApart
<1>5. Breakdown(value) = 0
  BY <1>4, BreakdownZero
<1>6. MemoryInv
  BY <1>1, <1>2, <1>3, <1>4, <1>5 DEF MemoryInv
<1>7. DOMAIN loaded = {} /\ loaded \in [DOMAIN loaded -> Nat]
  BY <1>1 DEF NoSamples
<1>8. ScrapeInv
  BY <1>1, <1>7 DEF ScrapeInv, ScrapeLagBounded
<1> QED BY <1>6, <1>8

LEMMA MetricsNextInv == MemoryInv /\ ScrapeInv /\ [MetricsNext]_metricsVars => MemoryInv' /\ ScrapeInv'
<1> SUFFICES ASSUME MemoryInv, ScrapeInv, [MetricsNext]_metricsVars PROVE MemoryInv' /\ ScrapeInv'
  OBVIOUS
<1>1. ASSUME NEW w \in Workers, Item(w) PROVE MemoryInv' /\ ScrapeInv'
  <2>1. MemoryInv' /\ \A m \in Names : value[m] <= value'[m]
    BY <1>1, ItemMemory
  <2>2. UNCHANGED <<loaded, scrapes>>
    BY <1>1 DEF Item, IncUploadsProcessed, NotCounted, IncUploadsBlocked, IncReason,
                IncImagesSanitized, AddRegionsMasked
  <2>3. "blocked" \in DOMAIN loaded' =>
          loaded'["blocked"] <= Breakdown(Snapshot') + Cardinality(Workers)
    <3> HAVE "blocked" \in DOMAIN loaded'
    <3>1. loaded["blocked"] <= Breakdown(Snapshot) + Cardinality(Workers)
      BY <2>2 DEF ScrapeInv
    <3>2. Breakdown(Snapshot) <= Breakdown(Snapshot')
      BY <2>1, <2>2, SnapshotNumbers DEF MemoryInv
    <3>3. /\ Breakdown(Snapshot) \in Int /\ Breakdown(Snapshot') \in Int
          /\ loaded["blocked"] \in Nat /\ Cardinality(Workers) \in Nat
      BY <2>1, <2>2, SnapshotNumbers, CountedWorkers DEF MemoryInv, ScrapeInv
    <3> QED BY <2>2, <3>1, <3>2, <3>3
  <2>4. ScrapeLagBounded'
    BY <2>2 DEF ScrapeInv, ScrapeLagBounded
  <2> QED BY <2>1, <2>2, <2>3, <2>4 DEF ScrapeInv
<1>2. CASE UNCHANGED metricsVars
  BY <1>2 DEF metricsVars, MemoryInv, ScrapeInv, ScrapeLagBounded, Snapshot, Blocking, Uncounted
<1> QED BY <1>1, <1>2, LoadScrape, ServeScrape DEF MetricsNext

(* At every moment, for any number of goroutines and any list of reasons, the *)
(* total of blocked items is the sum of the reasons and of the blocks between *)
(* their two additions, and nothing is blocked or masked that was not counted *)
(* before.                                                                    *)
THEOREM MetricsBreakdownTracksTotal == MetricsSpec => []BreakdownTracksTotal
<1>1. MemoryInv => BreakdownTracksTotal
  <2> SUFFICES ASSUME MemoryInv PROVE BreakdownTracksTotal
    OBVIOUS
  <2>1. \A n \in {"processed", "blocked", "sanitized"} : value[n] \in Nat
    BY NamesApart DEF MemoryInv
  <2>2. Cardinality(Uncounted) \in Nat
    BY CountedWorkers DEF Uncounted
  <2> QED BY <2>1, <2>2 DEF MemoryInv, BreakdownTracksTotal
<1> QED BY <1>1, MetricsInitInv, MetricsNextInv, PTL DEF MetricsSpec

(* What a scrape shows of the breakdown lags behind the total it shows by at  *)
(* most one block per goroutine, however the loads fall between additions.    *)
THEOREM MetricsScrapeLagBounded == MetricsSpec => []ScrapeLagBounded
<1>1. ScrapeInv => ScrapeLagBounded
  BY DEF ScrapeInv
<1> QED BY <1>1, MetricsInitInv, MetricsNextInv, PTL DEF MetricsSpec

=============================================================================
