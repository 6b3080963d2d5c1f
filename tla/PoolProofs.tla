----------------------------- MODULE PoolProofs -----------------------------
(* Theorems about Pool for every set of callers, every size and every set of  *)
(* drainers.  The inductive invariant joins the accounting of the channel and *)
(* of the counter to the meaning of done: neither is inductive alone, since   *)
(* closing done is decided from inflight and not from the jobs themselves.    *)
EXTENDS Pool, TLAPS, FiniteSetTheorems

IInv == /\ TypeOK
        /\ SlotAccounting
        /\ maxSeen <= Size
        /\ DoneExact
        /\ \A d \in Drainers : drain[d] = "nil" => done

(* Both sets of callers are finite, so they have a cardinality.               *)
LEMMA FiniteAt ==
  /\ IsFiniteSet(Tokens) /\ IsFiniteSet(Holders)
  /\ Cardinality(Tokens) \in Nat /\ Cardinality(Holders) \in Nat
  /\ Holders \subseteq Tokens
<1>1. Tokens \subseteq Callers /\ Holders \subseteq Callers /\ Holders \subseteq Tokens
  BY DEF Tokens, Holders, At
<1>2. IsFiniteSet(Tokens) /\ IsFiniteSet(Holders)
  BY <1>1, CallersAssumption, FS_Subset
<1> QED
  BY <1>1, <1>2, FS_CardinalityType

(* Moving one caller between two stages moves it in or out of a stage set:    *)
(* the four ways the cardinality of such a set can change.                    *)
LEMMA MoveOne ==
  ASSUME pc \in [Callers -> PCs], NEW c \in Callers, NEW l \in PCs,
         pc' = [pc EXCEPT ![c] = l], NEW S
  PROVE  /\ pc' \in [Callers -> PCs]
         /\ pc[c] \notin S /\ l \notin S => At(S)' = At(S)
         /\ pc[c] \in S /\ l \in S => At(S)' = At(S)
         /\ pc[c] \notin S /\ l \in S =>
              At(S)' = At(S) \union {c} /\ Cardinality(At(S)') = Cardinality(At(S)) + 1
         /\ pc[c] \in S /\ l \notin S =>
              At(S)' = At(S) \ {c} /\ Cardinality(At(S)') = Cardinality(At(S)) - 1
<1>1. pc' \in [Callers -> PCs]
  OBVIOUS
<1>2. At(S) \subseteq Callers /\ IsFiniteSet(At(S)) /\ Cardinality(At(S)) \in Nat
  BY CallersAssumption, FS_Subset, FS_CardinalityType DEF At
<1>3. c \in At(S) <=> pc[c] \in S
  BY DEF At
<1>4. /\ pc[c] \notin S /\ l \notin S => At(S)' = At(S)
      /\ pc[c] \in S /\ l \in S => At(S)' = At(S)
      /\ pc[c] \notin S /\ l \in S => At(S)' = At(S) \union {c}
      /\ pc[c] \in S /\ l \notin S => At(S)' = At(S) \ {c}
  BY DEF At
<1>5. pc[c] \notin S => Cardinality(At(S) \union {c}) = Cardinality(At(S)) + 1
  BY <1>2, <1>3, FS_AddElement
<1>6. pc[c] \in S => Cardinality(At(S) \ {c}) = Cardinality(At(S)) - 1
  BY <1>2, <1>3, FS_RemoveElement
<1> QED
  BY <1>1, <1>4, <1>5, <1>6

(* What the three stage sets do in a move, in one place for all actions.      *)
LEMMA MoveStages ==
  ASSUME TypeOK, SlotAccounting, NEW c \in Callers, NEW l \in PCs, Goto(c, l)
  PROVE  LET In == {"slot", "giveback", "holding", "freeing"} IN
         /\ pc' \in [Callers -> PCs]
         /\ pc[c] \in In /\ l \in In => Cardinality(Tokens') = sem
         /\ pc[c] \notin In /\ l \notin In => Cardinality(Tokens') = sem
         /\ pc[c] \notin In /\ l \in In => Cardinality(Tokens') = sem + 1
         /\ pc[c] \in In /\ l \notin In => Cardinality(Tokens') = sem - 1
         /\ pc[c] # "holding" /\ l # "holding" =>
              Holders' = Holders /\ Cardinality(Holders') = inflight
         /\ pc[c] # "holding" /\ l = "holding" =>
              Holders' = Holders \union {c} /\ Cardinality(Holders') = inflight + 1
         /\ pc[c] = "holding" /\ l # "holding" =>
              Holders' = Holders \ {c} /\ Cardinality(Holders') = inflight - 1
<1> DEFINE In == {"slot", "giveback", "holding", "freeing"}
<1>1. pc \in [Callers -> PCs] /\ pc' = [pc EXCEPT ![c] = l]
  BY DEF TypeOK, Goto
<1>2. /\ pc' \in [Callers -> PCs]
      /\ pc[c] \notin In /\ l \notin In => At(In)' = At(In)
      /\ pc[c] \in In /\ l \in In => At(In)' = At(In)
      /\ pc[c] \notin In /\ l \in In => Cardinality(At(In)') = Cardinality(At(In)) + 1
      /\ pc[c] \in In /\ l \notin In => Cardinality(At(In)') = Cardinality(At(In)) - 1
  BY <1>1, MoveOne
<1>3. /\ pc[c] # "holding" /\ l # "holding" => At({"holding"})' = At({"holding"})
      /\ pc[c] # "holding" /\ l = "holding" =>
           /\ At({"holding"})' = At({"holding"}) \union {c}
           /\ Cardinality(At({"holding"})') = Cardinality(At({"holding"})) + 1
      /\ pc[c] = "holding" /\ l # "holding" =>
           /\ At({"holding"})' = At({"holding"}) \ {c}
           /\ Cardinality(At({"holding"})') = Cardinality(At({"holding"})) - 1
  <2> DEFINE H == {"holding"}
  <2>1. \A x : x \in H <=> x = "holding"
    OBVIOUS
  <2> HIDE DEF H
  <2>2. /\ pc[c] \notin H /\ l \notin H => At(H)' = At(H)
        /\ pc[c] \notin H /\ l \in H =>
             At(H)' = At(H) \union {c} /\ Cardinality(At(H)') = Cardinality(At(H)) + 1
        /\ pc[c] \in H /\ l \notin H =>
             At(H)' = At(H) \ {c} /\ Cardinality(At(H)') = Cardinality(At(H)) - 1
    BY <1>1, MoveOne
  <2>3. /\ pc[c] # "holding" /\ l # "holding" => At(H)' = At(H)
        /\ pc[c] # "holding" /\ l = "holding" =>
             At(H)' = At(H) \union {c} /\ Cardinality(At(H)') = Cardinality(At(H)) + 1
        /\ pc[c] = "holding" /\ l # "holding" =>
             At(H)' = At(H) \ {c} /\ Cardinality(At(H)') = Cardinality(At(H)) - 1
    BY <2>1, <2>2
  <2> QED
    BY <2>3 DEF H
<1> QED
  BY <1>2, <1>3 DEF SlotAccounting, Tokens, Holders

(* The invariant holds of the pool New returns.                               *)
LEMMA InitInv == Init => IInv
<1> SUFFICES ASSUME Init PROVE IInv
  OBVIOUS
<1>1. Tokens = {} /\ Holders = {}
  BY DEF Init, Tokens, Holders, At
<1>2. Cardinality({}) = 0
  BY FS_EmptySet
<1>3. sem \in 0 .. Size /\ inflight \in Nat /\ maxSeen \in Nat /\ maxSeen <= Size
  BY SizeAssumption DEF Init
<1>4. /\ pc \in [Callers -> PCs] /\ result \in [Callers -> Results]
      /\ drain \in [Drainers -> Drains] /\ \A d \in Drainers : drain[d] # "nil"
  BY DEF Init, PCs, Results, Drains
<1>5. closed \in BOOLEAN /\ done \in BOOLEAN /\ DoneExact
  BY DEF Init, DoneExact
<1>6. SlotAccounting
  BY <1>1, <1>2 DEF Init, SlotAccounting
<1> QED
  BY <1>3, <1>4, <1>5, <1>6 DEF IInv, TypeOK

(* Every step of a caller and of a drainer keeps the invariant.               *)
LEMMA NextInv == IInv /\ [Next]_vars => IInv'
<1> SUFFICES ASSUME IInv, [Next]_vars PROVE IInv'
  OBVIOUS
<1> USE SizeAssumption
<1>1. /\ TypeOK /\ SlotAccounting /\ maxSeen <= Size /\ DoneExact
      /\ \A d \in Drainers : drain[d] = "nil" => done
  BY DEF IInv
<1>2. /\ Cardinality(Tokens) \in Nat /\ Cardinality(Holders) \in Nat
      /\ Cardinality(Holders) <= Cardinality(Tokens)
  BY FiniteAt, FS_Subset
<1>3. /\ inflight <= sem
      /\ sem = Cardinality(Tokens) /\ inflight = Cardinality(Holders)
  BY <1>1, <1>2 DEF SlotAccounting
<1>4. ASSUME NEW c \in Callers, AcquireCheck(c) PROVE IInv'
  <2>1. PICK l \in {"idle", "select"} : Goto(c, l) /\ pc[c] = "idle"
    BY <1>4 DEF AcquireCheck
  <2>2. result' \in [Callers -> Results]
    BY <1>1, <1>4 DEF AcquireCheck, Returns, TypeOK, Results
  <2> QED
    BY <1>1, <1>4, <2>1, <2>2, MoveStages
    DEF AcquireCheck, IInv, TypeOK, SlotAccounting, DoneExact, PCs
<1>5. ASSUME NEW c \in Callers, SelectSlot(c) PROVE IInv'
  BY <1>1, <1>5, MoveStages
  DEF SelectSlot, IInv, TypeOK, SlotAccounting, DoneExact, PCs
<1>6. ASSUME NEW c \in Callers, SelectCanceled(c) \/ SelectTimeout(c) PROVE IInv'
  <2>1. Goto(c, "idle") /\ pc[c] = "select" /\ result' \in [Callers -> Results]
    BY <1>1, <1>6 DEF SelectCanceled, SelectTimeout, Returns, TypeOK, Results
  <2> QED
    BY <1>1, <1>6, <2>1, MoveStages
    DEF SelectCanceled, SelectTimeout, IInv, TypeOK, SlotAccounting, DoneExact, PCs
<1>7. ASSUME NEW c \in Callers, Commit(c) PROVE IInv'
  <2>1. CASE closed
    BY <1>1, <1>7, <2>1, MoveStages
    DEF Commit, IInv, TypeOK, SlotAccounting, DoneExact, PCs
  <2>2. CASE ~closed
    <3>1. /\ Goto(c, "holding") /\ pc[c] = "slot" /\ inflight' = inflight + 1
          /\ result' \in [Callers -> Results]
          /\ maxSeen' = IF inflight' > maxSeen THEN inflight' ELSE maxSeen
          /\ UNCHANGED <<sem, closed, done, drain>>
      BY <1>1, <1>7, <2>2 DEF Commit, Admit, Returns, TypeOK, Results
    <3>2. c \in Tokens /\ c \notin Holders
      BY <3>1 DEF Tokens, Holders, At
    <3>3. Cardinality(Holders \union {c}) <= Cardinality(Tokens)
      BY <3>2, FiniteAt, FS_Subset
    <3>4. Cardinality(Holders \union {c}) = Cardinality(Holders) + 1
      BY <3>2, FiniteAt, FS_AddElement
    <3>5. inflight' \in Nat /\ inflight' <= Size /\ maxSeen' \in Nat /\ maxSeen' <= Size
      BY <1>1, <1>3, <3>1, <3>3, <3>4 DEF TypeOK
    <3>6. /\ pc' \in [Callers -> PCs] /\ Cardinality(Tokens') = sem
          /\ Cardinality(Holders') = inflight + 1
      BY <1>1, <3>1, MoveStages DEF PCs
    <3> QED
      BY <1>1, <2>2, <3>1, <3>5, <3>6
      DEF IInv, TypeOK, SlotAccounting, DoneExact
  <2> QED
    BY <2>1, <2>2
<1>8. ASSUME NEW c \in Callers, GiveBack(c) \/ ReleaseSlot(c) PROVE IInv'
  <2>1. /\ Goto(c, "idle") /\ pc[c] \in {"giveback", "freeing"} /\ sem' = sem - 1
        /\ result' \in [Callers -> Results]
        /\ UNCHANGED <<closed, inflight, maxSeen, done, drain>>
    BY <1>1, <1>8 DEF GiveBack, ReleaseSlot, Returns, TypeOK, Results
  <2>2. sem # 0
    <3>1. c \in Tokens
      BY <2>1 DEF Tokens, At
    <3> QED
      BY <1>3, <3>1, FiniteAt, FS_EmptySet
  <2>3. sem' \in 0 .. Size
    BY <1>1, <2>1, <2>2 DEF TypeOK
  <2>4. /\ pc' \in [Callers -> PCs] /\ Cardinality(Tokens') = sem - 1
        /\ Cardinality(Holders') = inflight
    BY <1>1, <2>1, MoveStages DEF PCs
  <2> QED
    BY <1>1, <2>1, <2>3, <2>4 DEF IInv, TypeOK, SlotAccounting, DoneExact
<1>9. ASSUME NEW c \in Callers, ReleaseCount(c) PROVE IInv'
  <2>1. inflight # 0
    <3>1. c \in Holders
      BY <1>9 DEF ReleaseCount, Holders, At
    <3> QED
      BY <1>3, <3>1, FiniteAt, FS_EmptySet
  <2>2. Goto(c, "freeing") /\ pc[c] = "holding"
    BY <1>9 DEF ReleaseCount
  <2>3. /\ pc' \in [Callers -> PCs] /\ Cardinality(Tokens') = sem
        /\ Cardinality(Holders') = inflight - 1
    BY <1>1, <2>2, MoveStages DEF PCs
  <2> QED
    BY <1>1, <1>9, <2>1, <2>3 DEF ReleaseCount, IInv, TypeOK, SlotAccounting, DoneExact
<1>10. ASSUME NEW d \in Drainers, Drain(d) PROVE IInv'
  <2>1. Tokens' = Tokens /\ Holders' = Holders
    BY <1>10 DEF Drain, DrainCall, DrainReturn, DrainExpire, Tokens, Holders, At
  <2>2. CASE DrainCall(d)
    BY <1>1, <2>1, <2>2 DEF DrainCall, IInv, TypeOK, SlotAccounting, DoneExact, Drains
  <2>3. CASE DrainReturn(d)
    BY <1>1, <2>1, <2>3 DEF DrainReturn, IInv, TypeOK, SlotAccounting, DoneExact, Drains
  <2>4. CASE DrainExpire(d)
    BY <1>1, <2>1, <2>4 DEF DrainExpire, IInv, TypeOK, SlotAccounting, DoneExact, Drains
  <2> QED
    BY <1>10, <2>2, <2>3, <2>4 DEF Drain
<1>11. CASE UNCHANGED vars
  BY <1>1, <1>11
  DEF vars, IInv, TypeOK, SlotAccounting, DoneExact, Tokens, Holders, At
<1> QED
  BY <1>4, <1>5, <1>6, <1>7, <1>8, <1>9, <1>10, <1>11 DEF Next, Acquire, Release

(* Type correctness, and with it the range of the semaphore.                  *)
THEOREM PoolTypeOK == Spec => []TypeOK
<1>1. IInv => TypeOK
  BY DEF IInv
<1> QED
  BY <1>1, InitInv, NextInv, PTL DEF Spec

(* No slot is leaked or counted twice, for any number of goroutines.          *)
THEOREM PoolSlotAccounting == Spec => []SlotAccounting
<1>1. IInv => SlotAccounting
  BY DEF IInv
<1> QED
  BY <1>1, InitInv, NextInv, PTL DEF Spec

(* At most Size jobs run and the witness maxSeen never overshoots.            *)
THEOREM PoolBounded == Spec => []BoundedConcurrency
<1>1. IInv => BoundedConcurrency
  <2> SUFFICES ASSUME IInv PROVE BoundedConcurrency
    OBVIOUS
  <2>1. /\ Cardinality(Tokens) \in Nat /\ Cardinality(Holders) \in Nat
        /\ Cardinality(Holders) <= Cardinality(Tokens)
    BY FiniteAt, FS_Subset
  <2>2. Cardinality(Tokens) \in 0 .. Size /\ maxSeen <= Size
    BY DEF IInv, TypeOK, SlotAccounting
  <2> QED
    BY <2>1, <2>2, SizeAssumption DEF BoundedConcurrency
<1> QED
  BY <1>1, InitInv, NextInv, PTL DEF Spec

(* done is closed exactly when the pool is closed and empty.                  *)
THEOREM PoolDoneExact == Spec => []DoneExact
<1>1. IInv => DoneExact
  BY DEF IInv
<1> QED
  BY <1>1, InitInv, NextInv, PTL DEF Spec

(* Once done is closed the pool is closed and nobody holds a slot.            *)
LEMMA QuietWhenDone == IInv /\ done => closed /\ Holders = {}
<1> SUFFICES ASSUME IInv, done PROVE closed /\ Holders = {}
  OBVIOUS
<1>1. closed /\ inflight = 0
  BY DEF IInv, DoneExact
<1>2. Cardinality(Holders) = 0
  BY <1>1 DEF IInv, SlotAccounting
<1> QED
  BY <1>1, <1>2, FiniteAt, FS_EmptySet

(* A Drain that returned nil saw the last job end, and no job follows.        *)
THEOREM PoolDrainNilMeansQuiet == Spec => []DrainNilMeansQuiet
<1>1. IInv => DrainNilMeansQuiet
  BY QuietWhenDone DEF IInv, DrainNilMeansQuiet
<1> QED
  BY <1>1, InitInv, NextInv, PTL DEF Spec

(* The step form of every action seen through Holders: what a caller or a     *)
(* drainer does to the set of running jobs.                                   *)
LEMMA HoldersStep ==
  ASSUME IInv, [Next]_vars
  PROVE  \/ Holders' = Holders /\ UNCHANGED <<closed, done>>
         \/ \E c \in Callers :
              /\ ~closed /\ c \notin Holders /\ Cardinality(Holders) < Size
              /\ Holders' = Holders \union {c} /\ UNCHANGED <<closed, done>>
         \/ \E c \in Callers :
              /\ c \in Holders /\ Holders' = Holders \ {c} /\ UNCHANGED closed
              /\ done' = (done \/ (closed /\ Holders' = {}))
         \/ /\ closed' = TRUE /\ Holders' = Holders
            /\ done' = (done \/ Holders = {})
<1>1. TypeOK /\ SlotAccounting /\ SlotAccounting' /\ DoneExact /\ IInv'
  BY NextInv DEF IInv
<1>2. Holders = {} <=> inflight = 0
  BY <1>1, FiniteAt, FS_EmptySet DEF SlotAccounting
<1>3. IsFiniteSet(Holders')
  <2>1. Holders' \in SUBSET Callers
    BY DEF Holders, At
  <2> QED
    BY <2>1, CallersAssumption, FS_Subset
<1>4. Holders' = {} <=> inflight' = 0
  BY <1>1, <1>3, FS_EmptySet DEF SlotAccounting
<1>5. ASSUME NEW c \in Callers, AcquireCheck(c) \/ SelectSlot(c) \/ SelectCanceled(c)
                \/ SelectTimeout(c) \/ GiveBack(c) \/ ReleaseSlot(c)
      PROVE  Holders' = Holders /\ UNCHANGED <<closed, done>>
  <2>1. PICK l \in PCs \ {"holding"} : Goto(c, l) /\ pc[c] # "holding"
    BY <1>5 DEF AcquireCheck, SelectSlot, SelectCanceled, SelectTimeout, GiveBack,
       ReleaseSlot, PCs
  <2>2. Holders' = Holders
    BY <1>1, <2>1, MoveStages
  <2> QED
    BY <1>5, <2>2 DEF AcquireCheck, SelectSlot, SelectCanceled, SelectTimeout, GiveBack,
       ReleaseSlot
<1>6. ASSUME NEW c \in Callers, Commit(c), closed
      PROVE  Holders' = Holders /\ UNCHANGED <<closed, done>>
  BY <1>1, <1>6, MoveStages DEF Commit, PCs
<1>7. ASSUME NEW c \in Callers, Commit(c), ~closed
      PROVE  /\ ~closed /\ c \notin Holders /\ Cardinality(Holders) < Size
             /\ Holders' = Holders \union {c} /\ UNCHANGED <<closed, done>>
  <2>1. Goto(c, "holding") /\ pc[c] = "slot" /\ UNCHANGED <<sem, closed, done>>
    BY <1>7 DEF Commit, Admit
  <2>2. Holders' = Holders \union {c}
    BY <1>1, <2>1, MoveStages DEF PCs
  <2>3. c \in Tokens /\ c \notin Holders
    BY <2>1 DEF Tokens, Holders, At
  <2>4. Cardinality(Holders \union {c}) = Cardinality(Holders) + 1
    BY <2>3, FiniteAt, FS_AddElement
  <2>5. Cardinality(Holders \union {c}) <= Cardinality(Tokens)
    BY <2>3, FiniteAt, FS_Subset
  <2>6. Cardinality(Tokens) \in 0 .. Size
    BY <1>1 DEF TypeOK, SlotAccounting
  <2>7. Cardinality(Holders) < Size
    BY <2>4, <2>5, <2>6, FiniteAt, SizeAssumption
  <2> QED
    BY <1>7, <2>1, <2>2, <2>3, <2>7
<1>8. ASSUME NEW c \in Callers, ReleaseCount(c)
      PROVE  /\ c \in Holders /\ Holders' = Holders \ {c} /\ UNCHANGED closed
             /\ done' = (done \/ (closed /\ Holders' = {}))
  <2>1. Goto(c, "freeing") /\ pc[c] = "holding"
    BY <1>8 DEF ReleaseCount
  <2>2. Holders' = Holders \ {c}
    BY <1>1, <2>1, MoveStages DEF PCs
  <2>3. c \in Holders
    BY <2>1 DEF Holders, At
  <2>4. done' = (done \/ (closed /\ Holders' = {}))
    BY <1>4, <1>8 DEF ReleaseCount
  <2> QED
    BY <1>8, <2>2, <2>3, <2>4 DEF ReleaseCount
<1>9. ASSUME NEW d \in Drainers, DrainCall(d)
      PROVE  /\ closed' = TRUE /\ Holders' = Holders
             /\ done' = (done \/ Holders = {})
  <2>1. Holders' = Holders
    BY <1>9 DEF DrainCall, Holders, At
  <2>2. done' = (done \/ Holders = {})
    <3>1. done' = (done \/ (~closed /\ inflight = 0))
      BY <1>9 DEF DrainCall
    <3>2. done \in BOOLEAN /\ closed \in BOOLEAN /\ (done <=> (closed /\ Holders = {}))
      BY <1>1, <1>2 DEF DoneExact, TypeOK
    <3> QED
      BY <1>2, <3>1, <3>2
  <2> QED
    BY <1>9, <2>1, <2>2 DEF DrainCall
<1>10. ASSUME NEW d \in Drainers, DrainReturn(d) \/ DrainExpire(d)
       PROVE  Holders' = Holders /\ UNCHANGED <<closed, done>>
  BY <1>10 DEF DrainReturn, DrainExpire, Holders, At
<1>11. CASE UNCHANGED vars
  BY <1>11 DEF vars, Holders, At
<1> QED
  BY <1>5, <1>6, <1>7, <1>8, <1>9, <1>10, <1>11
  DEF Next, Acquire, Release, Drain

(* After the close the set of running jobs only shrinks.                      *)
THEOREM PoolClosedAdmitsNoJob == Spec => ClosedAdmitsNoJob
<1>1. IInv /\ [Next]_vars => [closed => Holders' \subseteq Holders]_vars
  BY HoldersStep
<1> QED
  BY <1>1, InitInv, NextInv, PTL DEF Spec, ClosedAdmitsNoJob

(* The mutex, the channel and the re-check of closed together implement the   *)
(* abstract pool: a commit is a Grant, the counting half of release a Return, *)
(* Drain a Close, and everything else is invisible.                           *)
THEOREM PoolImplementsSlotPool == Spec => ImplementsSlotPool
<1>1. Init => Abstract!Init
  BY DEF Init, Abstract!Init, Holders, At
<1>2. IInv /\ [Next]_vars => [Abstract!Next]_Abstract!vars
  <2> SUFFICES ASSUME IInv, [Next]_vars PROVE [Abstract!Next]_Abstract!vars
    OBVIOUS
  <2>1. CASE Holders' = Holders /\ UNCHANGED <<closed, done>>
    BY <2>1 DEF Abstract!vars
  <2>2. ASSUME NEW c \in Callers,
               ~closed, c \notin Holders, Cardinality(Holders) < Size,
               Holders' = Holders \union {c}, UNCHANGED <<closed, done>>
        PROVE  Abstract!Next
    <3>1. Abstract!Cardinality(Holders) = Cardinality(Holders)
      BY DEF Abstract!Cardinality, Cardinality
    <3> QED
      BY <2>2, <3>1 DEF Abstract!Next, Abstract!Grant
  <2>3. ASSUME NEW c \in Callers,
               c \in Holders, Holders' = Holders \ {c}, UNCHANGED closed,
               done' = (done \/ (closed /\ Holders' = {}))
        PROVE  Abstract!Next
    BY <2>3 DEF Abstract!Next, Abstract!Return
  <2>4. CASE closed' = TRUE /\ Holders' = Holders /\ done' = (done \/ Holders = {})
    BY <2>4 DEF Abstract!Next, Abstract!Close
  <2> QED
    BY HoldersStep, <2>1, <2>2, <2>3, <2>4
<1> QED
  BY <1>1, <1>2, InitInv, NextInv, PTL DEF Spec, ImplementsSlotPool, Abstract!Spec
=============================================================================
