-------------------------------- MODULE Pool --------------------------------
(* internal/pool/pool.go: the bounded pool of image jobs.  A buffered channel *)
(* `sem` counts slots; a mutex guards closed, inflight, maxSeen and the       *)
(* closing of `done`.  Each critical section is one action, and so is each    *)
(* channel operation: between two of them any other goroutine may run.        *)
(*                                                                            *)
(* An operator whose comment starts with FAULT is a bug that could have been  *)
(* written in place of the definition below it; no specification uses it.     *)
EXTENDS Naturals, FiniteSets

CONSTANTS Callers,     \* goroutines that call Acquire, each for one job at a time
          Drainers,    \* goroutines that call Drain
          Size,        \* cap(p.sem); New raises a size below 1 to 1
          HasTimeout   \* acquireTimeout > 0; otherwise Acquire may wait for ever

ASSUME CallersAssumption == IsFiniteSet(Callers)
ASSUME SizeAssumption == Size \in Nat \ {0}
ASSUME HasTimeoutAssumption == HasTimeout \in BOOLEAN

VARIABLES sem,        \* len(p.sem): tokens in the channel
          closed,     \* p.closed
          inflight,   \* p.inflight
          maxSeen,    \* p.maxSeen
          done,       \* the channel p.done is closed
          pc,         \* where each caller stands
          result,     \* what its last Acquire returned
          drain       \* where each Drain call stands, then what it returned

vars == <<sem, closed, inflight, maxSeen, done, pc, result, drain>>

PCs == {"idle",      \* not in the pool
        "select",    \* in the select of Acquire
        "slot",      \* has sent to sem, not yet locked for the second time
        "giveback",  \* has seen closed, about to receive from sem
        "holding",   \* Acquire has returned its release function
        "freeing"}   \* release has unlocked, about to receive from sem

Results == {"none", "release", "ErrDraining", "ErrBackpressure", "canceled"}
Drains == {"idle", "waiting", "nil", "expired"}

At(S) == {c \in Callers : pc[c] \in S}
Holders == At({"holding"})                                \* the running jobs
Tokens == At({"slot", "giveback", "holding", "freeing"})  \* owners of a token

TypeOK == /\ sem \in 0 .. Size
          /\ closed \in BOOLEAN
          /\ inflight \in Nat
          /\ maxSeen \in Nat
          /\ done \in BOOLEAN
          /\ pc \in [Callers -> PCs]
          /\ result \in [Callers -> Results]
          /\ drain \in [Drainers -> Drains]

Init == /\ sem = 0
        /\ closed = FALSE
        /\ inflight = 0
        /\ maxSeen = 0
        /\ done = FALSE
        /\ pc = [c \in Callers |-> "idle"]
        /\ result = [c \in Callers |-> "none"]
        /\ drain = [d \in Drainers |-> "idle"]

Goto(c, l) == pc' = [pc EXCEPT ![c] = l]
Returns(c, r) == result' = [result EXCEPT ![c] = r]

\* The first critical section of Acquire.
AcquireCheck(c) ==
  /\ pc[c] = "idle"
  /\ IF closed
     THEN Goto(c, "idle") /\ Returns(c, "ErrDraining")
     ELSE Goto(c, "select") /\ Returns(c, "none")
  /\ UNCHANGED <<sem, closed, inflight, maxSeen, done, drain>>

\* The select, first case: a send needs room in the channel.
SelectSlot(c) ==
  /\ pc[c] = "select"
  /\ sem < Size
  /\ sem' = sem + 1
  /\ Goto(c, "slot")
  /\ UNCHANGED <<closed, inflight, maxSeen, done, result, drain>>

\* The select, second case: the client may go away at any time.
SelectCanceled(c) ==
  /\ pc[c] = "select"
  /\ Goto(c, "idle") /\ Returns(c, "canceled")
  /\ UNCHANGED <<sem, closed, inflight, maxSeen, done, drain>>

\* FAULT: the timer channel stays nil, so a saturated wait never ends.
SelectTimeoutNever(c) ==
  /\ HasTimeout /\ FALSE
  /\ pc[c] = "select"
  /\ UNCHANGED vars

\* The select, third case: the timer, if there is one, may fire at any time.
SelectTimeout(c) ==
  /\ HasTimeout
  /\ pc[c] = "select"
  /\ Goto(c, "idle") /\ Returns(c, "ErrBackpressure")
  /\ UNCHANGED <<sem, closed, inflight, maxSeen, done, drain>>

Admit(c) ==
  /\ inflight' = inflight + 1
  /\ maxSeen' = IF inflight' > maxSeen THEN inflight' ELSE maxSeen
  /\ Goto(c, "holding") /\ Returns(c, "release")

\* FAULT: closed is not read again after the slot was won.
CommitUnchecked(c) ==
  /\ pc[c] = "slot"
  /\ Admit(c)
  /\ UNCHANGED <<sem, closed, done, drain>>

\* The second critical section of Acquire, after the send.
Commit(c) ==
  /\ pc[c] = "slot"
  /\ IF closed
     THEN Goto(c, "giveback") /\ UNCHANGED <<inflight, maxSeen, result>>
     ELSE Admit(c)
  /\ UNCHANGED <<sem, closed, done, drain>>

\* FAULT: the refused caller returns without giving its token back.
GiveBackForgotten(c) ==
  /\ pc[c] = "giveback"
  /\ Goto(c, "idle") /\ Returns(c, "ErrDraining")
  /\ UNCHANGED <<sem, closed, inflight, maxSeen, done, drain>>

\* A refused caller receives its token back from the channel.
GiveBack(c) ==
  /\ pc[c] = "giveback"
  /\ sem' = sem - 1
  /\ Goto(c, "idle") /\ Returns(c, "ErrDraining")
  /\ UNCHANGED <<closed, inflight, maxSeen, done, drain>>

\* FAULT: the order release warns about: the token goes back first.
ReleaseCountLate(c) ==
  /\ pc[c] = "holding"
  /\ sem' = sem - 1
  /\ Goto(c, "idle")
  /\ UNCHANGED <<closed, inflight, maxSeen, done, result, drain>>

\* FAULT: the last job to finish does not close done.
ReleaseCountSilent(c) ==
  /\ pc[c] = "holding"
  /\ inflight' = inflight - 1
  /\ Goto(c, "freeing")
  /\ UNCHANGED <<sem, closed, maxSeen, done, result, drain>>

\* FAULT: done is closed by the first job to finish after the close.
ReleaseCountEarly(c) ==
  /\ pc[c] = "holding"
  /\ inflight' = inflight - 1
  /\ done' = (done \/ closed)
  /\ Goto(c, "freeing")
  /\ UNCHANGED <<sem, closed, maxSeen, result, drain>>

\* release: the critical section, run when the job finishes.
ReleaseCount(c) ==
  /\ pc[c] = "holding"
  /\ inflight' = inflight - 1
  /\ done' = (done \/ (closed /\ inflight' = 0))
  /\ Goto(c, "freeing")
  /\ UNCHANGED <<sem, closed, maxSeen, result, drain>>

\* release: the token goes back after the unlock.
ReleaseSlot(c) ==
  /\ pc[c] = "freeing"
  /\ sem' = sem - 1
  /\ Goto(c, "idle")
  /\ UNCHANGED <<closed, inflight, maxSeen, done, result, drain>>

\* Drain: the critical section.
DrainCall(d) ==
  /\ drain[d] = "idle"
  /\ closed' = TRUE
  /\ done' = (done \/ (~closed /\ inflight = 0))
  /\ drain' = [drain EXCEPT ![d] = "waiting"]
  /\ UNCHANGED <<sem, inflight, maxSeen, pc, result>>

\* Drain: the select.  Both cases may be ready; Go picks either.
DrainReturn(d) ==
  /\ drain[d] = "waiting"
  /\ done
  /\ drain' = [drain EXCEPT ![d] = "nil"]
  /\ UNCHANGED <<sem, closed, inflight, maxSeen, done, pc, result>>

\* FAULT: Drain waits on done alone.
DrainExpireNever(d) ==
  /\ drain[d] = "waiting" /\ FALSE
  /\ UNCHANGED vars

DrainExpire(d) ==
  /\ drain[d] = "waiting"
  /\ drain' = [drain EXCEPT ![d] = "expired"]
  /\ UNCHANGED <<sem, closed, inflight, maxSeen, done, pc, result>>

Acquire(c) == \/ AcquireCheck(c) \/ SelectSlot(c) \/ SelectCanceled(c)
              \/ SelectTimeout(c) \/ Commit(c) \/ GiveBack(c)
Release(c) == ReleaseCount(c) \/ ReleaseSlot(c)
Drain(d) == DrainCall(d) \/ DrainReturn(d) \/ DrainExpire(d)

Next == \/ \E c \in Callers : Acquire(c) \/ Release(c)
        \/ \E d \in Drainers : Drain(d)

Spec == Init /\ [][Next]_vars

-----------------------------------------------------------------------------
(* Fairness.  A goroutine that can run does run, and the mutex is starvation- *)
(* free, so each critical section and each ready receive is weakly fair.      *)
Runs == /\ \A c \in Callers : /\ WF_vars(Commit(c))
                              /\ WF_vars(GiveBack(c))
                              /\ WF_vars(ReleaseSlot(c))
        /\ \A d \in Drainers : WF_vars(DrainReturn(d))

RunSpec == Spec /\ Runs

\* Blocked senders of a Go channel are served first come first served: a send
\* that is possible again and again is made.  Every job ends.
JobsFinish == \A c \in Callers : SF_vars(SelectSlot(c)) /\ WF_vars(ReleaseCount(c))

\* Timers fire, but a job (an OCR adapter, say) may hang for ever.
TimersFire == /\ \A c \in Callers : WF_vars(SelectTimeout(c))
              /\ \A d \in Drainers : WF_vars(DrainExpire(d))

-----------------------------------------------------------------------------
(* The channel and the counter never drift apart: every token in sem belongs  *)
(* to exactly one goroutine and inflight is the number of running jobs, so no *)
(* path through Acquire, the raced Drain or release leaks or doubles a slot.  *)
SlotAccounting == /\ sem = Cardinality(Tokens)
                  /\ inflight = Cardinality(Holders)

(* No more than Size jobs run, and MaxInFlight, which the tests trust as the  *)
(* witness of that bound, never overshoots either (the comment in release).   *)
BoundedConcurrency == /\ Cardinality(Holders) <= Size
                      /\ maxSeen <= Size

(* done is closed exactly when the pool is closed and no job runs: neither    *)
(* early, while a late Acquire may still commit, nor forgotten.               *)
DoneExact == done <=> (closed /\ inflight = 0)

(* When Drain has returned nil, no job is running nor will ever run again.    *)
DrainNilMeansQuiet == (\E d \in Drainers : drain[d] = "nil") => closed /\ Holders = {}

(* From the moment Drain has closed the pool no new job starts, not even for  *)
(* a caller that passed the first check before the close.                     *)
ClosedAdmitsNoJob == [][closed => Holders' \subseteq Holders]_vars

(* A waiter gets an answer: through a slot while jobs finish, without any     *)
(* timer, and through the timer when they hang.                               *)
AcquireReturns == JobsFinish \/ TimersFire =>
  \A c \in Callers : (pc[c] = "select") ~> (pc[c] \in {"idle", "holding"})

(* Drain returns: by done, which the last job closes, when the jobs finish,   *)
(* and by its deadline when they hang.                                        *)
DrainReturns == JobsFinish \/ TimersFire =>
  \A d \in Drainers : (drain[d] = "waiting") ~> (drain[d] \in {"nil", "expired"})

(* The pool implements its promise: what holders, closed and drained do is    *)
(* what SlotPool allows.                                                      *)
Abstract == INSTANCE SlotPool WITH holders <- Holders, drained <- done
ImplementsSlotPool == Abstract!Spec
=============================================================================
