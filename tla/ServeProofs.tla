---------------------------- MODULE ServeProofs -----------------------------
(* Theorems about Serve for any number of uploads and any pool size.  The     *)
(* inductive invariant says which promises each phase of the shutdown has     *)
(* already made (PhaseInv) and that a drained pool has no holder (PoolInv).   *)
EXTENDS Serve, TLAPS

Stopped == {"admin", "closing", "exiting", "exited"}

PhaseInv ==
  /\ phase \in {"serving", "draining"} =>
       drainErr = "none" /\ shutdownErr = "none" /\ admin # "down" /\ auditOpen
  /\ phase = "stopping" =>
       shutdownErr = "none" /\ drainErr # "none" /\ admin # "down" /\ auditOpen
  /\ phase = "admin" => shutdownErr # "none" /\ drainErr # "none" /\ admin # "down" /\ auditOpen
  /\ phase = "closing" => auditOpen
  /\ phase \in {"stopping"} \union Stopped => ~listening \/ Lossy
  /\ drainErr = "nil" => drained

PoolInv == /\ drained => closed /\ holders = {}
           /\ \A r \in Requests : req[r] = "working" => r \in holders

IInv == /\ TypeOK
        /\ PhaseInv
        /\ GracefulStop
        /\ PoolInv
        /\ LogOutlivesJobs

(* The invariant holds when the process starts.                               *)
LEMMA InitInv == Init => IInv
BY DEF Init, IInv, TypeOK, PhaseInv, PoolInv, LogOutlivesJobs, GracefulStop, Lossy, P!Init,
       P!TypeOK, Phases, Uploads, Errs, Stopped

(* A step of an upload keeps the invariant.  No upload starts once Shutdown   *)
(* was called, so nothing is in flight again after it was not.        *)
LEMMA UploadStep ==
  ASSUME IInv, NEW r \in Requests, Upload(r)
  PROVE  IInv'
<1> USE DEF IInv, TypeOK, Uploads, P!TypeOK
<1>1. UNCHANGED server
  BY DEF Upload, Arrive, BodyRead, GetSlot, SlotRefused, JobDone, PassDone, Send, Sent, SendFails
<1>2. TypeOK'
  BY <1>1 DEF server, Upload, Arrive, BodyRead, GetSlot, SlotRefused, JobDone, PassDone, Send,
     Sent, SendFails, SanitizedOrBlocked, Goto, pool, P!Grant, P!Return
<1>3. Lossy' <=> Lossy
  BY <1>1 DEF server, Lossy
<1>4. drained => drained'
  BY DEF Upload, Arrive, BodyRead, GetSlot, SlotRefused, JobDone, PassDone, Send, Sent,
     SendFails, pool, P!Grant, P!Return
<1>5. PhaseInv'
  BY <1>1, <1>3, <1>4 DEF server, PhaseInv
<1>6. ~listening => InFlight' \subseteq InFlight
  BY DEF Upload, Arrive, BodyRead, GetSlot, SlotRefused, JobDone, PassDone, Send, Sent,
     SendFails, SanitizedOrBlocked, Goto, InFlight
<1>7. GracefulStop'
  BY <1>1, <1>3, <1>6 DEF server, GracefulStop, PhaseInv, Stopped
<1>8. PoolInv'
  BY DEF PoolInv, Upload, Arrive, BodyRead, GetSlot, SlotRefused, JobDone, PassDone, Send, Sent,
     SendFails, SanitizedOrBlocked, Goto, pool, P!Grant, P!Return
<1>9. ASSUME ~auditOpen, req[r] \in {"working", "passing"} PROVE Lossy
  <2>1. phase \in Stopped
    BY <1>9 DEF PhaseInv, Phases, Stopped
  <2>2. r \in InFlight
    BY <1>9 DEF InFlight
  <2> QED
    BY <2>1, <2>2 DEF GracefulStop, Stopped
<1>10. LogOutlivesJobs'
  <2>1. CASE JobDone(r) \/ PassDone(r)
    <3>1. req[r] \in {"working", "passing"} /\ SanitizedOrBlocked(r)
      BY <2>1 DEF JobDone, PassDone
    <3> QED
      BY <1>3, <1>9, <3>1 DEF LogOutlivesJobs, SanitizedOrBlocked
  <2>2. CASE UNCHANGED unwritten
    BY <1>3, <2>2 DEF LogOutlivesJobs
  <2> QED
    BY <2>1, <2>2 DEF Upload, Arrive, BodyRead, GetSlot, SlotRefused, Send, Sent, SendFails
<1> QED
  BY <1>2, <1>5, <1>7, <1>8, <1>10

(* A step of the server keeps the invariant.  What was lost stays lost.       *)
LEMMA ServerInv ==
  ASSUME IInv, ServerStep
  PROVE  IInv'
<1> USE DEF IInv, TypeOK
<1>1. UNCHANGED uploads
  BY DEF ServerStep, Signal, ListenError, AdminListenError, Expire, DrainReturns,
     ShutdownReturns, AdminShutdown,
     ShutDown, CloseAudit, Exit
<1>2. TypeOK'
  <2>1. CASE Signal \/ ListenError \/ AdminListenError \/ Expire
    BY <1>1, <2>1 DEF uploads, Signal, ListenError, AdminListenError, Expire, Phases, pool, P!Close,
       P!TypeOK
  <2>2. CASE DrainReturns \/ ShutdownReturns
    BY <1>1, <2>2 DEF uploads, DrainReturns, ShutdownReturns, Phases, Errs, pool, P!TypeOK
  <2>3. CASE AdminShutdown \/ CloseAudit \/ Exit
    BY <1>1, <2>3 DEF uploads, AdminShutdown, ShutDown, CloseAudit, Exit, Phases, pool, P!TypeOK
  <2> QED
    BY <2>1, <2>2, <2>3 DEF ServerStep
<1>3. PhaseInv'
  BY DEF PhaseInv, Lossy, Stopped, ServerStep, Signal, ListenError, AdminListenError, Expire,
     DrainReturns, ShutdownReturns, AdminShutdown, ShutDown, CloseAudit, Exit, pool, P!Close,
     P!TypeOK
<1>4. Lossy => Lossy'
  BY DEF PhaseInv, Lossy, ServerStep, Signal, ListenError, AdminListenError, Expire, DrainReturns,
     ShutdownReturns, AdminShutdown, ShutDown, CloseAudit, Exit
<1>5. InFlight' = InFlight
  BY <1>1 DEF uploads, InFlight
<1>6. GracefulStop'
  BY <1>4, <1>5 DEF GracefulStop, Lossy, PhaseInv, ServerStep, Signal, ListenError,
     AdminListenError, Expire, DrainReturns, ShutdownReturns, AdminShutdown, ShutDown,
     CloseAudit, Exit
<1>7. PoolInv'
  <2>1. CASE Signal
    BY <1>1, <2>1 DEF uploads, PoolInv, Signal, P!Close, P!TypeOK
  <2>2. CASE UNCHANGED pool
    BY <1>1, <2>2 DEF uploads, PoolInv, pool
  <2> QED
    BY <2>1, <2>2 DEF ServerStep, ListenError, AdminListenError, Expire, DrainReturns,
     ShutdownReturns, AdminShutdown, ShutDown, CloseAudit, Exit, pool, P!Close
<1>8. LogOutlivesJobs'
  BY <1>1, <1>4 DEF uploads, LogOutlivesJobs
<1> QED
  BY <1>2, <1>3, <1>6, <1>7, <1>8

(* Every step of the process keeps the invariant.                             *)
LEMMA NextInv == IInv /\ [Next]_vars => IInv'
<1> SUFFICES ASSUME IInv, [Next]_vars PROVE IInv'
  OBVIOUS
<1>1. CASE UNCHANGED vars
  BY <1>1 DEF vars, server, uploads, pool, IInv, TypeOK, PhaseInv, PoolInv, LogOutlivesJobs,
     GracefulStop, Lossy, InFlight, P!TypeOK
<1> QED
  BY <1>1, UploadStep, ServerInv DEF Next

(* What each phase of the shutdown has promised holds in every state.         *)
THEOREM ServeInvariant == Spec => []IInv
BY InitInv, NextInv, PTL DEF Spec

(* A stop that ran into no deadline and no listener error loses no upload.    *)
THEOREM ServeGracefulStop == Spec => []GracefulStop
<1>1. IInv => GracefulStop
  BY DEF IInv
<1> QED
  BY <1>1, ServeInvariant, PTL

(* The admin listener outlives the uploads that such a stop waits for.        *)
THEOREM ServeAdminOutlivesUploads == Spec => []AdminOutlivesUploads
<1>1. IInv => AdminOutlivesUploads
  BY DEF IInv, TypeOK, Phases, PhaseInv, GracefulStop, AdminOutlivesUploads
<1> QED
  BY <1>1, ServeInvariant, PTL

(* A stop closes the log under a job only after it gave up on somebody.       *)
THEOREM ServeLogOutlivesJobs == Spec => []LogOutlivesJobs
<1>1. IInv => LogOutlivesJobs
  BY DEF IInv
<1> QED
  BY <1>1, ServeInvariant, PTL
=============================================================================
