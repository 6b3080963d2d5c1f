------------------------------ MODULE SlotPool ------------------------------
(* What internal/pool/pool.go promises the rest of the gateway: at most Size  *)
(* callers hold a job slot, a slot is granted only while the pool is open,    *)
(* and `drained` becomes true, once and for ever, when the pool is closed and *)
(* the last holder has returned its slot.  Pool.tla is shown to implement it; *)
(* Gateway.tla and Serve.tla use it in place of the channel and the mutex.    *)
EXTENDS Naturals, FiniteSets

CONSTANTS Callers,   \* goroutines that may ask for a slot
          Size       \* worker_pool_size: the capacity of the semaphore

VARIABLES holders,   \* callers between a granted Acquire and its release
          closed,    \* Drain has begun
          drained    \* the done channel has been closed

vars == <<holders, closed, drained>>

TypeOK == /\ holders \subseteq Callers
          /\ closed \in BOOLEAN
          /\ drained \in BOOLEAN

Init == holders = {} /\ closed = FALSE /\ drained = FALSE

Grant(c) == /\ ~closed
            /\ c \notin holders
            /\ Cardinality(holders) < Size
            /\ holders' = holders \union {c}
            /\ UNCHANGED <<closed, drained>>

Return(c) == /\ c \in holders
             /\ holders' = holders \ {c}
             /\ drained' = (drained \/ (closed /\ holders' = {}))
             /\ UNCHANGED closed

Close == /\ closed' = TRUE
         /\ drained' = (drained \/ holders = {})
         /\ UNCHANGED holders

Next == Close \/ \E c \in Callers : Grant(c) \/ Return(c)

Spec == Init /\ [][Next]_vars
=============================================================================
