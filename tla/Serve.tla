------------------------------- MODULE Serve --------------------------------
(* cmd/redact-gateway: the life of the process.  serve listens until a signal *)
(* comes, then drains the pool, shuts the proxy server down and shuts the     *)
(* admin server down, all three under one deadline; run's deferred closeAudit *)
(* and the exit follow.  Uploads keep arriving and running meanwhile: the     *)
(* listener stays open during the drain, and an upload gives its slot back    *)
(* before it forwards.  An upload is one item here, the pool is SlotPool.     *)
(*                                                                            *)
(* An operator whose comment starts with FAULT is a bug that could have been  *)
(* written in place of the definition below it; no specification uses it.     *)
EXTENDS Naturals, FiniteSets

CONSTANTS Requests,   \* uploads
          PoolSize,   \* worker_pool_size
          FailOpen    \* the uploads that match a fail-open route

ASSUME PoolSizeAssumption == PoolSize \in Nat \ {0}
ASSUME FailOpenAssumption == FailOpen \subseteq Requests

VARIABLES phase,         \* where run and serve stand
          expired,       \* drainCtx is done
          drainErr,      \* what Drain returned
          shutdownErr,   \* what srv.Shutdown returned
          listening,     \* requests are accepted, on new connections or kept ones
          admin,         \* the admin server: "up", shut "down", or "none"
          auditOpen,     \* the audit log is not closed
          req,           \* where each upload stands
          origin,        \* what the origin has of it
          unwritten,     \* the uploads whose entry met a closed audit log
          holders, closed, drained    \* the pool

pool == <<holders, closed, drained>>
server == <<phase, expired, drainErr, shutdownErr, listening, admin, auditOpen>>
uploads == <<req, origin, unwritten>>
vars == <<server, uploads, pool>>

P == INSTANCE SlotPool WITH Callers <- Requests, Size <- PoolSize

Phases == {"serving", "draining", "stopping", "admin", "closing", "exiting", "exited"}
Uploads == {"none",
            "reading",    \* accepted; the client sends its body, at its own pace
            "waiting",    \* in pool.Acquire
            "working",    \* holds a slot
            "passing",    \* an image on a pass route: no slot, but an audit entry
            "sending",    \* in client.Do
            "answered"}
Errs == {"none", "nil", "deadline"}

TypeOK == /\ phase \in Phases
          /\ drainErr \in Errs /\ shutdownErr \in Errs
          /\ expired \in BOOLEAN /\ listening \in BOOLEAN
          /\ admin \in {"up", "down", "none"} /\ auditOpen \in BOOLEAN
          /\ req \in [Requests -> Uploads]
          /\ origin \in [Requests -> {"nothing", "partial", "complete"}]
          /\ unwritten \subseteq Requests
          /\ P!TypeOK

ShutDown(a) == IF a = "up" THEN "down" ELSE a
InFlight == {r \in Requests : req[r] \notin {"none", "answered"}}

\* Without metrics_listen there is no admin server.
Init == /\ phase = "serving"
        /\ expired = FALSE
        /\ drainErr = "none" /\ shutdownErr = "none"
        /\ listening = TRUE /\ auditOpen = TRUE
        /\ admin \in {"up", "none"}
        /\ req = [r \in Requests |-> "none"]
        /\ origin = [r \in Requests |-> "nothing"]
        /\ unwritten = {}
        /\ P!Init

-----------------------------------------------------------------------------
(* An upload; nothing of it moves any more once the process has exited.       *)

Goto(r, s) == phase # "exited" /\ req' = [req EXCEPT ![r] = s]

Arrive(r) == /\ listening
             /\ req[r] = "none"
             /\ Goto(r, "reading")
             /\ UNCHANGED <<server, origin, unwritten, pool>>

\* The body is in memory: refused, or on to what its route and content need.
BodyRead(r) == /\ req[r] = "reading"
               /\ \E s \in {"answered", "sending", "waiting", "passing"} : Goto(r, s)
               /\ UNCHANGED <<server, origin, unwritten, pool>>

GetSlot(r) == /\ req[r] = "waiting"
              /\ P!Grant(r)
              /\ Goto(r, "working")
              /\ UNCHANGED <<server, origin, unwritten>>

\* The client has gone, the acquire timer has fired or the pool is draining.
SlotRefused(r) == /\ req[r] = "waiting"
                  /\ Goto(r, "answered")
                  /\ UNCHANGED <<server, origin, unwritten, pool>>

\* The end of the image's work: it is blocked or, on a fail-open route, goes on
\* without an entry; its entry is written and it goes on; or the entry meets a
\* closed log, and again only a fail-open route goes on.
SanitizedOrBlocked(r) ==
  \/ Goto(r, "answered") /\ UNCHANGED unwritten
  \/ (auditOpen \/ r \in FailOpen) /\ Goto(r, "sending") /\ UNCHANGED unwritten
  \/ /\ ~auditOpen
     /\ Goto(r, IF r \in FailOpen THEN "sending" ELSE "answered")
     /\ unwritten' = unwritten \union {r}

\* FAULT: a blocked image keeps its slot.
JobDoneLeaks(r) == /\ req[r] = "working"
                   /\ SanitizedOrBlocked(r)
                   /\ IF req'[r] = "sending" THEN P!Return(r) ELSE UNCHANGED pool
                   /\ UNCHANGED <<server, origin>>

JobDone(r) == /\ req[r] = "working"
              /\ P!Return(r)
              /\ SanitizedOrBlocked(r)
              /\ UNCHANGED <<server, origin>>

PassDone(r) == /\ req[r] = "passing"
               /\ SanitizedOrBlocked(r)
               /\ UNCHANGED <<server, origin, pool>>

Send(r) == /\ req[r] = "sending"
           /\ origin[r] = "nothing"
           /\ origin' = [origin EXCEPT ![r] = "partial"]
           /\ Goto(r, "sending")
           /\ UNCHANGED <<server, unwritten, pool>>

Sent(r) == /\ req[r] = "sending"
           /\ origin' = [origin EXCEPT ![r] = "complete"]
           /\ Goto(r, "answered")
           /\ UNCHANGED <<server, unwritten, pool>>

SendFails(r) == /\ req[r] = "sending"
                /\ Goto(r, "answered")
                /\ UNCHANGED <<server, origin, unwritten, pool>>

-----------------------------------------------------------------------------
(* The server.                                                                *)

\* SIGINT or SIGTERM: the deadline starts and Drain closes the pool.
Signal == /\ phase = "serving"
          /\ phase' = "draining"
          /\ P!Close
          /\ UNCHANGED <<expired, drainErr, shutdownErr, listening, admin, auditOpen, uploads>>

\* ListenAndServe fails: serve returns at once, there is no drain and no Shutdown.
\* Connections that are kept alive may still bring requests.
ListenError == /\ phase = "serving"
               /\ phase' = "closing"
               /\ UNCHANGED <<expired, drainErr, shutdownErr, listening, admin, auditOpen, uploads,
                              pool>>

\* The admin listener fails: that is logged and nothing else.
AdminListenError == /\ phase # "exited"
                    /\ admin = "up" /\ admin' = "none"
                    /\ UNCHANGED <<phase, expired, drainErr, shutdownErr, listening, auditOpen,
                                   uploads, pool>>

\* The one deadline of drainCtx, for Drain and both Shutdown calls.
Expire == /\ phase \in {"draining", "stopping", "admin"}
          /\ expired' = TRUE
          /\ UNCHANGED <<phase, drainErr, shutdownErr, listening, admin, auditOpen, uploads,
                         pool>>

\* FAULT: the audit log is closed when the last image job is done.
DrainReturnsAuditClosed ==
  /\ phase = "draining"
  /\ \/ drained /\ drainErr' = "nil"
     \/ expired /\ drainErr' = "deadline"
  /\ phase' = "stopping" /\ listening' = FALSE /\ auditOpen' = FALSE
  /\ UNCHANGED <<expired, shutdownErr, admin, uploads, pool>>

\* FAULT: the admin server goes with the pool.
DrainReturnsAdminDown ==
  /\ phase = "draining"
  /\ \/ drained /\ drainErr' = "nil"
     \/ expired /\ drainErr' = "deadline"
  /\ phase' = "stopping" /\ listening' = FALSE /\ admin' = ShutDown(admin)
  /\ UNCHANGED <<expired, shutdownErr, auditOpen, uploads, pool>>

\* FAULT: Shutdown is called, but not on the server that listens.
DrainReturnsListening ==
  /\ phase = "draining"
  /\ \/ drained /\ drainErr' = "nil"
     \/ expired /\ drainErr' = "deadline"
  /\ phase' = "stopping"
  /\ UNCHANGED <<expired, shutdownErr, listening, admin, auditOpen, uploads, pool>>

\* Drain returns, whichever way, and srv.Shutdown is called, which first closes
\* the listener.
DrainReturns ==
  /\ phase = "draining"
  /\ \/ drained /\ drainErr' = "nil"
     \/ expired /\ drainErr' = "deadline"
  /\ phase' = "stopping" /\ listening' = FALSE
  /\ UNCHANGED <<expired, shutdownErr, admin, auditOpen, uploads, pool>>

\* FAULT: Shutdown is given a context without the deadline.
ShutdownReturnsIdleOnly ==
  /\ phase = "stopping"
  /\ InFlight = {} /\ shutdownErr' = "nil"
  /\ phase' = "admin"
  /\ UNCHANGED <<expired, drainErr, listening, admin, auditOpen, uploads, pool>>

\* Shutdown waits until every connection is idle, or for the deadline.
ShutdownReturns ==
  /\ phase = "stopping"
  /\ \/ InFlight = {} /\ shutdownErr' = "nil"
     \/ expired /\ shutdownErr' = "deadline"
  /\ phase' = "admin"
  /\ UNCHANGED <<expired, drainErr, listening, admin, auditOpen, uploads, pool>>

\* A scrape is short: the wait of admin.Shutdown is left out.
AdminShutdown == /\ phase = "admin"
                 /\ phase' = "closing" /\ admin' = ShutDown(admin)
                 /\ UNCHANGED <<expired, drainErr, shutdownErr, listening, auditOpen, uploads,
                                pool>>

\* Closing does nothing to a log that is stdout.
CloseAudit == /\ phase = "closing"
              /\ phase' = "exiting" /\ auditOpen' \in BOOLEAN
              /\ UNCHANGED <<expired, drainErr, shutdownErr, listening, admin, uploads, pool>>

Exit == /\ phase = "exiting"
        /\ phase' = "exited"
        /\ listening' = FALSE /\ admin' = ShutDown(admin)
        /\ UNCHANGED <<expired, drainErr, shutdownErr, auditOpen, uploads, pool>>

Upload(r) == \/ Arrive(r) \/ BodyRead(r) \/ GetSlot(r) \/ SlotRefused(r) \/ JobDone(r)
             \/ PassDone(r) \/ Send(r) \/ Sent(r) \/ SendFails(r)
ServerStep == \/ Signal \/ ListenError \/ AdminListenError \/ Expire \/ DrainReturns
              \/ ShutdownReturns \/ AdminShutdown \/ CloseAudit \/ Exit
Next == ServerStep \/ \E r \in Requests : Upload(r)

Spec == Init /\ [][Next]_vars

\* The main goroutine runs.
MainRuns == /\ WF_vars(DrainReturns) /\ WF_vars(ShutdownReturns) /\ WF_vars(AdminShutdown)
            /\ WF_vars(CloseAudit) /\ WF_vars(Exit)

RunSpec == Spec /\ MainRuns

\* The deadline comes.
DeadlineComes == WF_vars(Expire)

\* Uploads end: bodies, detectors and origins do, and waiters are served in turn.
UploadsEnd == \A r \in Requests :
  /\ WF_vars(BodyRead(r)) /\ WF_vars(closed /\ SlotRefused(r)) /\ SF_vars(GetSlot(r))
  /\ WF_vars(JobDone(r)) /\ WF_vars(PassDone(r)) /\ WF_vars(Sent(r) \/ SendFails(r))

-----------------------------------------------------------------------------
\* Shutdown gave up on somebody, or the listener failed and nobody was waited for.
Lossy == \/ shutdownErr = "deadline"
         \/ drainErr = "none" /\ phase \in {"closing", "exiting", "exited"}

(* A stop loses no upload unless the deadline was hit in Shutdown or the      *)
(* listener failed: in all other cases nothing is in flight when the log is   *)
(* closed and the process exits, whatever arrived while the pool drained.     *)
GracefulStop == phase \in {"admin", "closing", "exiting", "exited"} =>
                  InFlight = {} \/ Lossy

(* As long as an upload is in flight the shutdown leaves the metrics and the  *)
(* health check readable, unless the loss of an upload is already decided.    *)
AdminOutlivesUploads == admin = "down" => InFlight = {} \/ Lossy

(* No entry of an image meets a closed audit log in a graceful stop: the log  *)
(* outlives every job, also the pass-route images that hold no slot and that  *)
(* Drain does not wait for.                                                   *)
LogOutlivesJobs == unwritten # {} => Lossy

(* The signal ends the process: by the deadline when uploads hang (a silent   *)
(* client, an OCR adapter, a silent origin), and by the uploads' end, however *)
(* far the deadline is.                                                       *)
SignalStops == DeadlineComes \/ UploadsEnd => ((phase = "draining") ~> (phase = "exited"))

(* If uploads can end, every one that was accepted is answered or the process *)
(* ends first: none is left waiting for a slot.                               *)
UploadAnswered == UploadsEnd =>
  \A r \in Requests : (req[r] = "reading") ~> (req[r] = "answered" \/ phase = "exited")

=============================================================================
