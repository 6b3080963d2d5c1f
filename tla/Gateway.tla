------------------------------ MODULE Gateway -------------------------------
(* internal/proxy: one upload from ServeHTTP to the origin and back.  Every   *)
(* part of a multipart body (or the one raw body) is an item; its goroutine   *)
(* sniffs it, waits for a pool slot if it must be decoded, and runs           *)
(* SanitizeImage.  When all items have ended the request either writes an     *)
(* error or forwards.  The pool is SlotPool, which Pool is proved to          *)
(* implement.  An action of an item is the code between two points where      *)
(* another goroutine's step can matter: the pool, the client's context and    *)
(* the audit log.                                                             *)
(*                                                                            *)
(* An operator whose comment starts with FAULT is a bug that could have been  *)
(* written in place of the definition below it; no specification uses it.     *)
EXTENDS Integers, FiniteSets, FiniteSetsExt

CONSTANTS Requests,     \* uploads
          MaxParts,     \* bound on the parts of a multipart body
          PoolSize,     \* worker_pool_size
          HasTimeout,   \* acquire_timeout > 0
          MaxRegions,   \* bound on the regions detectors report for one image
          Kinds,        \* the contents an item can have, a subset of AllKinds
          Routes        \* the configured routes

Formats == {"jpeg", "png", "gif"}
Actions == {"redact", "blur", "drop", "pass"}
AllKinds == {"text", "jpeg", "png", "gif", "corrupt", "bomb"}

ASSUME MaxPartsAssumption == MaxParts \in Nat \ {0}
ASSUME PoolSizeAssumption == PoolSize \in Nat \ {0}
ASSUME HasTimeoutAssumption == HasTimeout \in BOOLEAN
ASSUME MaxRegionsAssumption == MaxRegions \in Nat
ASSUME KindsAssumption == Kinds \subseteq AllKinds /\ "text" \in Kinds
ASSUME RoutesAssumption ==
  /\ Routes # {}
  /\ Routes \subseteq [action : Actions, failOpen : BOOLEAN, strip : BOOLEAN,
                       accepted : SUBSET Formats]

Items == Requests \X (1 .. MaxParts)

VARIABLES
  phase,      \* per request: "idle", "working", "sending", "ended"
  route,      \* the matched route
  multi,      \* the body is multipart
  parts,      \* len(payload.Parts); 1 for a raw body
  canceled,   \* the client has gone: the request's context is done
  origin,     \* what the origin has received: "nothing", "partial", "complete"
  status,     \* what the client was answered; "origin" relays the response
  redacted,   \* X-Redacted-Count of the answer, -1 when the header is absent
  kind,       \* per item: its content
  stage,      \* where its goroutine stands
  work,       \* the output it has built and the number of its regions
  outcome,    \* what sanitizeItem returned for it
  holders, closed, drained,                \* the pool
  processed, blocked, sanitized, regionsMasked,   \* the counters of metrics.go
  byReason,   \* blockedByReason
  audited     \* complete lines of the audit log

pool == <<holders, closed, drained>>
counters == <<processed, blocked, sanitized, regionsMasked, byReason>>
requestVars == <<phase, route, multi, parts, canceled, origin, status, redacted>>
itemVars == <<kind, stage, work, outcome>>
vars == <<requestVars, itemVars, pool, counters, audited>>

P == INSTANCE SlotPool WITH Callers <- Items, Size <- PoolSize

Phases == {"idle", "working", "sending", "ended"}
Stages == {"absent",     \* no such part
           "new",        \* parsed, goroutine started
           "want",       \* in pool.Acquire
           "admitted",   \* about to enter SanitizeImage
           "detect",     \* decoded
           "seal",       \* output known, still to be encoded and audited
           "done",       \* SanitizeImage has returned, the slot is still held
           "end"}        \* sanitizeItem has returned
Statuses == {"none", "502", "413", "422", "415", "503", "origin"}
Forms == {"none", "original", "stripped", "masked"}
Errors == {"nil", "block", "drop", "busy", "media"}
Reasons == {"decode", "unsupported_format", "too_large", "detector_error",
            "strip", "encode", "audit", "policy", "canceled"}
\* "unset" is ReasonUnset.  `cause` is also kept for an item a fail-open route
\* let through, where the code drops it: a history field.
Outcomes == [err : Errors, form : Forms, boxes : Nat, cause : Reasons \union {"unset"}]

TypeOK ==
  /\ phase \in [Requests -> Phases]
  /\ route \in [Requests -> Routes]
  /\ multi \in [Requests -> BOOLEAN]
  /\ parts \in [Requests -> 0 .. MaxParts]
  /\ canceled \in [Requests -> BOOLEAN]
  /\ origin \in [Requests -> {"nothing", "partial", "complete"}]
  /\ status \in [Requests -> Statuses]
  /\ kind \in [Items -> Kinds]
  /\ stage \in [Items -> Stages]
  /\ work \in [Items -> [form : Forms, boxes : Nat]]
  /\ outcome \in [Items -> Outcomes]
  /\ P!TypeOK
  /\ processed \in Nat /\ blocked \in Nat /\ sanitized \in Nat /\ regionsMasked \in Nat
  /\ byReason \in [Reasons -> Nat]
  /\ audited \subseteq [item : Items, form : Forms, boxes : Nat]

ItemsOf(r) == {<<r, i>> : i \in 1 .. parts[r]}
IsImage(it) == kind[it] # "text"
Route(it) == route[it[1]]
Masks(rt) == rt.action \in {"redact", "blur"}

\* What the magic bytes say: a corrupt image begins like a JPEG, a bomb like a PNG.
SniffFormat(k) == CASE k \in {"jpeg", "corrupt"} -> "jpeg"
                    [] k \in {"png", "bomb"} -> "png"
                    [] OTHER -> "gif"
FormatAllowed(rt, k) == rt.accepted = {} \/ SniffFormat(k) \in rt.accepted

NeedsSlot(it) == Masks(Route(it)) /\ IsImage(it)

NoOutcome == [err |-> "nil", form |-> "none", boxes |-> 0, cause |-> "unset"]
Refusal(e, why) == [err |-> e, form |-> "none", boxes |-> 0, cause |-> why]
Output(f, n, why) == [err |-> "nil", form |-> f, boxes |-> n, cause |-> why]
Nothing == [form |-> "none", boxes |-> 0]

Init ==
  /\ phase = [r \in Requests |-> "idle"]
  /\ route = [r \in Requests |-> CHOOSE rt \in Routes : TRUE]
  /\ multi = [r \in Requests |-> FALSE]
  /\ parts = [r \in Requests |-> 0]
  /\ canceled = [r \in Requests |-> FALSE]
  /\ origin = [r \in Requests |-> "nothing"]
  /\ status = [r \in Requests |-> "none"]
  /\ redacted = [r \in Requests |-> -1]
  /\ kind = [it \in Items |-> "text"]
  /\ stage = [it \in Items |-> "absent"]
  /\ work = [it \in Items |-> Nothing]
  /\ outcome = [it \in Items |-> NoOutcome]
  /\ P!Init
  /\ processed = 0 /\ blocked = 0 /\ sanitized = 0 /\ regionsMasked = 0
  /\ byReason = [c \in Reasons |-> 0]
  /\ audited = {}

-----------------------------------------------------------------------------
(* ServeHTTP up to the point where the body is parsed.                        *)

Answer(r, code, n) == /\ phase' = [phase EXCEPT ![r] = "ended"]
                      /\ status' = [status EXCEPT ![r] = code]
                      /\ redacted' = [redacted EXCEPT ![r] = n]

\* policy.Match finds nothing (502); the body is over the cap (413); the body is
\* malformed multipart or cannot be read (422).
Refuse(r) ==
  /\ phase[r] = "idle"
  /\ \E code \in {"502", "413", "422"} : Answer(r, code, -1)
  /\ UNCHANGED <<route, multi, parts, canceled, origin, itemVars, pool, counters, audited>>

\* The body is parsed into n items and a goroutine is started for each.
Accept(r) ==
  /\ phase[r] = "idle"
  /\ phase' = [phase EXCEPT ![r] = "working"]
  /\ \E rt \in Routes, m \in BOOLEAN, n \in 0 .. MaxParts :
       /\ m \/ n = 1
       /\ route' = [route EXCEPT ![r] = rt]
       /\ multi' = [multi EXCEPT ![r] = m]
       /\ parts' = [parts EXCEPT ![r] = n]
       /\ \E ks \in [1 .. n -> Kinds] :
            kind' = [it \in Items |-> IF it[1] = r /\ it[2] \in 1 .. n
                                      THEN ks[it[2]] ELSE kind[it]]
       /\ stage' = [it \in Items |-> IF it[1] = r /\ it[2] \in 1 .. n
                                      THEN "new" ELSE stage[it]]
  /\ UNCHANGED <<canceled, origin, status, redacted, work, outcome, pool, counters, audited>>

\* The client goes away; net/http cancels the request's context.
Cancel(r) ==
  /\ phase[r] \in {"working", "sending"}
  /\ canceled' = [canceled EXCEPT ![r] = TRUE]
  /\ UNCHANGED <<phase, route, multi, parts, origin, status, redacted, itemVars, pool,
                 counters, audited>>

-----------------------------------------------------------------------------
(* sanitizeItem and SanitizeImage.                                            *)

Stage(it, s) == stage' = [stage EXCEPT ![it] = s]

\* SanitizeImage returns; the deferred release is still to run if a slot is held.
Finish(it, o) == /\ outcome' = [outcome EXCEPT ![it] = o]
                 /\ Stage(it, IF it \in holders THEN "done" ELSE "end")

\* IncUploadsBlocked, deferred in SanitizeImage.
CountBlocked(why) == /\ blocked' = blocked + 1
                     /\ byReason' = [byReason EXCEPT ![why] = @ + 1]

Block(it, why) == Finish(it, Refusal("block", why)) /\ CountBlocked(why)

\* FAULT: the fail-open forward is counted as blocked too.
FailClosedCounted(it, why) ==
  IF Route(it).failOpen
  THEN Finish(it, Output("original", 0, why)) /\ CountBlocked(why)
  ELSE Block(it, why)

\* failClosed: block, or forward the original on a fail-open route.
FailClosed(it, why) ==
  IF Route(it).failOpen
  THEN Finish(it, Output("original", 0, why)) /\ UNCHANGED <<blocked, byReason>>
  ELSE Block(it, why)

\* The allowlist, then the choice whether this item needs a slot.
Classify(it) ==
  /\ stage[it] = "new"
  /\ IF IsImage(it) /\ ~FormatAllowed(Route(it), kind[it])
     THEN Finish(it, Refusal("media", "unset"))
     ELSE Stage(it, IF NeedsSlot(it) THEN "want" ELSE "admitted") /\ UNCHANGED outcome
  /\ UNCHANGED <<requestVars, kind, work, pool, counters, audited>>

Acquire(it) ==
  /\ stage[it] = "want"
  /\ P!Grant(it)
  /\ Stage(it, "admitted")
  /\ UNCHANGED <<requestVars, kind, work, outcome, counters, audited>>

\* ErrDraining and ErrBackpressure become "busy", a canceled wait a block that
\* no counter sees.
AcquireRefused(it) ==
  /\ stage[it] = "want"
  /\ \/ (closed \/ HasTimeout) /\ Finish(it, Refusal("busy", "unset"))
     \/ canceled[it[1]] /\ Finish(it, Refusal("block", "unset"))
  /\ UNCHANGED <<requestVars, kind, work, pool, counters, audited>>

Drop(it) == /\ Route(it).action = "drop"
            /\ Finish(it, Refusal("drop", "policy"))
            /\ CountBlocked("policy")
            /\ UNCHANGED work

Prepared(it, f, n) == /\ work' = [work EXCEPT ![it] = [form |-> f, boxes |-> n]]
                      /\ Stage(it, "seal")
                      /\ UNCHANGED <<outcome, blocked, byReason>>

\* handlePass up to the audit entry.  exif.Strip and StripPNG read the structure
\* only, so a bomb is stripped like a PNG and a corrupt image may go either way.
Pass(it) ==
  /\ Route(it).action = "pass"
  /\ \/ /\ ~IsImage(it)
        /\ Finish(it, Output("original", 0, "unset"))
        /\ UNCHANGED <<work, blocked, byReason>>
     \/ IsImage(it) /\ ~Route(it).strip /\ Prepared(it, "original", 0)
     \/ IsImage(it) /\ Route(it).strip /\ kind[it] # "gif" /\ Prepared(it, "stripped", 0)
     \/ /\ IsImage(it) /\ Route(it).strip /\ kind[it] \in {"gif", "corrupt"}
        /\ FailClosed(it, "strip")
        /\ UNCHANGED work

DecodeError(k) == CASE k = "gif" -> "unsupported_format"
                    [] k = "bomb" -> "too_large"
                    [] OTHER -> "decode"

\* handleMask up to the decoded image.
Decode(it) ==
  /\ Masks(Route(it))
  /\ \/ /\ ~IsImage(it)
        /\ Finish(it, Output("original", 0, "unset"))
        /\ UNCHANGED <<blocked, byReason>>
     \/ /\ kind[it] \in {"jpeg", "png"}
        /\ Stage(it, "detect")
        /\ UNCHANGED <<outcome, blocked, byReason>>
     \/ kind[it] \in {"gif", "bomb", "corrupt"} /\ FailClosed(it, DecodeError(kind[it]))
  /\ UNCHANGED work

\* SanitizeImage is entered: the item is counted and dispatched on the action.
\* (The default case, an unknown action, is unreachable: policy.New refuses it.)
Enter(it) ==
  /\ stage[it] = "admitted"
  /\ processed' = processed + 1
  /\ Drop(it) \/ Pass(it) \/ Decode(it)
  /\ UNCHANGED <<requestVars, kind, pool, sanitized, regionsMasked, audited>>

\* FAULT: a canceled detector is an error like any other.
DetectCancelFailsOpen(it) ==
  /\ stage[it] = "detect"
  /\ \/ \E n \in 0 .. MaxRegions : Prepared(it, "masked", n)
     \/ canceled[it[1]] /\ FailClosed(it, "canceled") /\ UNCHANGED work
     \/ FailClosed(it, "detector_error") /\ UNCHANGED work
  /\ UNCHANGED <<requestVars, kind, pool, processed, sanitized, regionsMasked, audited>>

\* runDetectors: some regions, an error, or the context's error, which is a
\* block even on a fail-open route.  A detector may also not look at the context.
Detect(it) ==
  /\ stage[it] = "detect"
  /\ \/ \E n \in 0 .. MaxRegions : Prepared(it, "masked", n)
     \/ canceled[it[1]] /\ Block(it, "canceled") /\ UNCHANGED work
     \/ FailClosed(it, "detector_error") /\ UNCHANGED work
  /\ UNCHANGED <<requestVars, kind, pool, processed, sanitized, regionsMasked, audited>>

\* FAULT: the entry is written before the encoder has succeeded.
SealAuditFirst(it) ==
  /\ stage[it] = "seal"
  /\ audited' = audited \union {[item |-> it, form |-> work[it].form, boxes |-> work[it].boxes]}
  /\ \/ Masks(Route(it)) /\ FailClosed(it, "encode") /\ UNCHANGED <<sanitized, regionsMasked>>
     \/ /\ Finish(it, Output(work[it].form, work[it].boxes, "unset"))
        /\ IF Masks(Route(it))
           THEN /\ sanitized' = sanitized + 1
                /\ regionsMasked' = regionsMasked + work[it].boxes
           ELSE UNCHANGED <<sanitized, regionsMasked>>
        /\ UNCHANGED <<blocked, byReason>>
  /\ UNCHANGED <<requestVars, kind, work, pool, processed>>

\* FAULT: a lost audit entry does not stop the item.
SealAuditIgnored(it) ==
  /\ stage[it] = "seal"
  /\ \/ audited' = audited \union {[item |-> it, form |-> work[it].form, boxes |-> work[it].boxes]}
     \/ UNCHANGED audited
  /\ Finish(it, Output(work[it].form, work[it].boxes, "unset"))
  /\ UNCHANGED <<requestVars, kind, work, pool, counters>>

\* The end of handleMask and of handlePass: mask and encode, write the audit
\* entry, count, return.
Seal(it) ==
  /\ stage[it] = "seal"
  /\ \/ /\ Masks(Route(it)) /\ FailClosed(it, "encode")
        /\ UNCHANGED <<audited, sanitized, regionsMasked>>
     \/ FailClosed(it, "audit") /\ UNCHANGED <<audited, sanitized, regionsMasked>>
     \/ /\ audited' = audited \union
                        {[item |-> it, form |-> work[it].form, boxes |-> work[it].boxes]}
        /\ IF Masks(Route(it))
           THEN /\ sanitized' = sanitized + 1
                /\ regionsMasked' = regionsMasked + work[it].boxes
           ELSE UNCHANGED <<sanitized, regionsMasked>>
        /\ Finish(it, Output(work[it].form, work[it].boxes, "unset"))
        /\ UNCHANGED <<blocked, byReason>>
  /\ UNCHANGED <<requestVars, kind, work, pool, processed>>

\* FAULT: slots are given back when the whole upload is done.
ReleaseAfterSiblings(it) ==
  /\ stage[it] = "done"
  /\ \A s \in ItemsOf(it[1]) : stage[s] \in {"done", "end"}
  /\ P!Return(it)
  /\ Stage(it, "end")
  /\ UNCHANGED <<requestVars, kind, work, outcome, counters, audited>>

\* FAULT: the release is forgotten when the item failed.
ReleaseOnSuccess(it) ==
  /\ stage[it] = "done"
  /\ IF outcome[it].err = "nil" THEN P!Return(it) ELSE UNCHANGED pool
  /\ Stage(it, "end")
  /\ UNCHANGED <<requestVars, kind, work, outcome, counters, audited>>

\* The deferred release of sanitizeItem.
Release(it) ==
  /\ stage[it] = "done"
  /\ P!Return(it)
  /\ Stage(it, "end")
  /\ UNCHANGED <<requestVars, kind, work, outcome, counters, audited>>

-----------------------------------------------------------------------------
(* The request after its items: wg.Wait, writeError, Serialize, forward.      *)

Failed(r) == {i \in 1 .. parts[r] : outcome[<<r, i>>].err # "nil"}

StatusOf(e) == CASE e = "media" -> "415" [] e = "busy" -> "503" [] OTHER -> "422"

\* FAULT: a request with a failed part goes on without that part.
JoinPartial(r) ==
  /\ phase[r] = "working"
  /\ \A it \in ItemsOf(r) : stage[it] = "end"
  /\ \/ /\ parts[r] # 0 /\ Failed(r) = 1 .. parts[r]
        /\ Answer(r, "422", -1)
     \/ /\ parts[r] = 0 \/ Failed(r) # 1 .. parts[r]
        /\ phase' = [phase EXCEPT ![r] = "sending"]
        /\ UNCHANGED <<status, redacted>>
  /\ UNCHANGED <<route, multi, parts, canceled, origin, itemVars, pool, counters, audited>>

\* The error of the first failed part decides the answer; a drop still sets the
\* headers.  Serialize fails on a boundary that ParseBoundary takes and the
\* writer refuses.
Join(r) ==
  /\ phase[r] = "working"
  /\ \A it \in ItemsOf(r) : stage[it] = "end"
  /\ \/ \E i \in Failed(r) :
          /\ \A j \in Failed(r) : i <= j
          /\ Answer(r, StatusOf(outcome[<<r, i>>].err),
                    IF outcome[<<r, i>>].err = "drop" THEN 0 ELSE -1)
     \/ Failed(r) = {} /\ multi[r] /\ Answer(r, "422", -1)
     \/ /\ Failed(r) = {}
        /\ phase' = [phase EXCEPT ![r] = "sending"]
        /\ UNCHANGED <<status, redacted>>
  /\ UNCHANGED <<route, multi, parts, canceled, origin, itemVars, pool, counters, audited>>

\* client.Do streams the body: the origin has some of it, then all of it.
Send(r) ==
  /\ phase[r] = "sending"
  /\ \/ origin[r] = "nothing" /\ origin' = [origin EXCEPT ![r] = "partial"]
     \/ origin[r] # "complete" /\ origin' = [origin EXCEPT ![r] = "complete"]
  /\ UNCHANGED <<phase, route, multi, parts, canceled, status, redacted, itemVars, pool,
                 counters, audited>>

Boxes(r) == MapThenSumSet(LAMBDA i : outcome[<<r, i>>].boxes, 1 .. parts[r])

\* FAULT: only the last part's info reaches the headers.
RelayLastInfo(r) ==
  /\ phase[r] = "sending"
  /\ origin[r] # "nothing"
  /\ Answer(r, "origin", IF parts[r] = 0 THEN 0 ELSE outcome[<<r, parts[r]>>].boxes)
  /\ UNCHANGED <<route, multi, parts, canceled, origin, itemVars, pool, counters, audited>>

\* The origin answers, possibly before it has read the whole body.
Relay(r) ==
  /\ phase[r] = "sending"
  /\ origin[r] # "nothing"
  /\ Answer(r, "origin", Boxes(r))
  /\ UNCHANGED <<route, multi, parts, canceled, origin, itemVars, pool, counters, audited>>

\* client.Do fails: 502, or nothing if it is the client's going that failed it.
SendFails(r) ==
  /\ phase[r] = "sending"
  /\ \/ Answer(r, "502", -1)
     \/ canceled[r] /\ Answer(r, "none", -1)
  /\ UNCHANGED <<route, multi, parts, canceled, origin, itemVars, pool, counters, audited>>

\* main.serve has received the signal and calls Drain.
Drain == /\ P!Close
         /\ UNCHANGED <<requestVars, itemVars, counters, audited>>

ItemStep(it) == \/ Classify(it) \/ Acquire(it) \/ AcquireRefused(it) \/ Enter(it)
                \/ Detect(it) \/ Seal(it) \/ Release(it)
RequestStep(r) == \/ Refuse(r) \/ Accept(r) \/ Cancel(r) \/ Join(r) \/ Send(r)
                  \/ Relay(r) \/ SendFails(r)

Next == \/ \E r \in Requests : RequestStep(r)
        \/ \E it \in Items : ItemStep(it)
        \/ Drain

Spec == Init /\ [][Next]_vars

\* Goroutines run, an upload's body ends, and the origin answers or the
\* connection to it fails.  Waiting senders of the semaphore are served in turn,
\* so a slot that is free again and again is won.
Fairness ==
  /\ \A it \in Items : /\ WF_vars(Classify(it)) /\ SF_vars(Acquire(it))
                       /\ WF_vars(closed /\ AcquireRefused(it))
                       /\ WF_vars(Enter(it)) /\ WF_vars(Detect(it))
                       /\ WF_vars(Seal(it)) /\ WF_vars(Release(it))
  /\ \A r \in Requests : WF_vars(Join(r)) /\ WF_vars(Relay(r) \/ SendFails(r))
FairSpec == Spec /\ Fairness

-----------------------------------------------------------------------------
\* What the route demands of an image, and what an item may contribute to a
\* forwarded body.
Demanded(it) == CASE Masks(Route(it)) -> "masked"
                  [] Route(it).action = "pass" /\ Route(it).strip -> "stripped"
                  [] Route(it).action = "pass" /\ ~Route(it).strip -> "original"
                  [] OTHER -> "none"
Sanitized(it) ==
  /\ outcome[it].err = "nil"
  /\ Route(it).action # "drop"
  /\ IsImage(it) /\ ~Route(it).failOpen => outcome[it].form = Demanded(it)

(* The cardinal property of the README: once the origin has any byte of an    *)
(* upload, every part of it was sanitized as its route demands; one failed    *)
(* part, in whatever order the parts ran, keeps the whole upload back.        *)
OriginSeesOnlySanitized ==
  \A r \in Requests : origin[r] # "nothing" => \A it \in ItemsOf(r) : Sanitized(it)

Entry(it) == [item |-> it, form |-> outcome[it].form, boxes |-> outcome[it].boxes]

(* No image reaches the origin of a fail-closed route before the audit log    *)
(* has a complete line for the very bytes sent.                               *)
AuditedBeforeForward ==
  \A r \in Requests : origin[r] # "nothing" =>
    \A it \in ItemsOf(r) : IsImage(it) /\ ~Route(it).failOpen => Entry(it) \in audited

(* The log never describes an output that was not produced: a line stands     *)
(* only for an item that ended without error with that output, even where a   *)
(* fail-open route falls back to the original after a late failure.           *)
AuditTruthful == \A e \in audited : outcome[e.item] = Output(e.form, e.boxes, "unset")

(* A client that disconnects while its image is inspected is never the reason *)
(* why a fail-open route forwards the original.                               *)
DisconnectNeverFailsOpen ==
  \A it \in Items : outcome[it].cause = "canceled" => outcome[it].err = "block"

BlockedItems == {it \in Items : /\ outcome[it].err \in {"block", "drop"}
                                /\ outcome[it].cause # "unset"}

(* The help text of redact_uploads_blocked_total: the counter, its breakdown  *)
(* and the items refused by the sanitizer agree, and the origin has received  *)
(* nothing of an upload with such an item.  A fail-open forward counts as none. *)
BlockedMeansNothingSent ==
  /\ blocked = Cardinality(BlockedItems)
  /\ \A why \in Reasons :
       byReason[why] = Cardinality({it \in BlockedItems : outcome[it].cause = why})
  /\ \A it \in BlockedItems : origin[it[1]] = "nothing"

AuditedBoxes(S) == MapThenSumSet(LAMBDA e : e.boxes, {e \in audited : e.item \in S})

(* X-Redacted-Count of a relayed answer is the number of boxes in the audit   *)
(* lines of that upload's parts, and redact_regions_masked_total is the       *)
(* number of boxes in the whole log, whichever parts were blocked later.      *)
HeaderMatchesAudit ==
  /\ \A r \in Requests :
       status[r] = "origin" => redacted[r] = AuditedBoxes(ItemsOf(r))
  /\ regionsMasked = AuditedBoxes(Items)

\* Items whose image is decoded, masked or encoded, or about to be.
ImageJobs == {it \in Items : /\ stage[it] \in {"admitted", "detect", "seal", "done"}
                             /\ Masks(Route(it)) /\ IsImage(it)}

(* The pool bounds what it is there to bound: images being worked on, over    *)
(* all parts of all uploads.                                                  *)
JobsWithinBound == Cardinality(ImageJobs) <= PoolSize

(* A slot is held for as long as its image is worked on and no longer, on     *)
(* every path out of sanitizeItem; an upload that has been answered holds none. *)
SlotsAreJobs == holders = ImageJobs

(* After Drain has seen the pool empty no image is worked on.                 *)
DrainedMeansNoJob == drained => ImageJobs = {}

(* An accepted upload ends, however many parts compete for however few slots, *)
(* with no acquire timeout to break a tie, and also when a drain intervenes.  *)
RequestsEnd == \A r \in Requests : (phase[r] = "working") ~> (phase[r] = "ended")

-----------------------------------------------------------------------------
(* What documents and comments say and the code does not do.                  *)

(* pool.go and README: peak image-buffer memory is bounded by N times the     *)
(* per-part cap, that is, at most N image bodies are in memory.               *)
BufferedImages == {it \in Items : /\ stage[it] # "absent" /\ IsImage(it)
                                  /\ phase[it[1]] \in {"working", "sending"}}
PeakBuffersBounded == Cardinality(BufferedImages) <= PoolSize
=============================================================================
