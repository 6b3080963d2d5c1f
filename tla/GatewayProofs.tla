--------------------------- MODULE GatewayProofs ----------------------------
(* Theorems about Gateway for every set of requests, any number of parts, any *)
(* pool size and any set of routes.  The inductive invariant says what each   *)
(* stage of an item means (ItemInv), that only requests whose items have all  *)
(* ended without error forward (ReqInv), what a log line stands for (LogInv)  *)
(* and that the pool counts the image jobs (PoolInv).                         *)
EXTENDS Gateway, Lemmas

Busy == {"admitted", "detect", "seal", "done"}
Finished == {"done", "end"}

ItemInv(it) ==
  /\ stage[it] # "absent" => phase[it[1]] # "idle"
  /\ stage[it] = "want" => NeedsSlot(it)
  /\ stage[it] = "detect" => Masks(Route(it)) /\ IsImage(it)
  /\ stage[it] = "seal" =>
       /\ IsImage(it) /\ Route(it).action # "drop"
       /\ work[it].form = Demanded(it)
  /\ stage[it] \in Finished /\ outcome[it].err = "nil" =>
       /\ Sanitized(it)
       /\ IsImage(it) /\ ~Route(it).failOpen => Entry(it) \in audited
  /\ it \in holders <=> stage[it] \in Busy /\ NeedsSlot(it)
  /\ outcome[it].cause = "canceled" => outcome[it].err = "block"

Forwards(r) == phase[r] = "sending" \/ origin[r] # "nothing"

ReqInv(r) ==
  Forwards(r) => /\ phase[r] \in {"sending", "ended"}
                 /\ \A it \in ItemsOf(r) : stage[it] = "end" /\ outcome[it].err = "nil"

LogInv == \A e \in audited : /\ stage[e.item] \in Finished
                             /\ outcome[e.item] = Output(e.form, e.boxes, "unset")

PoolInv == /\ IsFiniteSet(holders)
           /\ Cardinality(holders) <= PoolSize
           /\ drained => closed /\ holders = {}

IInv == /\ TypeOK
        /\ \A it \in Items : ItemInv(it)
        /\ \A r \in Requests : ReqInv(r)
        /\ LogInv
        /\ PoolInv

(* The cardinality of the pool's own module is the one of FiniteSets.         *)
LEMMA SameCardinality == \A S : P!Cardinality(S) = Cardinality(S)
BY DEF P!Cardinality, Cardinality

(* The items of a request are items, and its own.                             *)
LEMMA ItemsShape ==
  ASSUME TypeOK, NEW r \in Requests
  PROVE  \A it \in ItemsOf(r) : it \in Items /\ it[1] = r
BY MaxPartsAssumption DEF TypeOK, ItemsOf, Items

(* A step of one item leaves every other item, and every request that already *)
(* forwards, as they were.                                                    *)
LEMMA Frame ==
  ASSUME IInv, NEW it \in Items, stage[it] \notin {"absent", "end"}, NEW s,
         stage' = [stage EXCEPT ![it] = s],
         UNCHANGED <<phase, route, parts, origin, kind>>,
         \A j \in Items \ {it} : /\ outcome'[j] = outcome[j]
                                 /\ work'[j] = work[j]
                                 /\ j \in holders' <=> j \in holders,
         audited \subseteq audited'
  PROVE  /\ \A j \in Items \ {it} : ItemInv(j)'
         /\ \A r \in Requests : ReqInv(r)'
<1>1. TypeOK /\ \A j \in Items : ItemInv(j)
  BY DEF IInv
<1>2. \A j \in Items \ {it} : ItemInv(j)'
  <2> SUFFICES ASSUME NEW j \in Items \ {it} PROVE ItemInv(j)'
    OBVIOUS
  <2>1. stage'[j] = stage[j] /\ outcome'[j] = outcome[j] /\ work'[j] = work[j]
    BY <1>1 DEF TypeOK
  <2>2. /\ Route(j)' = Route(j) /\ IsImage(j)' = IsImage(j) /\ NeedsSlot(j)' = NeedsSlot(j)
        /\ Demanded(j)' = Demanded(j) /\ Entry(j)' = Entry(j) /\ Sanitized(j)' = Sanitized(j)
        /\ phase'[j[1]] = phase[j[1]]
    BY <2>1 DEF Route, IsImage, NeedsSlot, Demanded, Entry, Sanitized, Masks
  <2>3. Masks(Route(j))' = Masks(Route(j))
    BY <2>2 DEF Route, Masks
  <2>4. ItemInv(j)
    BY <1>1
  <2>5. /\ stage'[j] = "seal" => Route(j)'.action = Route(j).action
        /\ Route(j)'.failOpen = Route(j).failOpen
    BY <2>2
  <2> QED
    BY <2>1, <2>2, <2>3, <2>4, <2>5 DEF ItemInv
<1>3. \A r \in Requests : ReqInv(r)'
  <2> SUFFICES ASSUME NEW r \in Requests, Forwards(r)' PROVE ReqInv(r)'
    BY DEF ReqInv
  <2>1. Forwards(r) /\ ReqInv(r) /\ ItemsOf(r)' = ItemsOf(r)
    BY DEF IInv, Forwards, ItemsOf
  <2>2. \A j \in ItemsOf(r) : stage[j] = "end" /\ outcome[j].err = "nil" /\ j \in Items
    BY <1>1, <2>1, ItemsShape DEF ReqInv
  <2>3. \A j \in ItemsOf(r) : stage'[j] = stage[j] /\ outcome'[j] = outcome[j]
    BY <1>1, <2>2 DEF TypeOK
  <2> QED
    BY <2>1, <2>2, <2>3 DEF ReqInv
<1> QED
  BY <1>2, <1>3

(* An item that returns: what its outcome must satisfy for the invariant.     *)
LEMMA Finishing ==
  ASSUME IInv, NEW it \in Items, stage[it] \in {"new", "want", "admitted", "detect", "seal"},
         NEW o \in Outcomes, Finish(it, o),
         UNCHANGED <<phase, route, parts, origin, kind, holders>>,
         \A j \in Items \ {it} : work'[j] = work[j],
         audited \subseteq audited',
         o.cause = "canceled" => o.err = "block",
         o.err = "nil" =>
           /\ Route(it).action # "drop"
           /\ IsImage(it) /\ ~Route(it).failOpen =>
                /\ o.form = Demanded(it)
                /\ [item |-> it, form |-> o.form, boxes |-> o.boxes] \in audited'
  PROVE  /\ \A j \in Items : ItemInv(j)'
         /\ \A r \in Requests : ReqInv(r)'
         /\ stage' \in [Items -> Stages]
         /\ outcome' \in [Items -> Outcomes]
         /\ outcome'[it] = o /\ stage'[it] \in Finished
         /\ \A j \in Items \ {it} : outcome'[j] = outcome[j] /\ stage'[j] = stage[j]
<1> DEFINE s == IF it \in holders THEN "done" ELSE "end"
<1>1. TypeOK /\ ItemInv(it)
  BY DEF IInv
<1>2. /\ stage' = [stage EXCEPT ![it] = s] /\ outcome' = [outcome EXCEPT ![it] = o]
      /\ s \in Finished
  BY DEF Finish, Stage, Finished
<1>3. /\ stage' \in [Items -> Stages] /\ outcome' \in [Items -> Outcomes]
      /\ stage'[it] = s /\ outcome'[it] = o
      /\ \A j \in Items \ {it} : outcome'[j] = outcome[j] /\ stage'[j] = stage[j]
  BY <1>1, <1>2 DEF TypeOK, Stages
<1>4. /\ \A j \in Items \ {it} : ItemInv(j)'
      /\ \A r \in Requests : ReqInv(r)'
  <2>1. stage[it] \notin {"absent", "end"}
    OBVIOUS
  <2> HIDE DEF s
  <2> QED
    BY <1>2, <1>3, <2>1, Frame
<1>5. ItemInv(it)'
  <2>1. /\ Route(it)' = Route(it) /\ IsImage(it)' = IsImage(it) /\ NeedsSlot(it)' = NeedsSlot(it)
        /\ Demanded(it)' = Demanded(it) /\ phase'[it[1]] = phase[it[1]]
    BY DEF Route, IsImage, NeedsSlot, Demanded, Masks
  <2>2. Route(it)'.action = Route(it).action /\ Route(it)'.failOpen = Route(it).failOpen
    BY <2>1
  <2>3. phase[it[1]] # "idle"
    BY <1>1 DEF ItemInv
  <2>4. o.err = "nil" =>
           /\ Sanitized(it)'
           /\ IsImage(it)' /\ ~Route(it)'.failOpen => Entry(it)' \in audited'
    BY <1>3, <2>1, <2>2 DEF Sanitized, Entry
  <2>5. it \in holders' <=> s \in Busy /\ NeedsSlot(it)'
    BY <1>1, <2>1 DEF ItemInv, Busy
  <2> QED
    BY <1>2, <1>3, <2>1, <2>2, <2>3, <2>4, <2>5 DEF ItemInv, Finished
<1> QED
  BY <1>2, <1>3, <1>4, <1>5

(* An item that moves on without returning.                                   *)
LEMMA Moving ==
  ASSUME IInv, NEW it \in Items, stage[it] \in {"new", "want", "admitted", "detect"},
         NEW s \in {"want", "admitted", "detect", "seal"}, Stage(it, s),
         UNCHANGED <<phase, route, parts, origin, kind, outcome, audited>>,
         \A j \in Items \ {it} : work'[j] = work[j] /\ (j \in holders' <=> j \in holders),
         s = "want" => NeedsSlot(it),
         s = "detect" => Masks(Route(it)) /\ IsImage(it),
         s = "seal" => /\ IsImage(it) /\ Route(it).action # "drop"
                       /\ work'[it].form = Demanded(it),
         it \in holders' <=> s \in Busy /\ NeedsSlot(it)
  PROVE  /\ \A j \in Items : ItemInv(j)'
         /\ \A r \in Requests : ReqInv(r)'
         /\ stage' \in [Items -> Stages]
         /\ LogInv'
<1>1. TypeOK /\ ItemInv(it) /\ LogInv
  BY DEF IInv
<1>2. /\ stage' = [stage EXCEPT ![it] = s] /\ stage'[it] = s
      /\ stage' \in [Items -> Stages]
      /\ \A j \in Items \ {it} : stage'[j] = stage[j]
  BY <1>1 DEF TypeOK, Stages, Stage
<1>3. /\ \A j \in Items \ {it} : ItemInv(j)'
      /\ \A r \in Requests : ReqInv(r)'
  <2>1. stage[it] \notin {"absent", "end"}
    OBVIOUS
  <2> QED
    BY <1>2, <2>1, Frame
<1>4. ItemInv(it)'
  <2>1. /\ Route(it)' = Route(it) /\ IsImage(it)' = IsImage(it) /\ NeedsSlot(it)' = NeedsSlot(it)
        /\ Demanded(it)' = Demanded(it) /\ phase'[it[1]] = phase[it[1]]
        /\ Masks(Route(it))' = Masks(Route(it))
    BY DEF Route, IsImage, NeedsSlot, Demanded, Masks
  <2>2. phase[it[1]] # "idle"
    BY <1>1 DEF ItemInv
  <2>3. Route(it)'.action = Route(it).action
    BY <2>1
  <2> QED
    BY <1>1, <1>2, <2>1, <2>2, <2>3 DEF ItemInv, Finished
<1>5. LogInv'
  <2> SUFFICES ASSUME NEW e \in audited
               PROVE  /\ stage'[e.item] \in Finished
                      /\ outcome'[e.item] = Output(e.form, e.boxes, "unset")
    BY DEF LogInv
  <2>1. e.item \in Items
    BY <1>1 DEF TypeOK
  <2>2. stage[e.item] \in Finished /\ outcome[e.item] = Output(e.form, e.boxes, "unset")
    BY <1>1 DEF LogInv
  <2>3. e.item # it
    BY <2>2 DEF Finished
  <2> QED
    BY <1>2, <2>1, <2>2, <2>3
<1> QED
  BY <1>2, <1>3, <1>4, <1>5

(* The log after an item has returned with outcome o: nothing new, or the one *)
(* line that describes o.                                                     *)
LEMMA LogAfter ==
  ASSUME TypeOK, LogInv, NEW it \in Items, NEW o \in Outcomes,
         stage[it] \notin Finished, stage'[it] \in Finished, outcome'[it] = o,
         \A j \in Items \ {it} : outcome'[j] = outcome[j] /\ stage'[j] = stage[j],
         \A e \in audited' : \/ e \in audited
                             \/ e.item = it /\ o = Output(e.form, e.boxes, "unset")
  PROVE  LogInv'
<1> SUFFICES ASSUME NEW e \in audited'
             PROVE  /\ stage'[e.item] \in Finished
                    /\ outcome'[e.item] = Output(e.form, e.boxes, "unset")
  BY DEF LogInv
<1>1. CASE e \in audited
  <2>1. /\ e.item \in Items /\ stage[e.item] \in Finished
        /\ outcome[e.item] = Output(e.form, e.boxes, "unset")
    BY <1>1 DEF TypeOK, LogInv
  <2> QED
    BY <2>1
<1>2. CASE e.item = it /\ o = Output(e.form, e.boxes, "unset")
  BY <1>2
<1> QED
  BY <1>1, <1>2

(* What sanitizeItem can return is an outcome.                                *)
LEMMA OutcomeTypes ==
  /\ \A e \in Errors, why \in Reasons \union {"unset"} :
       Refusal(e, why) \in Outcomes /\ Refusal(e, why).err = e /\ Refusal(e, why).cause = why
  /\ \A f \in Forms, n \in Nat, why \in Reasons \union {"unset"} :
       /\ Output(f, n, why) \in Outcomes
       /\ Output(f, n, why).err = "nil" /\ Output(f, n, why).cause = why
       /\ Output(f, n, why).form = f /\ Output(f, n, why).boxes = n
BY DEF Refusal, Output, Outcomes, Forms, Errors

(* The counters touched by a block stay numbers.                              *)
LEMMA CountTypes ==
  ASSUME TypeOK, NEW why \in Reasons, CountBlocked(why) \/ UNCHANGED <<blocked, byReason>>
  PROVE  blocked' \in Nat /\ byReason' \in [Reasons -> Nat]
BY DEF TypeOK, CountBlocked

(* failClosed returns a block, or the original on a fail-open route only.     *)
LEMMA Failing ==
  ASSUME TypeOK, NEW it \in Items, NEW why \in Reasons, FailClosed(it, why)
  PROVE  /\ \E o \in Outcomes :
              /\ Finish(it, o) /\ o.cause = why
              /\ o.err = "block" \/ (o.err = "nil" /\ Route(it).failOpen)
         /\ blocked' \in Nat /\ byReason' \in [Reasons -> Nat]
<1>1. CASE Route(it).failOpen
  <2>1. Finish(it, Output("original", 0, why)) /\ UNCHANGED <<blocked, byReason>>
    BY <1>1 DEF FailClosed
  <2> QED
    BY <1>1, <2>1, CountTypes, OutcomeTypes DEF Forms
<1>2. CASE ~Route(it).failOpen
  <2>1. Finish(it, Refusal("block", why)) /\ CountBlocked(why)
    BY <1>2 DEF FailClosed, Block
  <2> QED
    BY <2>1, CountTypes, OutcomeTypes DEF Errors
<1> QED
  BY <1>1, <1>2

(* The invariant after an item has failed with a cause other than canceled.   *)
LEMMA AfterFailing ==
  ASSUME IInv, NEW it \in Items, stage[it] \in {"admitted", "detect", "seal"},
         NEW why \in Reasons \ {"canceled"}, FailClosed(it, why), Route(it).action # "drop",
         UNCHANGED <<requestVars, kind, work, pool, audited, sanitized, regionsMasked>>,
         processed' \in Nat
  PROVE  IInv'
<1>1. TypeOK /\ LogInv /\ PoolInv
  BY DEF IInv
<1>2. PICK o \in Outcomes : /\ Finish(it, o) /\ o.cause = why
                            /\ o.err = "block" \/ (o.err = "nil" /\ Route(it).failOpen)
  BY <1>1, Failing
<1>3. /\ \A j \in Items : ItemInv(j)'
      /\ \A r \in Requests : ReqInv(r)'
      /\ stage' \in [Items -> Stages] /\ outcome' \in [Items -> Outcomes]
      /\ outcome'[it] = o /\ stage'[it] \in Finished
      /\ \A j \in Items \ {it} : outcome'[j] = outcome[j] /\ stage'[j] = stage[j]
  BY <1>2, Finishing DEF requestVars, pool
<1>4. LogInv'
  BY <1>1, <1>3, LogAfter DEF Finished
<1>5. blocked' \in Nat /\ byReason' \in [Reasons -> Nat]
  BY <1>1, Failing
<1>6. TypeOK'
  BY <1>1, <1>3, <1>5 DEF TypeOK, requestVars, pool, P!TypeOK
<1>7. PoolInv'
  BY <1>1 DEF PoolInv, pool
<1> QED
  BY <1>3, <1>4, <1>6, <1>7 DEF IInv

(* The invariant after an item was refused without being counted.             *)
LEMMA AfterRefusal ==
  ASSUME IInv, NEW it \in Items, stage[it] \in {"new", "want"},
         NEW e \in {"busy", "block", "media"}, Finish(it, Refusal(e, "unset")),
         UNCHANGED <<requestVars, kind, work, pool, counters, audited>>
  PROVE  IInv'
<1> DEFINE o == Refusal(e, "unset")
<1>1. TypeOK /\ LogInv /\ PoolInv
  BY DEF IInv
<1>2. o \in Outcomes /\ o.err # "nil" /\ o.cause # "canceled"
  BY OutcomeTypes DEF Errors
<1>3. Finish(it, o)
  OBVIOUS
<1> HIDE DEF o
<1>4. /\ \A j \in Items : ItemInv(j)'
      /\ \A r \in Requests : ReqInv(r)'
      /\ stage' \in [Items -> Stages] /\ outcome' \in [Items -> Outcomes]
      /\ outcome'[it] = o /\ stage'[it] \in Finished
      /\ \A j \in Items \ {it} : outcome'[j] = outcome[j] /\ stage'[j] = stage[j]
  BY <1>2, <1>3, Finishing DEF requestVars, pool
<1>5. LogInv'
  BY <1>1, <1>2, <1>4, LogAfter DEF Finished
<1>6. TypeOK'
  BY <1>1, <1>4 DEF TypeOK, requestVars, pool, counters, P!TypeOK
<1> QED
  BY <1>1, <1>4, <1>5, <1>6 DEF IInv, PoolInv, pool

(* The allowlist and the slot decision of sanitizeItem keep the invariant.    *)
LEMMA ClassifyInv == ASSUME IInv, NEW it \in Items, Classify(it) PROVE IInv'
<1>1. TypeOK /\ LogInv /\ PoolInv /\ ItemInv(it) /\ stage[it] = "new"
  BY DEF IInv, Classify
<1>2. UNCHANGED <<requestVars, kind, work, pool, counters, audited>>
  BY DEF Classify
<1>3. CASE Finish(it, Refusal("media", "unset"))
  BY <1>1, <1>2, <1>3, OutcomeTypes, AfterRefusal DEF Errors
<1>4. CASE ~Finish(it, Refusal("media", "unset"))
  <2> DEFINE s == IF NeedsSlot(it) THEN "want" ELSE "admitted"
  <2>1. Stage(it, s) /\ UNCHANGED outcome
    BY <1>4 DEF Classify
  <2>2. it \notin holders
    BY <1>1 DEF ItemInv, Busy
  <2>3. /\ s \in {"want", "admitted"}
        /\ s = "want" <=> NeedsSlot(it)
    OBVIOUS
  <2> HIDE DEF s
  <2>4. it \in holders' <=> s \in Busy /\ NeedsSlot(it)
    BY <1>2, <2>2, <2>3 DEF pool, Busy
  <2>5. s # "detect" /\ s # "seal" /\ s \in {"want", "admitted", "detect", "seal"}
    BY <2>3
  <2>6. /\ \A j \in Items : ItemInv(j)'
        /\ \A r \in Requests : ReqInv(r)'
        /\ stage' \in [Items -> Stages]
        /\ LogInv'
    BY <1>1, <1>2, <2>1, <2>3, <2>4, <2>5, Moving DEF requestVars, pool
  <2>7. TypeOK'
    BY <1>1, <1>2, <2>1, <2>6 DEF TypeOK, requestVars, pool, counters, P!TypeOK
  <2> QED
    BY <1>1, <1>2, <2>6, <2>7 DEF IInv, PoolInv, pool
<1> QED
  BY <1>3, <1>4

(* A granted slot keeps it: the item enters the pool and the busy stages at   *)
(* once.                                                                      *)
LEMMA AcquireInv == ASSUME IInv, NEW it \in Items, Acquire(it) PROVE IInv'
<1>1. TypeOK /\ LogInv /\ PoolInv /\ ItemInv(it) /\ stage[it] = "want"
  BY DEF IInv, Acquire
<1>2. /\ ~closed /\ it \notin holders /\ Cardinality(holders) < PoolSize
      /\ holders' = holders \union {it} /\ UNCHANGED <<closed, drained>>
  BY SameCardinality DEF Acquire, P!Grant
<1>3. /\ \A j \in Items : ItemInv(j)'
      /\ \A r \in Requests : ReqInv(r)'
      /\ stage' \in [Items -> Stages]
      /\ LogInv'
  <2>1. it \in holders' <=> "admitted" \in Busy /\ NeedsSlot(it)
    BY <1>1, <1>2 DEF ItemInv, Busy
  <2>2. \A j \in Items \ {it} : j \in holders' <=> j \in holders
    BY <1>2
  <2> QED
    BY <1>1, <2>1, <2>2, Moving DEF Acquire, requestVars
<1>4. TypeOK'
  BY <1>1, <1>2, <1>3 DEF Acquire, TypeOK, requestVars, counters, P!TypeOK
<1>5. PoolInv'
  <2>1. /\ IsFiniteSet(holders \union {it})
        /\ Cardinality(holders \union {it}) = Cardinality(holders) + 1
    BY <1>1, <1>2, FS_AddElement DEF PoolInv
  <2>2. Cardinality(holders) \in Nat
    BY <1>1, FS_CardinalityType DEF PoolInv
  <2> QED
    BY <1>1, <1>2, <2>1, <2>2, PoolSizeAssumption DEF PoolInv
<1> QED
  BY <1>3, <1>4, <1>5 DEF IInv

(* A refused Acquire keeps it: the item ends with an error.                   *)
LEMMA AcquireRefusedInv == ASSUME IInv, NEW it \in Items, AcquireRefused(it) PROVE IInv'
BY AfterRefusal DEF AcquireRefused

(* SanitizeImage up to the decoded or prepared image keeps it, whichever way  *)
(* it goes.                                                                   *)
LEMMA EnterInv == ASSUME IInv, NEW it \in Items, Enter(it) PROVE IInv'
<1>1. TypeOK /\ LogInv /\ PoolInv /\ ItemInv(it) /\ stage[it] = "admitted"
  BY DEF IInv, Enter
<1>2. UNCHANGED <<requestVars, kind, pool, sanitized, regionsMasked, audited>>
  BY DEF Enter
<1>4. processed' \in Nat
  BY <1>1 DEF Enter, TypeOK
<1>5. it \in holders <=> NeedsSlot(it)
  BY <1>1 DEF ItemInv, Busy
<1>6. ASSUME NEW s \in {"detect", "seal"}, Stage(it, s), UNCHANGED outcome,
             UNCHANGED <<blocked, byReason>>,
             \A j \in Items \ {it} : work'[j] = work[j],
             work' \in [Items -> [form : Forms, boxes : Nat]],
             s = "detect" => Masks(Route(it)) /\ IsImage(it),
             s = "seal" => /\ IsImage(it) /\ Route(it).action # "drop"
                           /\ work'[it].form = Demanded(it)
      PROVE  IInv'
  <2>1. it \in holders' <=> s \in Busy /\ NeedsSlot(it)
    BY <1>2, <1>5 DEF Busy, pool
  <2>2. s # "want" /\ s \in {"want", "admitted", "detect", "seal"}
    OBVIOUS
  <2>3. /\ \A j \in Items : ItemInv(j)'
        /\ \A r \in Requests : ReqInv(r)'
        /\ stage' \in [Items -> Stages]
        /\ LogInv'
    BY <1>1, <1>2, <1>6, <2>1, <2>2, Moving DEF requestVars, pool
  <2>4. TypeOK'
    BY <1>1, <1>2, <1>4, <1>6, <2>3 DEF TypeOK, requestVars, pool, P!TypeOK
  <2> QED
    BY <1>1, <1>2, <2>3, <2>4 DEF IInv, PoolInv, pool
<1>7. ASSUME NEW o \in Outcomes, Finish(it, o), UNCHANGED work,
             blocked' \in Nat, byReason' \in [Reasons -> Nat],
             o.cause # "canceled",
             o.err = "nil" => Route(it).action # "drop" /\ ~IsImage(it)
      PROVE  IInv'
  <2>1. /\ \A j \in Items : ItemInv(j)'
        /\ \A r \in Requests : ReqInv(r)'
        /\ stage' \in [Items -> Stages] /\ outcome' \in [Items -> Outcomes]
        /\ outcome'[it] = o /\ stage'[it] \in Finished
        /\ \A j \in Items \ {it} : outcome'[j] = outcome[j] /\ stage'[j] = stage[j]
    BY <1>1, <1>2, <1>7, Finishing DEF requestVars, pool
  <2>2. LogInv'
    BY <1>1, <1>2, <2>1, LogAfter DEF Finished
  <2>3. TypeOK'
    BY <1>1, <1>2, <1>4, <1>7, <2>1 DEF TypeOK, requestVars, pool, P!TypeOK
  <2> QED
    BY <1>1, <1>2, <2>1, <2>2, <2>3 DEF IInv, PoolInv, pool
<1>8. ASSUME ~IsImage(it), Route(it).action # "drop", UNCHANGED <<work, blocked, byReason>>,
             Finish(it, Output("original", 0, "unset"))
      PROVE  IInv'
  <2> DEFINE o == Output("original", 0, "unset")
  <2>1. o \in Outcomes /\ o.cause # "canceled"
    BY OutcomeTypes DEF Forms
  <2>2. blocked' \in Nat /\ byReason' \in [Reasons -> Nat]
    BY <1>1, <1>8 DEF TypeOK
  <2> QED
    BY <1>7, <1>8, <2>1, <2>2
<1>9. CASE Drop(it)
  <2> DEFINE o == Refusal("drop", "policy")
  <2>1. o \in Outcomes /\ o.cause # "canceled" /\ o.err # "nil"
    BY OutcomeTypes DEF Errors, Reasons
  <2>2. blocked' \in Nat /\ byReason' \in [Reasons -> Nat]
    BY <1>1, <1>9, CountTypes DEF Drop, Reasons
  <2>3. Finish(it, o) /\ UNCHANGED work
    BY <1>9 DEF Drop
  <2> HIDE DEF o
  <2> QED
    BY <1>7, <2>1, <2>2, <2>3
<1>10. CASE Pass(it)
  <2>1. Route(it).action = "pass" /\ ~Masks(Route(it))
    BY <1>10 DEF Pass, Masks
  <2>2. CASE /\ ~IsImage(it) /\ Finish(it, Output("original", 0, "unset"))
             /\ UNCHANGED <<work, blocked, byReason>>
    BY <1>8, <2>1, <2>2
  <2>3. ASSUME NEW f \in {"original", "stripped"}, IsImage(it), Prepared(it, f, 0),
               f = Demanded(it)
        PROVE  IInv'
    <3>1. /\ work' = [work EXCEPT ![it] = [form |-> f, boxes |-> 0]]
          /\ Stage(it, "seal") /\ UNCHANGED <<outcome, blocked, byReason>>
      BY <2>3 DEF Prepared
    <3>2. /\ \A j \in Items \ {it} : work'[j] = work[j]
          /\ work' \in [Items -> [form : Forms, boxes : Nat]]
          /\ work'[it].form = f
      BY <1>1, <3>1 DEF TypeOK, Forms
    <3> QED
      BY <1>6, <2>1, <2>3, <3>1, <3>2
  <2>4. CASE FailClosed(it, "strip") /\ UNCHANGED work
    BY <1>1, <1>2, <1>4, <2>1, <2>4, AfterFailing DEF Reasons
  <2>5. /\ Route(it).strip => Demanded(it) = "stripped"
        /\ ~Route(it).strip => Demanded(it) = "original"
    BY <2>1 DEF Demanded
  <2> QED
    BY <1>10, <2>2, <2>3, <2>4, <2>5 DEF Pass
<1>11. CASE Decode(it)
  <2>1. Masks(Route(it)) /\ Route(it).action # "drop" /\ UNCHANGED work
    BY <1>11 DEF Decode, Masks
  <2>2. CASE /\ ~IsImage(it) /\ Finish(it, Output("original", 0, "unset"))
             /\ UNCHANGED <<blocked, byReason>>
    BY <1>8, <2>1, <2>2
  <2>3. CASE /\ kind[it] \in {"jpeg", "png"} /\ Stage(it, "detect")
             /\ UNCHANGED <<outcome, blocked, byReason>>
    <3>1. IsImage(it)
      BY <2>3 DEF IsImage
    <3>2. work' \in [Items -> [form : Forms, boxes : Nat]]
      BY <1>1, <2>1 DEF TypeOK
    <3> QED
      BY <1>6, <2>1, <2>3, <3>1, <3>2
  <2>4. CASE kind[it] \in {"gif", "bomb", "corrupt"} /\ FailClosed(it, DecodeError(kind[it]))
    <3>1. DecodeError(kind[it]) \in Reasons \ {"canceled"}
      BY <2>4 DEF DecodeError, Reasons
    <3> QED
      BY <1>1, <1>2, <1>4, <2>1, <2>4, <3>1, AfterFailing
  <2> QED
    BY <1>11, <2>2, <2>3, <2>4 DEF Decode
<1> QED
  BY <1>9, <1>10, <1>11 DEF Enter

(* runDetectors keeps it; a canceled context blocks, also when the route      *)
(* fails open.                                                                *)
LEMMA DetectInv == ASSUME IInv, NEW it \in Items, Detect(it) PROVE IInv'
<1>1. /\ TypeOK /\ LogInv /\ PoolInv /\ ItemInv(it) /\ stage[it] = "detect"
      /\ Masks(Route(it)) /\ IsImage(it)
  BY DEF IInv, Detect, ItemInv
<1>2. UNCHANGED <<requestVars, kind, pool, processed, sanitized, regionsMasked, audited>>
  BY DEF Detect
<1>3. Route(it).action # "drop" /\ Demanded(it) = "masked"
  BY <1>1 DEF Masks, Demanded
<1>4. ASSUME NEW n \in 0 .. MaxRegions, Prepared(it, "masked", n)
      PROVE  IInv'
  <2>1. /\ work' = [work EXCEPT ![it] = [form |-> "masked", boxes |-> n]]
        /\ Stage(it, "seal") /\ UNCHANGED <<outcome, blocked, byReason>>
    BY <1>4 DEF Prepared
  <2>2. /\ \A j \in Items \ {it} : work'[j] = work[j]
        /\ work' \in [Items -> [form : Forms, boxes : Nat]]
        /\ work'[it].form = "masked"
    BY <1>1, <2>1, MaxRegionsAssumption DEF TypeOK, Forms
  <2>3. it \in holders' <=> "seal" \in Busy /\ NeedsSlot(it)
    BY <1>1, <1>2 DEF ItemInv, Busy, pool
  <2>4. /\ \A j \in Items : ItemInv(j)'
        /\ \A r \in Requests : ReqInv(r)'
        /\ stage' \in [Items -> Stages]
        /\ LogInv'
    BY <1>1, <1>2, <1>3, <2>1, <2>2, <2>3, Moving DEF requestVars, pool
  <2>5. TypeOK'
    BY <1>1, <1>2, <2>1, <2>2, <2>4 DEF TypeOK, requestVars, pool, P!TypeOK
  <2> QED
    BY <1>1, <1>2, <2>4, <2>5 DEF IInv, PoolInv, pool
<1>5. CASE Block(it, "canceled") /\ UNCHANGED work
  <2> DEFINE o == Refusal("block", "canceled")
  <2>1. o \in Outcomes /\ o.err = "block"
    BY OutcomeTypes DEF Errors, Reasons
  <2>2. Finish(it, o) /\ CountBlocked("canceled") /\ UNCHANGED work
    BY <1>5 DEF Block
  <2> HIDE DEF o
  <2>3. blocked' \in Nat /\ byReason' \in [Reasons -> Nat]
    BY <1>1, <2>2, CountTypes DEF Reasons
  <2>4. /\ \A j \in Items : ItemInv(j)'
        /\ \A r \in Requests : ReqInv(r)'
        /\ stage' \in [Items -> Stages] /\ outcome' \in [Items -> Outcomes]
        /\ outcome'[it] = o /\ stage'[it] \in Finished
        /\ \A j \in Items \ {it} : outcome'[j] = outcome[j] /\ stage'[j] = stage[j]
    BY <1>1, <1>2, <2>1, <2>2, Finishing DEF requestVars, pool
  <2>5. LogInv'
    BY <1>1, <1>2, <2>1, <2>4, LogAfter DEF Finished
  <2>6. TypeOK'
    BY <1>1, <1>2, <2>2, <2>3, <2>4 DEF TypeOK, requestVars, pool, P!TypeOK
  <2> QED
    BY <1>1, <1>2, <2>4, <2>5, <2>6 DEF IInv, PoolInv, pool
<1>6. CASE FailClosed(it, "detector_error") /\ UNCHANGED work
  <2>1. processed' \in Nat
    BY <1>1, <1>2 DEF TypeOK
  <2> QED
    BY <1>1, <1>2, <1>3, <1>6, <2>1, AfterFailing DEF Reasons
<1> QED
  BY <1>4, <1>5, <1>6 DEF Detect

(* Encoding and auditing keep it: an output is only returned with its log     *)
(* line.                                                                      *)
LEMMA SealInv == ASSUME IInv, NEW it \in Items, Seal(it) PROVE IInv'
<1>1. /\ TypeOK /\ LogInv /\ PoolInv /\ ItemInv(it) /\ stage[it] = "seal"
      /\ Route(it).action # "drop" /\ work[it].form = Demanded(it)
  BY DEF IInv, Seal, ItemInv
<1>2. UNCHANGED <<requestVars, kind, work, pool, processed>>
  BY DEF Seal
<1>3. ASSUME NEW why \in {"encode", "audit"}, FailClosed(it, why),
             UNCHANGED <<audited, sanitized, regionsMasked>>
      PROVE  IInv'
  <2>1. processed' \in Nat /\ why \in Reasons \ {"canceled"}
    BY <1>1, <1>2 DEF TypeOK, Reasons
  <2> QED
    BY <1>1, <1>2, <1>3, <2>1, AfterFailing
<1>4. ASSUME audited' = audited \union
                          {[item |-> it, form |-> work[it].form, boxes |-> work[it].boxes]},
             IF Masks(Route(it))
             THEN /\ sanitized' = sanitized + 1
                  /\ regionsMasked' = regionsMasked + work[it].boxes
             ELSE UNCHANGED <<sanitized, regionsMasked>>,
             Finish(it, Output(work[it].form, work[it].boxes, "unset")),
             UNCHANGED <<blocked, byReason>>
      PROVE  IInv'
  <2> DEFINE o == Output(work[it].form, work[it].boxes, "unset")
             new == [item |-> it, form |-> work[it].form, boxes |-> work[it].boxes]
  <2>1. work[it].form \in Forms /\ work[it].boxes \in Nat
    BY <1>1 DEF TypeOK
  <2>2. /\ o \in Outcomes /\ o.cause # "canceled" /\ o.form = work[it].form
        /\ o.boxes = work[it].boxes
    BY <2>1, OutcomeTypes
  <2>3. /\ new \in audited' /\ \A e \in audited' : e \in audited \/ e = new
        /\ new = [item |-> it, form |-> o.form, boxes |-> o.boxes]
        /\ o = Output(new.form, new.boxes, "unset") /\ new.item = it
        /\ new \in [item : Items, form : Forms, boxes : Nat]
        /\ audited \subseteq audited'
    BY <1>4, <2>1, <2>2
  <2>4. sanitized' \in Nat /\ regionsMasked' \in Nat
    BY <1>1, <1>4, <2>1 DEF TypeOK
  <2>5. Finish(it, o)
    BY <1>4
  <2> HIDE DEF o, new
  <2>6. /\ \A j \in Items : ItemInv(j)'
        /\ \A r \in Requests : ReqInv(r)'
        /\ stage' \in [Items -> Stages] /\ outcome' \in [Items -> Outcomes]
        /\ outcome'[it] = o /\ stage'[it] \in Finished
        /\ \A j \in Items \ {it} : outcome'[j] = outcome[j] /\ stage'[j] = stage[j]
    BY <1>1, <1>2, <2>2, <2>3, <2>5, Finishing DEF requestVars, pool
  <2>7. LogInv'
    BY <1>1, <2>2, <2>3, <2>6, LogAfter DEF Finished
  <2>8. TypeOK'
    BY <1>1, <1>2, <1>4, <2>3, <2>4, <2>6 DEF TypeOK, requestVars, pool, P!TypeOK
  <2> QED
    BY <1>1, <1>2, <2>6, <2>7, <2>8 DEF IInv, PoolInv, pool
<1> QED
  BY <1>3, <1>4 DEF Seal

(* The deferred release keeps it: the item leaves the pool and the busy       *)
(* stages at once.                                                            *)
LEMMA ReleaseInv == ASSUME IInv, NEW it \in Items, Release(it) PROVE IInv'
<1>1. TypeOK /\ LogInv /\ PoolInv /\ ItemInv(it) /\ stage[it] = "done"
  BY DEF IInv, Release
<1>2. /\ UNCHANGED <<requestVars, kind, work, outcome, counters, audited, closed>>
      /\ it \in holders /\ holders' = holders \ {it}
      /\ drained' = (drained \/ (closed /\ holders' = {}))
  BY DEF Release, P!Return
<1>3. /\ stage' = [stage EXCEPT ![it] = "end"] /\ stage'[it] = "end"
      /\ stage' \in [Items -> Stages]
      /\ \A j \in Items \ {it} : stage'[j] = stage[j]
  BY <1>1 DEF Release, Stage, TypeOK, Stages
<1>4. /\ \A j \in Items \ {it} : ItemInv(j)'
      /\ \A r \in Requests : ReqInv(r)'
  BY <1>1, <1>2, <1>3, Frame DEF requestVars
<1>5. ItemInv(it)'
  <2>1. /\ Route(it)' = Route(it) /\ IsImage(it)' = IsImage(it)
        /\ Sanitized(it)' = Sanitized(it) /\ Entry(it)' = Entry(it)
        /\ phase'[it[1]] = phase[it[1]] /\ outcome'[it] = outcome[it]
    BY <1>2 DEF requestVars, Route, IsImage, Sanitized, Entry, Demanded, Masks
  <2>2. it \notin holders' /\ "end" \notin Busy
    BY <1>2 DEF Busy
  <2>3. Route(it)'.failOpen = Route(it).failOpen
    BY <2>1
  <2> QED
    BY <1>1, <1>2, <1>3, <2>1, <2>2, <2>3 DEF ItemInv, Finished
<1>6. LogInv'
  BY <1>1, <1>2, <1>3 DEF LogInv, TypeOK, Finished
<1>7. PoolInv'
  <2>1. /\ IsFiniteSet(holders \ {it})
        /\ Cardinality(holders \ {it}) = Cardinality(holders) - 1
        /\ Cardinality(holders) \in Nat
    BY <1>1, <1>2, FS_RemoveElement, FS_CardinalityType DEF PoolInv
  <2>2. Cardinality(holders) <= PoolSize /\ ~drained
    BY <1>1, <1>2 DEF PoolInv
  <2>3. IsFiniteSet(holders') /\ Cardinality(holders') <= PoolSize
    BY <1>2, <2>1, <2>2, PoolSizeAssumption
  <2>4. drained' => closed' /\ holders' = {}
    BY <1>2, <2>2
  <2> QED
    BY <2>3, <2>4 DEF PoolInv
<1>8. TypeOK'
  BY <1>1, <1>2, <1>3 DEF TypeOK, requestVars, counters, P!TypeOK
<1> QED
  BY <1>4, <1>5, <1>6, <1>7, <1>8 DEF IInv

(* Answering a request: no item changes, and a request that forwards still    *)
(* does so with the same items.                                               *)
LEMMA AfterAnswer ==
  ASSUME IInv, NEW r \in Requests, phase[r] \in {"idle", "working", "sending"},
         NEW code \in Statuses, NEW n, Answer(r, code, n),
         UNCHANGED <<route, multi, parts, canceled, origin, itemVars, pool, counters, audited>>
  PROVE  IInv'
<1>1. TypeOK /\ LogInv /\ PoolInv
  BY DEF IInv
<1>2. /\ phase' = [phase EXCEPT ![r] = "ended"] /\ phase' \in [Requests -> Phases]
      /\ phase'[r] = "ended"
      /\ \A q \in Requests \ {r} : phase'[q] = phase[q]
      /\ status' \in [Requests -> Statuses]
  BY <1>1 DEF Answer, TypeOK, Phases
<1>3. \A it \in Items : ItemInv(it)'
  <2> SUFFICES ASSUME NEW it \in Items PROVE ItemInv(it)'
    OBVIOUS
  <2>1. ItemInv(it) /\ it[1] \in Requests
    BY DEF IInv, Items
  <2>2. phase[it[1]] # "idle" => phase'[it[1]] # "idle"
    BY <1>2, <2>1
  <2>3. /\ Route(it)' = Route(it) /\ IsImage(it)' = IsImage(it) /\ NeedsSlot(it)' = NeedsSlot(it)
        /\ Demanded(it)' = Demanded(it) /\ Sanitized(it)' = Sanitized(it)
        /\ Entry(it)' = Entry(it) /\ Masks(Route(it))' = Masks(Route(it))
        /\ stage' = stage /\ work' = work /\ outcome' = outcome /\ holders' = holders
    BY DEF itemVars, pool, Route, IsImage, NeedsSlot, Demanded, Sanitized, Entry, Masks
  <2>4. Route(it)'.action = Route(it).action /\ Route(it)'.failOpen = Route(it).failOpen
    BY <2>3
  <2> QED
    BY <2>1, <2>2, <2>3, <2>4 DEF ItemInv
<1>4. \A q \in Requests : ReqInv(q)'
  <2> SUFFICES ASSUME NEW q \in Requests, Forwards(q)' PROVE ReqInv(q)'
    BY DEF ReqInv
  <2>1. Forwards(q) /\ ReqInv(q) /\ ItemsOf(q)' = ItemsOf(q)
    BY <1>2 DEF IInv, Forwards, ItemsOf
  <2> QED
    BY <1>2, <2>1 DEF ReqInv, itemVars
<1>5. LogInv'
  BY <1>1 DEF LogInv, itemVars
<1>6. TypeOK'
  BY <1>1, <1>2 DEF TypeOK, itemVars, pool, counters, P!TypeOK
<1> QED
  BY <1>1, <1>3, <1>4, <1>5, <1>6 DEF IInv, PoolInv, pool

(* A new request keeps it; its items start outside the pool.                  *)
LEMMA AcceptInv == ASSUME IInv, NEW r \in Requests, Accept(r) PROVE IInv'
<1>1. TypeOK /\ LogInv /\ PoolInv /\ ReqInv(r)
  BY DEF IInv
<1>2. PICK rt \in Routes, m \in BOOLEAN, n \in 0 .. MaxParts :
        /\ m \/ n = 1
        /\ route' = [route EXCEPT ![r] = rt]
        /\ multi' = [multi EXCEPT ![r] = m]
        /\ parts' = [parts EXCEPT ![r] = n]
        /\ \E ks \in [1 .. n -> Kinds] :
             kind' = [it \in Items |-> IF it[1] = r /\ it[2] \in 1 .. n
                                       THEN ks[it[2]] ELSE kind[it]]
        /\ stage' = [it \in Items |-> IF it[1] = r /\ it[2] \in 1 .. n
                                       THEN "new" ELSE stage[it]]
  BY DEF Accept
<1>3. /\ phase[r] = "idle" /\ phase' = [phase EXCEPT ![r] = "working"]
      /\ UNCHANGED <<canceled, origin, status, redacted, work, outcome, pool, counters, audited>>
  BY DEF Accept
<1>4. /\ phase' \in [Requests -> Phases] /\ phase'[r] = "working"
      /\ \A q \in Requests \ {r} : /\ phase'[q] = phase[q] /\ route'[q] = route[q]
                                   /\ parts'[q] = parts[q]
      /\ route' \in [Requests -> Routes] /\ multi' \in [Requests -> BOOLEAN]
      /\ parts' \in [Requests -> 0 .. MaxParts]
  BY <1>1, <1>2, <1>3 DEF TypeOK, Phases
<1>5. kind' \in [Items -> Kinds] /\ stage' \in [Items -> Stages]
  BY <1>1, <1>2 DEF TypeOK, Stages
<1>6. \A it \in Items : it[1] # r =>
        kind'[it] = kind[it] /\ stage'[it] = stage[it] /\ it[1] \in Requests
  BY <1>2 DEF Items
<1>7. \A it \in Items : it[1] = r =>
        /\ stage[it] = "absent" /\ stage'[it] \in {"absent", "new"}
  BY <1>2, <1>3 DEF IInv, ItemInv
<1>8. \A it \in Items : ItemInv(it)'
  <2> SUFFICES ASSUME NEW it \in Items PROVE ItemInv(it)'
    OBVIOUS
  <2>1. ItemInv(it)
    BY DEF IInv
  <2>2. CASE it[1] = r
    <3>1. it \notin holders' /\ outcome'[it] = outcome[it]
      BY <1>3, <1>7, <2>1, <2>2 DEF ItemInv, Busy, pool
    <3> QED
      BY <1>4, <1>7, <2>1, <2>2, <3>1 DEF ItemInv, Busy, Finished
  <2>3. CASE it[1] # r
    <3>1. /\ Route(it)' = Route(it) /\ IsImage(it)' = IsImage(it)
          /\ stage'[it] = stage[it] /\ phase'[it[1]] = phase[it[1]]
          /\ work' = work /\ outcome' = outcome /\ holders' = holders /\ audited' = audited
      BY <1>3, <1>4, <1>6, <2>3 DEF Route, IsImage, pool
    <3>2. /\ NeedsSlot(it)' = NeedsSlot(it) /\ Masks(Route(it))' = Masks(Route(it))
          /\ Demanded(it)' = Demanded(it) /\ Entry(it)' = Entry(it)
      BY <3>1 DEF NeedsSlot, Masks, Demanded, Entry, Route
    <3>3. Sanitized(it)' = Sanitized(it)
      BY <3>1, <3>2 DEF Sanitized
    <3>4. Route(it)'.action = Route(it).action /\ Route(it)'.failOpen = Route(it).failOpen
      BY <3>1
    <3> QED
      BY <2>1, <3>1, <3>2, <3>3, <3>4 DEF ItemInv
  <2> QED
    BY <2>2, <2>3
<1>9. \A q \in Requests : ReqInv(q)'
  <2> SUFFICES ASSUME NEW q \in Requests, Forwards(q)' PROVE ReqInv(q)'
    BY DEF ReqInv
  <2>1. q # r
    BY <1>1, <1>3, <1>4 DEF ReqInv, Forwards
  <2>2. Forwards(q) /\ ReqInv(q) /\ ItemsOf(q)' = ItemsOf(q)
    BY <1>3, <1>4, <2>1 DEF IInv, Forwards, ItemsOf
  <2>3. \A it \in ItemsOf(q) : it \in Items /\ it[1] # r
    BY <1>1, <2>1, ItemsShape
  <2> QED
    BY <1>3, <1>4, <1>6, <2>1, <2>2, <2>3 DEF ReqInv
<1>10. LogInv'
  <2> SUFFICES ASSUME NEW e \in audited
               PROVE  /\ stage'[e.item] \in Finished
                      /\ outcome'[e.item] = Output(e.form, e.boxes, "unset")
    BY <1>3 DEF LogInv
  <2>1. /\ e.item \in Items /\ stage[e.item] \in Finished
        /\ outcome[e.item] = Output(e.form, e.boxes, "unset")
    BY <1>1 DEF TypeOK, LogInv
  <2>2. e.item[1] # r
    BY <1>7, <2>1 DEF Finished
  <2> QED
    BY <1>3, <1>6, <2>1, <2>2
<1>11. TypeOK'
  BY <1>1, <1>3, <1>4, <1>5 DEF TypeOK, pool, counters, P!TypeOK
<1> QED
  BY <1>1, <1>3, <1>8, <1>9, <1>10, <1>11 DEF IInv, PoolInv, pool

(* The join keeps it: a request goes on only when no item failed.             *)
LEMMA JoinInv == ASSUME IInv, NEW r \in Requests, Join(r) PROVE IInv'
<1>1. /\ TypeOK /\ LogInv /\ PoolInv /\ ReqInv(r) /\ phase[r] = "working"
      /\ \A it \in ItemsOf(r) : stage[it] = "end"
      /\ UNCHANGED <<route, multi, parts, canceled, origin, itemVars, pool, counters, audited>>
  BY DEF IInv, Join
<1>2. ASSUME NEW i \in Failed(r), NEW n, Answer(r, StatusOf(outcome[<<r, i>>].err), n)
      PROVE  IInv'
  <2>1. StatusOf(outcome[<<r, i>>].err) \in Statuses
    BY DEF StatusOf, Statuses
  <2> QED
    BY <1>1, <1>2, <2>1, AfterAnswer
<1>3. CASE Answer(r, "422", -1)
  BY <1>1, <1>3, AfterAnswer DEF Statuses
<1>4. CASE /\ Failed(r) = {} /\ phase' = [phase EXCEPT ![r] = "sending"]
           /\ UNCHANGED <<status, redacted>>
  <2>1. /\ phase' \in [Requests -> Phases] /\ phase'[r] = "sending"
        /\ \A q \in Requests \ {r} : phase'[q] = phase[q]
    BY <1>1, <1>4 DEF TypeOK, Phases
  <2>2. \A it \in ItemsOf(r) : stage[it] = "end" /\ outcome[it].err = "nil"
    BY <1>1, <1>4 DEF ItemsOf, Failed
  <2>3. \A it \in Items : ItemInv(it)'
    <3> SUFFICES ASSUME NEW it \in Items PROVE ItemInv(it)'
      OBVIOUS
    <3>1. ItemInv(it) /\ it[1] \in Requests
      BY DEF IInv, Items
    <3>2. phase[it[1]] # "idle" => phase'[it[1]] # "idle"
      BY <2>1, <3>1
    <3>3. /\ Route(it)' = Route(it) /\ IsImage(it)' = IsImage(it)
          /\ NeedsSlot(it)' = NeedsSlot(it) /\ Demanded(it)' = Demanded(it)
          /\ Sanitized(it)' = Sanitized(it) /\ Entry(it)' = Entry(it)
          /\ Masks(Route(it))' = Masks(Route(it)) /\ stage' = stage
          /\ work' = work /\ outcome' = outcome /\ holders' = holders
      BY <1>1 DEF itemVars, pool, Route, IsImage, NeedsSlot, Demanded, Sanitized, Entry, Masks
    <3>4. Route(it)'.action = Route(it).action /\ Route(it)'.failOpen = Route(it).failOpen
      BY <3>3
    <3> QED
      BY <1>1, <3>1, <3>2, <3>3, <3>4 DEF ItemInv
  <2>4. \A q \in Requests : ReqInv(q)'
    <3> SUFFICES ASSUME NEW q \in Requests, Forwards(q)' PROVE ReqInv(q)'
      BY DEF ReqInv
    <3>1. ItemsOf(q)' = ItemsOf(q) /\ stage' = stage /\ outcome' = outcome
      BY <1>1 DEF ItemsOf, itemVars
    <3>2. CASE q = r
      BY <2>1, <2>2, <3>1, <3>2 DEF ReqInv
    <3>3. CASE q # r
      <4>1. Forwards(q) /\ ReqInv(q) /\ phase'[q] = phase[q]
        BY <1>1, <2>1, <3>3 DEF IInv, Forwards
      <4> QED
        BY <3>1, <4>1 DEF ReqInv
    <3> QED
      BY <3>2, <3>3
  <2>5. LogInv'
    BY <1>1 DEF LogInv, itemVars
  <2>6. TypeOK'
    BY <1>1, <1>4, <2>1 DEF TypeOK, itemVars, pool, counters, P!TypeOK
  <2> QED
    BY <1>1, <2>3, <2>4, <2>5, <2>6 DEF IInv, PoolInv, pool
<1> QED
  BY <1>2, <1>3, <1>4 DEF Join

(* Steps that touch neither the items nor the phase of a request, and let an  *)
(* origin receive bytes only of a request that is being sent.                 *)
LEMMA AfterOutside ==
  ASSUME IInv, TypeOK', PoolInv',
         UNCHANGED <<phase, route, parts, itemVars, holders, audited>>,
         \A r \in Requests : origin'[r] = origin[r] \/ phase[r] = "sending"
  PROVE  IInv'
<1>1. \A it \in Items : ItemInv(it)'
  BY DEF IInv, ItemInv, itemVars, Route, IsImage, NeedsSlot, Demanded, Sanitized, Entry, Masks
<1>2. \A r \in Requests : ReqInv(r)'
  <2> SUFFICES ASSUME NEW r \in Requests, Forwards(r)' PROVE ReqInv(r)'
    BY DEF ReqInv
  <2>1. Forwards(r) /\ ReqInv(r) /\ ItemsOf(r)' = ItemsOf(r)
    BY DEF IInv, Forwards, ItemsOf
  <2> QED
    BY <2>1 DEF ReqInv, itemVars
<1>3. LogInv'
  BY DEF IInv, LogInv, itemVars
<1> QED
  BY <1>1, <1>2, <1>3 DEF IInv

(* So does every other step of a request.                                     *)
LEMMA RequestInv == ASSUME IInv, NEW r \in Requests, RequestStep(r) PROVE IInv'
<1>1. TypeOK /\ PoolInv
  BY DEF IInv
<1>2. CASE Refuse(r)
  <2>1. PICK code \in {"502", "413", "422"} : Answer(r, code, -1)
    BY <1>2 DEF Refuse
  <2> QED
    BY <1>2, <2>1, AfterAnswer DEF Refuse, Statuses
<1>3. CASE Cancel(r)
  <2>1. TypeOK' /\ PoolInv'
    BY <1>1, <1>3 DEF Cancel, TypeOK, PoolInv, itemVars, pool, counters, P!TypeOK
  <2> QED
    BY <1>3, <2>1, AfterOutside DEF Cancel, pool
<1>4. CASE Send(r)
  <2>1. /\ origin' \in [Requests -> {"nothing", "partial", "complete"}]
        /\ \A q \in Requests : origin'[q] = origin[q] \/ phase[q] = "sending"
    BY <1>1, <1>4 DEF Send, TypeOK
  <2>2. TypeOK' /\ PoolInv'
    BY <1>1, <1>4, <2>1 DEF Send, TypeOK, PoolInv, itemVars, pool, counters, P!TypeOK
  <2> QED
    BY <1>4, <2>1, <2>2, AfterOutside DEF Send, pool
<1>5. CASE Relay(r)
  BY <1>5, AfterAnswer DEF Relay, Statuses
<1>6. CASE SendFails(r)
  <2>1. PICK code \in {"none", "502"} : Answer(r, code, -1)
    BY <1>6 DEF SendFails
  <2> QED
    BY <1>6, <2>1, AfterAnswer DEF SendFails, Statuses
<1> QED
  BY <1>2, <1>3, <1>4, <1>5, <1>6, AcceptInv, JoinInv DEF RequestStep

(* Draining closes the pool and touches nothing else.                         *)
LEMMA DrainInv == ASSUME IInv, Drain PROVE IInv'
<1>1. TypeOK /\ PoolInv
  BY DEF IInv
<1>2. /\ UNCHANGED <<requestVars, itemVars, counters, audited, holders>>
      /\ closed' = TRUE /\ drained' = (drained \/ holders = {})
  BY DEF Drain, P!Close
<1>3. PoolInv'
  BY <1>1, <1>2 DEF PoolInv
<1>4. TypeOK'
  BY <1>1, <1>2 DEF TypeOK, requestVars, itemVars, counters, P!TypeOK
<1> QED
  BY <1>2, <1>3, <1>4, AfterOutside DEF requestVars

(* The invariant holds before the first upload.                               *)
LEMMA InitInv == Init => IInv
<1> SUFFICES ASSUME Init PROVE IInv
  OBVIOUS
<1>1. (CHOOSE rt \in Routes : TRUE) \in Routes
  BY RoutesAssumption
<1>2. /\ phase \in [Requests -> Phases] /\ multi \in [Requests -> BOOLEAN]
      /\ canceled \in [Requests -> BOOLEAN] /\ status \in [Requests -> Statuses]
      /\ origin \in [Requests -> {"nothing", "partial", "complete"}]
      /\ stage \in [Items -> Stages]
  BY DEF Init, Phases, Statuses, Stages
<1>3. /\ route \in [Requests -> Routes] /\ parts \in [Requests -> 0 .. MaxParts]
      /\ kind \in [Items -> Kinds]
  BY <1>1, MaxPartsAssumption, KindsAssumption DEF Init
<1>4. /\ work \in [Items -> [form : Forms, boxes : Nat]]
      /\ outcome \in [Items -> Outcomes]
  BY DEF Init, Nothing, NoOutcome, Forms, Outcomes, Errors
<1>5. /\ processed \in Nat /\ blocked \in Nat /\ sanitized \in Nat /\ regionsMasked \in Nat
      /\ byReason \in [Reasons -> Nat]
  BY DEF Init
<1>6. holders = {} /\ closed = FALSE /\ drained = FALSE /\ audited = {}
  BY DEF Init, P!Init
<1>7. TypeOK
  BY <1>2, <1>3, <1>4, <1>5, <1>6 DEF TypeOK, P!TypeOK
<1>8. \A it \in Items : ItemInv(it)
  BY <1>6 DEF Init, ItemInv, Busy, Finished, NoOutcome
<1>9. \A r \in Requests : ReqInv(r)
  BY DEF Init, ReqInv, Forwards
<1>10. LogInv
  BY <1>6 DEF LogInv
<1>11. PoolInv
  BY <1>6, FS_EmptySet, PoolSizeAssumption DEF PoolInv
<1> QED
  BY <1>7, <1>8, <1>9, <1>10, <1>11 DEF IInv

(* Every step of the gateway keeps the invariant.                             *)
LEMMA NextInv == IInv /\ [Next]_vars => IInv'
<1> SUFFICES ASSUME IInv, [Next]_vars PROVE IInv'
  OBVIOUS
<1>1. ASSUME NEW it \in Items, ItemStep(it) PROVE IInv'
  BY <1>1, ClassifyInv, AcquireInv, AcquireRefusedInv, EnterInv, DetectInv, SealInv,
     ReleaseInv DEF ItemStep
<1>2. CASE UNCHANGED vars
  <2>1. TypeOK' /\ PoolInv'
    BY <1>2 DEF IInv, TypeOK, PoolInv, vars, requestVars, itemVars, pool, counters, P!TypeOK
  <2> QED
    BY <1>2, <2>1, AfterOutside DEF vars, requestVars, pool
<1> QED
  BY <1>1, <1>2, RequestInv, DrainInv DEF Next

(* Every variable keeps its type (redacted apart, which is a sum over parts:  *)
(* GatewayHeaderMatchesAudit below says which).                               *)
THEOREM GatewayTypeOK == Spec => []TypeOK
<1>1. IInv => TypeOK
  BY DEF IInv
<1> QED
  BY <1>1, InitInv, NextInv, PTL DEF Spec

(* The cardinal safety property, for any number of uploads and parts in any   *)
(* interleaving: no byte of an upload reaches the origin unless every part of *)
(* it was sanitized as its route demands.                                     *)
THEOREM GatewayForwardsOnlySanitized == Spec => []OriginSeesOnlySanitized
<1>1. IInv => OriginSeesOnlySanitized
  <2> SUFFICES ASSUME IInv, NEW r \in Requests, origin[r] # "nothing", NEW it \in ItemsOf(r)
               PROVE  Sanitized(it)
    BY DEF OriginSeesOnlySanitized
  <2>1. it \in Items
    BY ItemsShape DEF IInv
  <2>2. stage[it] = "end" /\ outcome[it].err = "nil"
    BY DEF IInv, ReqInv, Forwards
  <2> QED
    BY <2>1, <2>2 DEF IInv, ItemInv, Finished
<1> QED
  BY <1>1, InitInv, NextInv, PTL DEF Spec

(* The audit line of every image is complete before the origin sees it.       *)
THEOREM GatewayAuditsBeforeForwarding == Spec => []AuditedBeforeForward
<1>1. IInv => AuditedBeforeForward
  <2> SUFFICES ASSUME IInv, NEW r \in Requests, origin[r] # "nothing",
                      NEW it \in ItemsOf(r), IsImage(it), ~Route(it).failOpen
               PROVE  Entry(it) \in audited
    BY DEF AuditedBeforeForward
  <2>1. it \in Items
    BY ItemsShape DEF IInv
  <2>2. stage[it] = "end" /\ outcome[it].err = "nil"
    BY DEF IInv, ReqInv, Forwards
  <2> QED
    BY <2>1, <2>2 DEF IInv, ItemInv, Finished
<1> QED
  BY <1>1, InitInv, NextInv, PTL DEF Spec

(* A line of the audit log never describes an output that was not produced.   *)
THEOREM GatewayAuditTruthful == Spec => []AuditTruthful
<1>1. IInv => AuditTruthful
  BY DEF IInv, LogInv, AuditTruthful
<1> QED
  BY <1>1, InitInv, NextInv, PTL DEF Spec

(* A disconnect is a block on every route, fail-open or not.                  *)
THEOREM GatewayDisconnectBlocks == Spec => []DisconnectNeverFailsOpen
<1>1. IInv => DisconnectNeverFailsOpen
  BY DEF IInv, ItemInv, DisconnectNeverFailsOpen
<1> QED
  BY <1>1, InitInv, NextInv, PTL DEF Spec

(* The holders are the items in a busy stage of a masking route.              *)
LEMMA HoldersAreJobs == IInv => SlotsAreJobs
<1> SUFFICES ASSUME IInv PROVE holders = ImageJobs
  BY DEF SlotsAreJobs
<1>1. holders \subseteq Items
  BY DEF IInv, TypeOK, P!TypeOK
<1>2. \A it \in Items : it \in holders <=> it \in ImageJobs
  BY DEF IInv, ItemInv, ImageJobs, Busy, NeedsSlot
<1> QED
  BY <1>1, <1>2 DEF ImageJobs

(* No path out of sanitizeItem leaks a slot or works on an image without one. *)
THEOREM GatewaySlotsAreJobs == Spec => []SlotsAreJobs
BY HoldersAreJobs, InitInv, NextInv, PTL DEF Spec

(* The images being worked on never exceed the size of the pool.              *)
THEOREM GatewayJobsWithinBound == Spec => []JobsWithinBound
<1>1. IInv => JobsWithinBound
  BY HoldersAreJobs DEF IInv, PoolInv, JobsWithinBound, SlotsAreJobs
<1> QED
  BY <1>1, InitInv, NextInv, PTL DEF Spec

(* When Drain has seen the pool empty no image is worked on any more.         *)
THEOREM GatewayDrainedMeansNoJob == Spec => []DrainedMeansNoJob
<1>1. IInv => DrainedMeansNoJob
  BY HoldersAreJobs DEF IInv, PoolInv, DrainedMeansNoJob, SlotsAreJobs
<1> QED
  BY <1>1, InitInv, NextInv, PTL DEF Spec
-----------------------------------------------------------------------------
(* The counters of blocked items.  An item that has not returned has no       *)
(* outcome yet, so it is not among those that were counted.                   *)

BlockedFor(why) == {it \in BlockedItems : outcome[it].cause = why}

CountInv ==
  /\ \A it \in Items : stage[it] \notin Finished => outcome[it] = NoOutcome
  /\ IsFiniteSet(BlockedItems)
  /\ blocked = Cardinality(BlockedItems)
  /\ \A why \in Reasons : byReason[why] = Cardinality(BlockedFor(why))

IsBlock(o) == o.err \in {"block", "drop"} /\ o.cause # "unset"

\* An item returns, and is counted exactly if it was blocked.
Counted(it, o) == /\ stage[it] \notin Finished
                  /\ Finish(it, o)
                  /\ \/ IsBlock(o) /\ CountBlocked(o.cause)
                     \/ ~IsBlock(o) /\ UNCHANGED <<blocked, byReason>>

(* What a set of items loses or gains when one of them returns.               *)
LEMMA CountOneMore ==
  ASSUME NEW S, NEW T, IsFiniteSet(S), NEW x, x \notin S, T = S \union {x}
  PROVE  IsFiniteSet(T) /\ Cardinality(T) = Cardinality(S) + 1
BY FS_AddElement

LEMMA AfterCounted ==
  ASSUME TypeOK, CountInv, NEW it \in Items, NEW o, o.cause \in Reasons \union {"unset"},
         Counted(it, o)
  PROVE  CountInv'
<1>1. /\ outcome'[it] = o /\ stage'[it] \in Finished
      /\ \A j \in Items \ {it} : outcome'[j] = outcome[j] /\ stage'[j] = stage[j]
  BY DEF TypeOK, Counted, Finish, Stage, Finished
<1>2. outcome[it] = NoOutcome
  BY DEF Counted, CountInv
<1>3. it \notin BlockedItems
  BY <1>2 DEF BlockedItems, NoOutcome
<1>4. \A j \in Items : stage'[j] \notin Finished => outcome'[j] = NoOutcome
  BY <1>1 DEF CountInv
<1>5. \A why \in Reasons : IsFiniteSet(BlockedFor(why)) /\ it \notin BlockedFor(why)
  <2>1. \A why \in Reasons : BlockedFor(why) \subseteq BlockedItems
    BY DEF BlockedFor
  <2> QED BY <1>3, <2>1, FS_Subset DEF CountInv
<1>6. CASE IsBlock(o) /\ CountBlocked(o.cause)
  <2>1. o.cause \in Reasons
    BY <1>6 DEF IsBlock
  <2>2. BlockedItems' = BlockedItems \union {it}
    BY <1>1, <1>6 DEF BlockedItems, IsBlock
  <2>3. IsFiniteSet(BlockedItems') /\ Cardinality(BlockedItems') = Cardinality(BlockedItems) + 1
    BY <1>3, <2>2, CountOneMore DEF CountInv
  <2>4. blocked' = Cardinality(BlockedItems')
    BY <1>6, <2>3 DEF CountInv, CountBlocked
  <2>5. ASSUME NEW why \in Reasons
        PROVE  byReason'[why] = Cardinality(BlockedFor(why)')
    <3>1. byReason'[why] = IF why = o.cause THEN byReason[why] + 1 ELSE byReason[why]
      BY <1>6, <2>1 DEF CountBlocked, TypeOK
    <3>2. BlockedFor(why)' = IF why = o.cause THEN BlockedFor(why) \union {it}
                                              ELSE BlockedFor(why)
      BY <1>1, <1>3, <2>2 DEF BlockedFor, BlockedItems
    <3>3. Cardinality(BlockedFor(why) \union {it}) = Cardinality(BlockedFor(why)) + 1
      BY <1>5, CountOneMore
    <3> QED BY <3>1, <3>2, <3>3 DEF CountInv
  <2> QED BY <1>4, <2>3, <2>4, <2>5 DEF CountInv
<1>7. CASE ~IsBlock(o) /\ UNCHANGED <<blocked, byReason>>
  <2>1. BlockedItems' = BlockedItems
    BY <1>1, <1>3, <1>7 DEF BlockedItems, IsBlock
  <2>2. \A why \in Reasons : BlockedFor(why)' = BlockedFor(why)
    BY <1>1, <1>3, <2>1 DEF BlockedFor, BlockedItems
  <2> QED BY <1>4, <1>7, <2>1, <2>2 DEF CountInv
<1> QED BY <1>6, <1>7 DEF Counted

LEMMA FailClosedCounts ==
  ASSUME NEW it \in Items, stage[it] \notin Finished, NEW why \in Reasons, FailClosed(it, why)
  PROVE  \E o : o.cause \in Reasons /\ Counted(it, o)
<1>1. CASE Finish(it, Output("original", 0, why)) /\ UNCHANGED <<blocked, byReason>>
  BY <1>1 DEF Counted, Output, IsBlock
<1>2. CASE Block(it, why)
  <2>1. IsBlock(Refusal("block", why)) /\ Refusal("block", why).cause = why
    BY DEF IsBlock, Refusal, Reasons
  <2> QED BY <1>2, <2>1 DEF Counted, Block
<1> QED BY <1>1, <1>2 DEF FailClosed

(* A step of an item either returns, counted if blocked, or leaves what was   *)
(* counted alone.                                                             *)
LEMMA ItemCounts ==
  ASSUME NEW it \in Items, ItemStep(it)
  PROVE  \/ \E o : o.cause \in Reasons \union {"unset"} /\ Counted(it, o)
         \/ \E s \in Stages :
              /\ stage[it] \in Finished => s \in Finished
              /\ Stage(it, s) /\ UNCHANGED <<outcome, blocked, byReason>>
<1> DEFINE Returns == \E o : o.cause \in Reasons \union {"unset"} /\ Counted(it, o)
           Moves == \E s \in Stages :
                      /\ stage[it] \in Finished => s \in Finished
                      /\ Stage(it, s) /\ UNCHANGED <<outcome, blocked, byReason>>
<1> SUFFICES Returns \/ Moves
  OBVIOUS
<1>1. ASSUME NEW o, ~IsBlock(o), o.cause \in Reasons \union {"unset"}, Finish(it, o),
             stage[it] \notin Finished, UNCHANGED <<blocked, byReason>>
      PROVE  Returns
  BY <1>1 DEF Counted
<1>2. ASSUME NEW s \in {"want", "admitted", "detect", "seal"}, Stage(it, s),
             stage[it] \notin Finished, UNCHANGED <<outcome, blocked, byReason>>
      PROVE  Moves
  BY <1>2 DEF Stages, Finished
<1>3. ASSUME NEW why \in Reasons, FailClosed(it, why), stage[it] \notin Finished
      PROVE  Returns
  BY <1>3, FailClosedCounts
<1>4. ASSUME NEW f, NEW n, NEW why \in Reasons \union {"unset"}, stage[it] \notin Finished,
             Finish(it, Output(f, n, why)), UNCHANGED <<blocked, byReason>>
      PROVE  Returns
  <2>1. ~IsBlock(Output(f, n, why)) /\ Output(f, n, why).cause = why
    BY DEF IsBlock, Output
  <2> QED BY <1>1, <1>4, <2>1
<1>5. ASSUME NEW e, stage[it] \notin Finished,
             Finish(it, Refusal(e, "unset")), UNCHANGED <<blocked, byReason>>
      PROVE  Returns
  <2>1. ~IsBlock(Refusal(e, "unset")) /\ Refusal(e, "unset").cause = "unset"
    BY DEF IsBlock, Refusal
  <2> QED BY <1>1, <1>5, <2>1
<1>6. ASSUME NEW e \in {"block", "drop"}, NEW why \in Reasons, stage[it] \notin Finished,
             Finish(it, Refusal(e, why)), CountBlocked(why)
      PROVE  Returns
  <2>1. IsBlock(Refusal(e, why)) /\ Refusal(e, why).cause = why
    BY DEF IsBlock, Refusal, Reasons
  <2> QED BY <1>6, <2>1 DEF Counted
<1>7. ASSUME NEW f, NEW n, Prepared(it, f, n), stage[it] \notin Finished PROVE Moves
  BY <1>2, <1>7 DEF Prepared
<1> HIDE DEF Returns, Moves
<1>8. CASE Classify(it)
  BY <1>2, <1>5, <1>8 DEF Classify, counters, Finished
<1>9. CASE Acquire(it)
  BY <1>2, <1>9 DEF Acquire, counters, Finished
<1>10. CASE AcquireRefused(it)
  BY <1>5, <1>10 DEF AcquireRefused, counters, Finished
<1>11. CASE Enter(it)
  <2>0. stage[it] \notin Finished
    BY <1>11 DEF Enter, Finished
  <2>1. CASE Drop(it)
    BY <1>6, <2>0, <2>1 DEF Drop, Reasons
  <2>2. CASE Pass(it)
    <3>1. "strip" \in Reasons
      BY DEF Reasons
    <3> QED BY <1>3, <1>4, <1>7, <2>0, <2>2, <3>1 DEF Pass
  <2>3. CASE Decode(it)
    <3>1. \A k : DecodeError(k) \in Reasons
      BY DEF DecodeError, Reasons
    <3> QED BY <1>2, <1>3, <1>4, <2>0, <2>3, <3>1 DEF Decode
  <2> QED BY <1>11, <2>1, <2>2, <2>3 DEF Enter
<1>12. CASE Detect(it)
  <2>1. stage[it] \notin Finished /\ "canceled" \in Reasons /\ "detector_error" \in Reasons
    BY <1>12 DEF Detect, Finished, Reasons
  <2> QED BY <1>3, <1>6, <1>7, <1>12, <2>1 DEF Detect, Block
<1>13. CASE Seal(it)
  <2>1. stage[it] \notin Finished /\ "encode" \in Reasons /\ "audit" \in Reasons
    BY <1>13 DEF Seal, Finished, Reasons
  <2> QED BY <1>3, <1>4, <1>13, <2>1 DEF Seal
<1>14. CASE Release(it)
  <2>1. "end" \in Stages /\ "end" \in Finished
    BY DEF Stages, Finished
  <2> QED BY <1>14, <2>1 DEF Release, counters, Moves
<1> QED BY <1>8, <1>9, <1>10, <1>11, <1>12, <1>13, <1>14 DEF ItemStep

LEMMA CountUnchanged ==
  ASSUME CountInv, UNCHANGED <<outcome, blocked, byReason>>,
         \A it \in Items : stage'[it] \notin Finished => stage[it] \notin Finished
  PROVE  CountInv'
BY DEF CountInv, BlockedItems, BlockedFor

LEMMA NextCount == IInv /\ CountInv /\ [Next]_vars => CountInv'
<1> SUFFICES ASSUME IInv, CountInv, [Next]_vars PROVE CountInv'
  OBVIOUS
<1>0. TypeOK
  BY DEF IInv
<1>1. ASSUME NEW it \in Items, ItemStep(it) PROVE CountInv'
  <2>1. CASE \E o : o.cause \in Reasons \union {"unset"} /\ Counted(it, o)
    BY <1>0, <2>1, AfterCounted
  <2>2. CASE \E s \in Stages : /\ stage[it] \in Finished => s \in Finished
                               /\ Stage(it, s) /\ UNCHANGED <<outcome, blocked, byReason>>
    <3>1. \A j \in Items : stage'[j] \notin Finished => stage[j] \notin Finished
      <4>1. PICK s \in Stages : (stage[it] \in Finished => s \in Finished) /\ Stage(it, s)
        BY <2>2
      <4>2. stage'[it] = s /\ \A j \in Items \ {it} : stage'[j] = stage[j]
        BY <1>0, <1>1, <4>1 DEF Stage, TypeOK
      <4> QED BY <4>1, <4>2
    <3> QED BY <2>2, <3>1, CountUnchanged
  <2> QED BY <1>1, <2>1, <2>2, ItemCounts
<1>2. ASSUME NEW r \in Requests, RequestStep(r) PROVE CountInv'
  <2>1. CASE Accept(r)
    <3>1. \A it \in Items : it[1] = r => stage[it] = "absent"
      BY <1>0, <2>1 DEF Accept, IInv, ItemInv
    <3>2. \A it \in Items : stage'[it] \notin Finished => stage[it] \notin Finished
      BY <2>1, <3>1 DEF Accept, Finished
    <3> QED BY <2>1, <3>2, CountUnchanged DEF Accept, counters
  <2>2. CASE ~Accept(r)
    <3>1. UNCHANGED <<stage, outcome, blocked, byReason>>
      BY <1>2, <2>2 DEF RequestStep, Refuse, Cancel, Join, Send, Relay, SendFails, itemVars, counters
    <3> QED BY <3>1, CountUnchanged
  <2> QED BY <2>1, <2>2
<1>3. CASE Drain \/ UNCHANGED vars
  <2>1. UNCHANGED <<stage, outcome, blocked, byReason>>
    BY <1>3 DEF Drain, vars, itemVars, counters
  <2> QED BY <2>1, CountUnchanged
<1> QED BY <1>1, <1>2, <1>3 DEF Next

\* A part that is there is one of its upload's.
PresentInv == \A it \in Items : stage[it] # "absent" => it \in ItemsOf(it[1])

LEMMA NextPresent == IInv /\ PresentInv /\ [Next]_vars => PresentInv'
<1> SUFFICES ASSUME IInv, PresentInv, [Next]_vars PROVE PresentInv'
  OBVIOUS
<1>0. TypeOK
  BY DEF IInv
<1>1. ASSUME NEW it \in Items, ItemStep(it) PROVE PresentInv'
  <2>1. stage[it] # "absent" /\ UNCHANGED parts
    BY <1>1 DEF ItemStep, Classify, Acquire, AcquireRefused, Enter, Detect, Seal, Release,
         requestVars
  <2>2. \A j \in Items \ {it} : stage'[j] = stage[j]
    <3>1. CASE \E o : Counted(it, o)
      BY <1>0, <3>1 DEF Counted, Finish, Stage, TypeOK
    <3>2. CASE \E s : Stage(it, s)
      BY <1>0, <3>2 DEF Stage, TypeOK
    <3> QED BY <1>1, <3>1, <3>2, ItemCounts
  <2> QED BY <2>1, <2>2 DEF PresentInv, ItemsOf
<1>2. ASSUME NEW r \in Requests, RequestStep(r) PROVE PresentInv'
  <2>1. CASE Accept(r)
    <3>1. PICK n \in 0 .. MaxParts :
            /\ parts' = [parts EXCEPT ![r] = n]
            /\ stage' = [it \in Items |-> IF it[1] = r /\ it[2] \in 1 .. n
                                           THEN "new" ELSE stage[it]]
      BY <2>1 DEF Accept
    <3>2. \A it \in Items : it[1] = r => stage[it] = "absent"
      BY <1>0, <2>1 DEF Accept, IInv, ItemInv
    <3> SUFFICES ASSUME NEW it \in Items, stage'[it] # "absent"
                 PROVE  it \in ItemsOf(it[1])'
      BY DEF PresentInv
    <3>3. it[1] \in Requests /\ it = <<it[1], it[2]>>
      BY DEF Items
    <3>4. CASE it[1] = r
      <4>1. it[2] \in 1 .. n
        BY <3>1, <3>2, <3>4
      <4>2. parts'[it[1]] = n
        BY <1>0, <3>1, <3>4 DEF TypeOK
      <4> QED BY <3>3, <4>1, <4>2 DEF ItemsOf
    <3>5. CASE it[1] # r
      <4>1. stage[it] # "absent" /\ parts'[it[1]] = parts[it[1]]
        BY <1>0, <3>1, <3>3, <3>5 DEF TypeOK
      <4> QED BY <4>1 DEF PresentInv, ItemsOf
    <3> QED BY <3>4, <3>5
  <2>2. CASE ~Accept(r)
    <3>1. UNCHANGED <<stage, parts>>
      BY <1>2, <2>2 DEF RequestStep, Refuse, Cancel, Join, Send, Relay, SendFails, itemVars
    <3> QED BY <3>1 DEF PresentInv, ItemsOf
  <2> QED BY <2>1, <2>2
<1>3. CASE Drain \/ UNCHANGED vars
  <2>1. UNCHANGED <<stage, parts>>
    BY <1>3 DEF Drain, vars, itemVars, requestVars
  <2> QED BY <2>1 DEF PresentInv, ItemsOf
<1> QED BY <1>1, <1>2, <1>3 DEF Next

LEMMA InitCount == Init => CountInv /\ PresentInv
<1> SUFFICES ASSUME Init PROVE CountInv /\ PresentInv
  OBVIOUS
<1>1. BlockedItems = {} /\ \A why \in Reasons : BlockedFor(why) = {}
  BY DEF Init, BlockedItems, BlockedFor, NoOutcome
<1> QED BY <1>1, FS_EmptySet DEF Init, CountInv, PresentInv

(* The counter, its breakdown and the refused items agree, and nothing of an  *)
(* upload with such an item has left for the origin.                          *)
THEOREM GatewayBlockedMeansNothingSent == Spec => []BlockedMeansNothingSent
<1>1. IInv /\ CountInv /\ PresentInv => BlockedMeansNothingSent
  <2> SUFFICES ASSUME IInv, CountInv, PresentInv PROVE BlockedMeansNothingSent
    OBVIOUS
  <2>1. ASSUME NEW it \in BlockedItems PROVE origin[it[1]] = "nothing"
    <3>1. it \in Items /\ it[1] \in Requests /\ outcome[it].err # "nil" /\ stage[it] \in Finished
      BY DEF BlockedItems, Items, CountInv, NoOutcome
    <3>2. it \in ItemsOf(it[1])
      BY <3>1 DEF PresentInv, Finished
    <3> QED BY <3>1, <3>2 DEF IInv, ReqInv, Forwards
  <2> QED BY <2>1 DEF CountInv, BlockedFor, BlockedMeansNothingSent
<1> QED BY <1>1, InitInv, InitCount, NextInv, NextCount, NextPresent, PTL DEF Spec

-----------------------------------------------------------------------------
(* The boxes.  The log, the metric and the header add up the same numbers in  *)
(* three different ways: over the lines of the log, one addition per masked   *)
(* image, and over the parts of a request when it is answered.  BoxInv        *)
(* relates them.  The log only grows, and a line is written in the same step  *)
(* that ends its item's work, so a request whose items have all ended has all *)
(* its lines; what remains is that two sums are equal because the parts that  *)
(* have boxes and the lines of the log are matched one to one.                *)

(* The boxes of a set of log lines, and of the parts of a request.             *)
BoxSum(A) == MapThenSumSet(LAMBDA e : e.boxes, A)
BoxesOf(A) == [e \in A |-> e.boxes]

(* Both are sums of a function, so the lemmas about Summing apply to them.     *)
LEMMA BoxSumIs ==
  ASSUME NEW A, IsFiniteSet(A)
  PROVE  \E g : Summing(g, BoxesOf(A), A) /\ BoxSum(A) = g[A]
<1> DEFINE Eqn(g) == g = [s \in SUBSET A |->
                         IF s = {} THEN 0
                         ELSE (CHOOSE x \in s : TRUE).boxes + g[s \ {CHOOSE x \in s : TRUE}]]
           it == CHOOSE g : Eqn(g)
<1>1. PICK g : SumFcn(g, BoxesOf(A), A)
  BY SumFcnExists
<1>2. \A s \in SUBSET A : s # {} => BoxesOf(A)[Pick(s)] = (CHOOSE x \in s : TRUE).boxes
  BY DEF Pick, BoxesOf
<1>3. Eqn(g)
  BY <1>1, <1>2 DEF SumFcn, Pick
<1>4. Eqn(it)
  <2> HIDE DEF Eqn
  <2> QED BY <1>3
<1>5. SumFcn(it, BoxesOf(A), A)
  <2> HIDE DEF it
  <2> QED BY <1>2, <1>4 DEF SumFcn, Pick
<1>6. BoxSum(A) = it[A]
  BY DEF BoxSum, MapThenSumSet, MapThenFoldSet
<1> QED BY <1>5, <1>6, SumFcnUnfolds

LEMMA AuditedBoxesIs == \A S : AuditedBoxes(S) = BoxSum({e \in audited : e.item \in S})
BY DEF AuditedBoxes, BoxSum, MapThenSumSet, MapThenFoldSet

PartSum(o, r, n) == MapThenSumSet(LAMBDA i : o[<<r, i>>].boxes, 1 .. n)
PartBoxes(o, r, n) == [i \in 1 .. n |-> o[<<r, i>>].boxes]

LEMMA BoxesIs == \A r : Boxes(r) = PartSum(outcome, r, parts[r])
BY DEF Boxes, PartSum, MapThenSumSet, MapThenFoldSet

LEMMA PartSumIs ==
  ASSUME NEW o, NEW r, NEW n \in Nat
  PROVE  \E g : Summing(g, PartBoxes(o, r, n), 1 .. n) /\ PartSum(o, r, n) = g[1 .. n]
<1> DEFINE A == 1 .. n
           val(s) == o[<<r, CHOOSE x \in s : TRUE>>].boxes
           Eqn(g) == g = [s \in SUBSET A |->
                         IF s = {} THEN 0
                         ELSE val(s) + g[s \ {CHOOSE x \in s : TRUE}]]
           it == CHOOSE g : Eqn(g)
<1>0. IsFiniteSet(A)
  BY FS_Interval
<1>1. PICK g : SumFcn(g, PartBoxes(o, r, n), A)
  <2> HIDE DEF A
  <2> QED BY <1>0, SumFcnExists
<1>2. \A s \in SUBSET A : s # {} => PartBoxes(o, r, n)[Pick(s)] = val(s)
  BY DEF Pick, PartBoxes
<1>3. Eqn(g)
  <2> HIDE DEF A
  <2> QED BY <1>1, <1>2 DEF SumFcn, Pick
<1>4. Eqn(it)
  <2> HIDE DEF Eqn
  <2> QED BY <1>3
<1>5. SumFcn(it, PartBoxes(o, r, n), A)
  <2> HIDE DEF it, A, val
  <2> QED BY <1>2, <1>4 DEF SumFcn, Pick
<1>6. PartSum(o, r, n) = it[A]
  BY DEF PartSum, MapThenSumSet, MapThenFoldSet
<1> QED BY <1>5, <1>6, SumFcnUnfolds

(* A line adds its boxes.                                                     *)
LEMMA BoxSumEmpty == BoxSum({}) = 0
<1>1. PICK g : Summing(g, BoxesOf({}), {}) /\ BoxSum({}) = g[{}]
  BY BoxSumIs, FS_EmptySet
<1> QED BY <1>1 DEF Summing

LEMMA BoxSumAdd ==
  ASSUME NEW A, IsFiniteSet(A), NEW x, x \notin A, \A e \in A \union {x} : e.boxes \in Int
  PROVE  BoxSum(A \union {x}) = BoxSum(A) + x.boxes
<1> DEFINE B == A \union {x}
           f == BoxesOf(A)
           e == BoxesOf(B)
<1>1. IsFiniteSet(B)
  BY FS_AddElement
<1>2. PICK g : Summing(g, f, A) /\ BoxSum(A) = g[A]
  BY BoxSumIs
<1>3. PICK h : Summing(h, e, B) /\ BoxSum(B) = h[B]
  BY <1>1, BoxSumIs
<1>4. /\ \A y \in A : e[y] = f[y] /\ f[y] \in Int
      /\ \A y \in B : e[y] \in Int
      /\ e[x] = x.boxes /\ x \in B /\ B \in SUBSET B /\ A \in SUBSET A /\ A \subseteq B
      /\ B \ {x} = A
  BY DEF BoxesOf
<1> HIDE DEF B, f, e
<1>5. h[A] = g[A]
  <2>1. \A s \in SUBSET A : h[s] = g[s]
    BY <1>1, <1>2, <1>3, <1>4, SummingUnique
  <2> QED BY <2>1, <1>4
<1>6. h[B] = e[x] + h[B \ {x}]
  BY <1>1, <1>3, <1>4, SummingRemove
<1>7. g[A] \in Int /\ x.boxes \in Int
  <2>1. \A s \in SUBSET A : g[s] \in Int
    BY <1>2, <1>4, SummingInt
  <2> QED BY <2>1, <1>4 DEF B
<1>8. BoxSum(B) = x.boxes + BoxSum(A)
  BY <1>2, <1>3, <1>4, <1>5, <1>6
<1>9. BoxSum(A) \in Int
  BY <1>2, <1>7
<1> QED BY <1>7, <1>8, <1>9 DEF B

(* If every line is of a part, no two of the same one, with the part's boxes, *)
(* and every part with boxes has a line, the two sums are equal.              *)
LEMMA PartsMatch ==
  ASSUME NEW A, IsFiniteSet(A), NEW o, NEW r, NEW n \in Nat,
         \A i \in 1 .. n : o[<<r, i>>].boxes \in Int,
         \A e \in A : /\ \E i \in 1 .. n : e.item = <<r, i>>
                      /\ e.boxes = o[e.item].boxes,
         \A e, d \in A : e.item = d.item => e = d,
         \A i \in 1 .. n : o[<<r, i>>].boxes = 0 \/ \E e \in A : e.item = <<r, i>>
  PROVE  PartSum(o, r, n) = BoxSum(A)
<1> DEFINE S == 1 .. n
           f == PartBoxes(o, r, n)
           b == BoxesOf(A)
           m == [e \in A |-> e.item[2]]
<1>1. IsFiniteSet(S)
  BY FS_Interval
<1>2. PICK g : Summing(g, f, S) /\ PartSum(o, r, n) = g[S]
  BY PartSumIs
<1>3. PICK h : Summing(h, b, A) /\ BoxSum(A) = h[A]
  BY BoxSumIs
<1>4. /\ \A x \in S : f[x] \in Int /\ f[x] = o[<<r, x>>].boxes
      /\ \A e \in A : b[e] = e.boxes
  BY DEF PartBoxes, BoxesOf
<1>5. \A e \in A : /\ m[e] \in S /\ e.item = <<r, m[e]>>
                   /\ b[e] = f[m[e]] /\ b[e] \in Int
  <2> TAKE e \in A
  <2>1. PICK i \in 1 .. n : e.item = <<r, i>>
    OBVIOUS
  <2>2. m[e] = i
    BY <2>1
  <2> QED BY <1>4, <2>1, <2>2
<1>6. \A e, d \in A : m[e] = m[d] => e = d
  BY <1>5
<1>7. \A x \in S : f[x] = 0 \/ \E e \in A : m[e] = x
  <2> TAKE x \in S
  <2>1. CASE o[<<r, x>>].boxes = 0
    BY <1>4, <2>1
  <2>2. ASSUME NEW e \in A, e.item = <<r, x>> PROVE m[e] = x
    BY <2>2
  <2> QED BY <2>1, <2>2
<1> HIDE DEF S, f, b, m
<1>8. g[S] = h[A]
  BY <1>1, <1>2, <1>3, <1>4, <1>5, <1>6, <1>7, SummingMatched
<1> QED BY <1>2, <1>3, <1>8

\* The lines of a request.
LinesOf(r) == {e \in audited : e.item \in ItemsOf(r)}

(* An image that is not masked has no boxes at the seal, an outcome with      *)
(* boxes has its line, and an answer relayed from the origin says the sum.    *)
BoxInv ==
  /\ DOMAIN redacted = Requests
  /\ IsFiniteSet(audited)
  /\ regionsMasked = BoxSum(audited)
  /\ \A it \in Items : stage[it] = "seal" /\ ~Masks(Route(it)) => work[it].boxes = 0
  /\ \A it \in Items : outcome[it].boxes # 0 => Entry(it) \in audited
  /\ \A r \in Requests :
       status[r] = "origin" => origin[r] # "nothing" /\ redacted[r] = BoxSum(LinesOf(r))

\* What an item's step does to the boxes: nothing, or it writes its line.
Quiet == /\ UNCHANGED <<audited, regionsMasked>>
         /\ \A j \in Items :
              /\ outcome'[j] = outcome[j] \/ outcome'[j].boxes = 0
              /\ stage'[j] = "seal" /\ ~Masks(Route(j)) => work'[j].boxes = 0

Sealed(it) ==
  /\ stage[it] = "seal" /\ stage'[it] \in Finished /\ work' = work
  /\ audited' = audited \union
                 {[item |-> it, form |-> work[it].form, boxes |-> work[it].boxes]}
  /\ regionsMasked' = IF Masks(Route(it)) THEN regionsMasked + work[it].boxes
                                          ELSE regionsMasked
  /\ outcome'[it] = Output(work[it].form, work[it].boxes, "unset")
  /\ \A j \in Items \ {it} : outcome'[j] = outcome[j] /\ stage'[j] = stage[j]

LEMMA ItemBoxes ==
  ASSUME IInv, BoxInv, NEW it \in Items, ItemStep(it)
  PROVE  Quiet \/ Sealed(it)
<1>00. TypeOK
  BY DEF IInv
<1>0. ASSUME NEW o, o.boxes = 0, Finish(it, o), UNCHANGED <<work, audited, regionsMasked>>
      PROVE  Quiet
  <2>1. /\ outcome'[it] = o /\ stage'[it] # "seal"
        /\ \A j \in Items \ {it} : outcome'[j] = outcome[j] /\ stage'[j] = stage[j]
    BY <1>00, <1>0 DEF Finish, Stage, TypeOK
  <2> QED BY <1>0, <2>1 DEF Quiet, BoxInv
<1>1. ASSUME NEW s, s # "seal", Stage(it, s), UNCHANGED <<outcome, work, audited, regionsMasked>>
      PROVE  Quiet
  <2>1. stage'[it] = s /\ \A j \in Items \ {it} : stage'[j] = stage[j]
    BY <1>00, <1>1 DEF Stage, TypeOK
  <2> QED BY <1>1, <2>1 DEF Quiet, BoxInv
<1>2. ASSUME NEW f, NEW n, n = 0 \/ Masks(Route(it)), Prepared(it, f, n),
             UNCHANGED <<audited, regionsMasked>>
      PROVE  Quiet
  <2>1. /\ stage'[it] = "seal" /\ work'[it] = [form |-> f, boxes |-> n]
        /\ \A j \in Items \ {it} : stage'[j] = stage[j] /\ work'[j] = work[j]
        /\ outcome' = outcome
    BY <1>00, <1>2 DEF Prepared, Stage, TypeOK
  <2>2. n = 0 => work'[it].boxes = 0
    BY <2>1
  <2> QED BY <1>2, <2>1, <2>2 DEF Quiet, BoxInv
<1>3. \A f, why : Output(f, 0, why).boxes = 0
  BY DEF Output
<1>4. \A e, why : Refusal(e, why).boxes = 0
  BY DEF Refusal
<1>5. ASSUME NEW why, FailClosed(it, why), UNCHANGED <<work, audited, regionsMasked>>
      PROVE  Quiet
  <2>1. \E o : o.boxes = 0 /\ Finish(it, o)
    BY <1>3, <1>4, <1>5 DEF FailClosed, Block
  <2> QED BY <1>0, <1>5, <2>1
<1>6. CASE Classify(it)
  BY <1>0, <1>1, <1>4, <1>6 DEF Classify, counters
<1>7. CASE Acquire(it)
  BY <1>1, <1>7 DEF Acquire, counters
<1>8. CASE AcquireRefused(it)
  BY <1>0, <1>4, <1>8 DEF AcquireRefused, counters
<1>9. CASE Enter(it)
  <2>1. UNCHANGED <<audited, regionsMasked>>
    BY <1>9 DEF Enter
  <2>2. CASE Drop(it)
    BY <1>0, <1>4, <2>1, <2>2 DEF Drop
  <2>3. CASE Pass(it)
    BY <1>0, <1>2, <1>3, <1>5, <2>1, <2>3 DEF Pass
  <2>4. CASE Decode(it)
    BY <1>0, <1>1, <1>3, <1>5, <2>1, <2>4 DEF Decode
  <2> QED BY <1>9, <2>2, <2>3, <2>4 DEF Enter
<1>10. CASE Detect(it)
  <2>1. UNCHANGED <<audited, regionsMasked>>
    BY <1>10 DEF Detect
  <2>2. Masks(Route(it))
    BY <1>10 DEF Detect, IInv, ItemInv
  <2> QED BY <1>0, <1>2, <1>4, <1>5, <1>10, <2>1, <2>2 DEF Detect, Block
<1>11. CASE Seal(it)
  <2>1. ASSUME NEW why, FailClosed(it, why), UNCHANGED <<audited, sanitized, regionsMasked>>
        PROVE  Quiet
    BY <1>5, <1>11, <2>1 DEF Seal
  <2>2. ASSUME audited' = audited \union
                          {[item |-> it, form |-> work[it].form, boxes |-> work[it].boxes]},
               IF Masks(Route(it))
               THEN /\ sanitized' = sanitized + 1
                    /\ regionsMasked' = regionsMasked + work[it].boxes
               ELSE UNCHANGED <<sanitized, regionsMasked>>,
               Finish(it, Output(work[it].form, work[it].boxes, "unset"))
        PROVE  Sealed(it)
    <3>1. stage[it] = "seal" /\ work' = work
      BY <1>11 DEF Seal
    <3>2. /\ outcome'[it] = Output(work[it].form, work[it].boxes, "unset")
          /\ stage'[it] \in Finished
          /\ \A j \in Items \ {it} : outcome'[j] = outcome[j] /\ stage'[j] = stage[j]
      BY <1>00, <2>2 DEF Finish, Stage, TypeOK, Finished
    <3> QED BY <2>2, <3>1, <3>2 DEF Sealed
  <2> QED BY <1>11, <2>1, <2>2 DEF Seal
<1>12. CASE Release(it)
  BY <1>1, <1>12 DEF Release, counters
<1> QED BY <1>6, <1>7, <1>8, <1>9, <1>10, <1>11, <1>12 DEF ItemStep

(* A request that relayed its answer has only items that have ended.          *)
LEMMA RelayedItems ==
  ASSUME IInv, NEW r \in Requests, origin[r] # "nothing"
  PROVE  /\ phase[r] # "idle"
         /\ \A it \in ItemsOf(r) : it \in Items /\ stage[it] = "end" /\ outcome[it].err = "nil"
<1>1. ReqInv(r) /\ TypeOK
  BY DEF IInv
<1> QED BY <1>1, ItemsShape DEF ReqInv, Forwards

LEMMA BoxesAreNumbers ==
  ASSUME TypeOK
  PROVE  /\ \A e \in audited : e.boxes \in Nat
         /\ \A it \in Items : outcome[it].boxes \in Nat /\ work[it].boxes \in Nat
BY DEF TypeOK, Outcomes

(* What a step that relays nothing does to the answers relayed before.        *)
LEMMA AnswersKept ==
  ASSUME IInv, BoxInv, UNCHANGED <<parts, status, redacted, origin>>,
         \A e : e \in audited' /\ e \notin audited => stage[e.item] = "seal",
         audited \subseteq audited'
  PROVE  \A r \in Requests :
           status'[r] = "origin" => /\ origin'[r] # "nothing"
                                    /\ redacted'[r] = BoxSum(LinesOf(r)')
<1> SUFFICES ASSUME NEW r \in Requests, status'[r] = "origin"
             PROVE  origin'[r] # "nothing" /\ redacted'[r] = BoxSum(LinesOf(r)')
  OBVIOUS
<1>1. origin[r] # "nothing" /\ redacted[r] = BoxSum(LinesOf(r))
  BY DEF BoxInv
<1>2. \A it \in ItemsOf(r) : stage[it] # "seal"
  BY <1>1, RelayedItems
<1>3. ItemsOf(r)' = ItemsOf(r)
  BY DEF ItemsOf
<1>4. LinesOf(r)' = LinesOf(r)
  BY <1>2, <1>3 DEF LinesOf
<1> QED BY <1>1, <1>4

LEMMA ItemBox == ASSUME IInv, BoxInv, NEW it \in Items, ItemStep(it) PROVE BoxInv'
<1>0. TypeOK /\ LogInv
  BY DEF IInv
<1>1. UNCHANGED <<route, parts, status, redacted, origin>>
  BY DEF ItemStep, Classify, Acquire, AcquireRefused, Enter, Detect, Seal, Release, requestVars
<1>2. \A j : Route(j)' = Route(j)
  BY <1>1 DEF Route
<1> DOMAIN redacted' = Requests
  BY <1>1 DEF BoxInv
<1>3. CASE Quiet
  <2>1. \A j \in Items : outcome'[j].boxes # 0 => Entry(j)' \in audited'
    <3> SUFFICES ASSUME NEW j \in Items, outcome'[j].boxes # 0 PROVE Entry(j)' \in audited'
      OBVIOUS
    <3>1. outcome'[j] = outcome[j] /\ audited' = audited
      BY <1>3 DEF Quiet
    <3> QED BY <3>1 DEF Entry, BoxInv
  <2>2. \A r \in Requests :
           status'[r] = "origin" => /\ origin'[r] # "nothing"
                                    /\ redacted'[r] = BoxSum(LinesOf(r)')
    BY <1>1, <1>3, AnswersKept DEF Quiet
  <2>3. \A j \in Items : stage'[j] = "seal" /\ ~Masks(Route(j))' => work'[j].boxes = 0
    BY <1>2, <1>3 DEF Quiet, Masks
  <2> QED BY <1>3, <2>1, <2>2, <2>3 DEF Quiet, BoxInv
<1>4. CASE Sealed(it)
  <2> DEFINE new == [item |-> it, form |-> work[it].form, boxes |-> work[it].boxes]
  <2>1. /\ audited' = audited \union {new} /\ new.item = it /\ new.boxes = work[it].boxes
        /\ new.boxes \in Nat /\ stage[it] = "seal"
    BY <1>0, <1>4, BoxesAreNumbers DEF Sealed
  <2>2. new \notin audited
    BY <1>0, <2>1 DEF LogInv, Finished
  <2>3. Entry(it)' = new
    BY <1>4 DEF Sealed, Entry, Output
  <2> HIDE DEF new
  <2>4. IsFiniteSet(audited')
    BY <2>1, FS_AddElement DEF BoxInv
  <2>5. BoxSum(audited') = BoxSum(audited) + new.boxes
    <3>1. \A e \in audited \union {new} : e.boxes \in Int
      BY <1>0, <2>1, BoxesAreNumbers
    <3>2. IsFiniteSet(audited)
      BY DEF BoxInv
    <3> QED BY <2>1, <2>2, <3>1, <3>2, BoxSumAdd
  <2>6. regionsMasked' = BoxSum(audited')
    <3>1. regionsMasked = BoxSum(audited) /\ regionsMasked \in Nat
      BY <1>0 DEF BoxInv, TypeOK
    <3>2. ~Masks(Route(it)) => new.boxes = 0
      BY <2>1 DEF BoxInv
    <3> QED BY <1>4, <2>1, <2>5, <3>1, <3>2 DEF Sealed
  <2>7. \A j \in Items : stage'[j] = "seal" /\ ~Masks(Route(j))' => work'[j].boxes = 0
    <3>1. \A j \in Items : stage'[j] = "seal" => stage[j] = "seal" /\ work'[j] = work[j]
      BY <1>4 DEF Sealed, Finished
    <3> QED BY <1>2, <3>1 DEF BoxInv, Masks
  <2>8. \A j \in Items : outcome'[j].boxes # 0 => Entry(j)' \in audited'
    <3> SUFFICES ASSUME NEW j \in Items, outcome'[j].boxes # 0 PROVE Entry(j)' \in audited'
      OBVIOUS
    <3>1. CASE j = it
      BY <2>1, <2>3, <3>1
    <3>2. CASE j # it
      <4>1. outcome'[j] = outcome[j]
        BY <1>4, <3>2 DEF Sealed
      <4> QED BY <2>1, <4>1 DEF Entry, BoxInv
    <3> QED BY <3>1, <3>2
  <2>9. \A r \in Requests :
           status'[r] = "origin" => /\ origin'[r] # "nothing"
                                    /\ redacted'[r] = BoxSum(LinesOf(r)')
    BY <1>1, <2>1, AnswersKept
  <2> QED BY <2>4, <2>6, <2>7, <2>8, <2>9 DEF BoxInv
<1> QED BY <1>3, <1>4, ItemBoxes

(* When all items of a request have ended the parts' boxes are the lines'.    *)
LEMMA HeaderIsLines ==
  ASSUME IInv, BoxInv, NEW r \in Requests, origin[r] # "nothing"
  PROVE  Boxes(r) = BoxSum(LinesOf(r))
<1> DEFINE n == parts[r]
           A == LinesOf(r)
<1>0. TypeOK /\ LogInv
  BY DEF IInv
<1>1. n \in Nat
  BY <1>0, MaxPartsAssumption DEF TypeOK
<1>2. IsFiniteSet(A)
  BY FS_Subset DEF BoxInv, LinesOf
<1>3. \A i \in 1 .. n : <<r, i>> \in ItemsOf(r) /\ <<r, i>> \in Items
  BY <1>0, ItemsShape DEF ItemsOf
<1>4. \A i \in 1 .. n : outcome[<<r, i>>].boxes \in Int
  BY <1>0, <1>3, BoxesAreNumbers
<1>5. \A e \in A : (\E i \in 1 .. n : e.item = <<r, i>>) /\ e.boxes = outcome[e.item].boxes
  <2> TAKE e \in A
  <2>1. e \in audited /\ e.item \in ItemsOf(r)
    BY DEF LinesOf
  <2>2. outcome[e.item] = Output(e.form, e.boxes, "unset")
    BY <1>0, <2>1 DEF LogInv
  <2>3. outcome[e.item].boxes = e.boxes
    BY <2>2 DEF Output
  <2> QED BY <2>1, <2>3 DEF ItemsOf
<1>6. \A e, d \in A : e.item = d.item => e = d
  <2> SUFFICES ASSUME NEW e \in A, NEW d \in A, e.item = d.item PROVE e = d
    OBVIOUS
  <2>1. e \in audited /\ d \in audited
    BY DEF LinesOf
  <2>2. /\ e = [item |-> e.item, form |-> e.form, boxes |-> e.boxes]
        /\ d = [item |-> d.item, form |-> d.form, boxes |-> d.boxes]
    BY <1>0, <2>1 DEF TypeOK
  <2>3. Output(e.form, e.boxes, "unset") = Output(d.form, d.boxes, "unset")
    BY <1>0, <2>1 DEF LogInv
  <2>4. e.form = d.form /\ e.boxes = d.boxes
    BY <2>3 DEF Output
  <2> QED BY <2>2, <2>4
<1>7. \A i \in 1 .. n : outcome[<<r, i>>].boxes = 0 \/ \E e \in A : e.item = <<r, i>>
  <2> SUFFICES ASSUME NEW i \in 1 .. n, outcome[<<r, i>>].boxes # 0
               PROVE  \E e \in A : e.item = <<r, i>>
    OBVIOUS
  <2>1. Entry(<<r, i>>) \in audited
    BY <1>3 DEF BoxInv
  <2>2. Entry(<<r, i>>).item = <<r, i>>
    BY DEF Entry
  <2> QED BY <1>3, <2>1, <2>2 DEF LinesOf
<1>8. PartSum(outcome, r, n) = BoxSum(A)
  <2> HIDE DEF A, n
  <2> QED BY <1>1, <1>2, <1>4, <1>5, <1>6, <1>7, PartsMatch
<1> QED BY <1>8, BoxesIs

LEMMA AnswerSets ==
  ASSUME TypeOK, BoxInv, NEW r \in Requests, NEW code, NEW n, Answer(r, code, n)
  PROVE  /\ DOMAIN redacted' = Requests
         /\ status'[r] = code /\ redacted'[r] = n
         /\ \A q \in Requests \ {r} : status'[q] = status[q] /\ redacted'[q] = redacted[q]
<1>1. /\ status' = [status EXCEPT ![r] = code] /\ status \in [Requests -> Statuses]
      /\ redacted' = [redacted EXCEPT ![r] = n] /\ DOMAIN redacted = Requests
  BY DEF Answer, TypeOK, BoxInv
<1> QED BY <1>1

(* What a request's step does to the answers.                                 *)
LEMMA RequestAnswers ==
  ASSUME TypeOK, NEW r \in Requests, RequestStep(r)
  PROVE  \/ Answer(r, "origin", Boxes(r)) /\ Relay(r) /\ origin[r] # "nothing"
         \/ \E code, n : code # "origin" /\ Answer(r, code, n)
         \/ UNCHANGED <<status, redacted>>
<1>1. CASE Join(r)
  <2>1. \A e : StatusOf(e) # "origin"
    BY DEF StatusOf
  <2> QED BY <1>1, <2>1 DEF Join
<1>2. CASE Relay(r)
  BY <1>2 DEF Relay
<1>3. CASE Refuse(r) \/ SendFails(r)
  BY <1>3 DEF Refuse, SendFails
<1>4. CASE Accept(r) \/ Cancel(r) \/ Send(r)
  BY <1>4 DEF Accept, Cancel, Send
<1> QED BY <1>1, <1>2, <1>3, <1>4 DEF RequestStep

LEMMA RequestBox == ASSUME IInv, BoxInv, NEW r \in Requests, RequestStep(r) PROVE BoxInv'
<1>0. TypeOK
  BY DEF IInv
<1>1. UNCHANGED <<audited, regionsMasked, work, outcome>>
  BY DEF RequestStep, Refuse, Accept, Cancel, Join, Send, Relay, SendFails, itemVars, counters
<1>2. \A j : Entry(j)' = Entry(j)
  BY <1>1 DEF Entry
<1>3. \A j \in Items : stage'[j] = "seal" /\ ~Masks(Route(j))' => work'[j].boxes = 0
  <2>1. CASE Accept(r)
    <3>1. \A j \in Items : j[1] = r => stage[j] = "absent"
      BY <1>0, <2>1 DEF Accept, IInv, ItemInv
    <3>2. \A j \in Items : stage'[j] = "seal" => stage[j] = "seal" /\ j[1] # r
      BY <2>1, <3>1 DEF Accept
    <3>3. \A q \in Requests \ {r} : route'[q] = route[q]
      BY <1>0, <2>1 DEF Accept, TypeOK
    <3>4. \A j \in Items : stage'[j] = "seal" => stage[j] = "seal" /\ Masks(Route(j))' = Masks(Route(j))
      BY <3>2, <3>3 DEF Items, Route, Masks
    <3> QED BY <1>1, <3>4 DEF BoxInv
  <2>2. CASE ~Accept(r)
    <3>1. UNCHANGED <<stage, route>>
      BY <2>2 DEF RequestStep, Refuse, Cancel, Join, Send, Relay, SendFails, itemVars
    <3> QED BY <1>1, <3>1 DEF BoxInv, Route, Masks
  <2> QED BY <2>1, <2>2
<1>4. \A q \in Requests :
        status'[q] = "origin" => /\ origin'[q] # "nothing"
                                 /\ redacted'[q] = BoxSum(LinesOf(q)')
  <2> SUFFICES ASSUME NEW q \in Requests, status'[q] = "origin"
               PROVE  origin'[q] # "nothing" /\ redacted'[q] = BoxSum(LinesOf(q)')
    OBVIOUS
  <2>1. origin[q] # "nothing" => origin'[q] # "nothing" /\ LinesOf(q)' = LinesOf(q)
    <3> HAVE origin[q] # "nothing"
    <3>1. phase[q] # "idle"
      BY RelayedItems
    <3>2. parts'[q] = parts[q]
      BY <1>0, <3>1 DEF RequestStep, Refuse, Accept, Cancel, Join, Send, Relay, SendFails, TypeOK
    <3>3. origin'[q] # "nothing"
      BY <1>0 DEF RequestStep, Refuse, Accept, Cancel, Join, Send, Relay, SendFails, TypeOK
    <3> QED BY <1>1, <3>2, <3>3 DEF LinesOf, ItemsOf
  <2>2. CASE Answer(r, "origin", Boxes(r)) /\ Relay(r) /\ origin[r] # "nothing"
    <3> DEFINE n == Boxes(r)
    <3>1. n = BoxSum(LinesOf(r))
      BY <2>2, HeaderIsLines
    <3>2. Answer(r, "origin", n)
      BY <2>2
    <3> HIDE DEF n
    <3>3. redacted'[r] = n /\ (q # r => status'[q] = status[q] /\ redacted'[q] = redacted[q])
      BY <1>0, <3>2, AnswerSets
    <3>4. CASE q = r
      BY <2>1, <2>2, <3>1, <3>3, <3>4
    <3>5. CASE q # r
      BY <2>1, <3>3, <3>5 DEF BoxInv
    <3> QED BY <3>4, <3>5
  <2>3. CASE \E code, n : code # "origin" /\ Answer(r, code, n)
    <3>1. PICK code, n : code # "origin" /\ Answer(r, code, n)
      BY <2>3
    <3>2. status'[q] = status[q] /\ redacted'[q] = redacted[q]
      BY <1>0, <3>1, AnswerSets
    <3> QED BY <2>1, <3>2 DEF BoxInv
  <2>4. CASE UNCHANGED <<status, redacted>>
    BY <2>1, <2>4 DEF BoxInv
  <2> QED BY <1>0, <2>2, <2>3, <2>4, RequestAnswers
<1>5. DOMAIN redacted' = Requests
  <2>1. CASE \E code, n : Answer(r, code, n)
    BY <2>1 DEF Answer, BoxInv
  <2>2. CASE UNCHANGED <<status, redacted>>
    BY <2>2 DEF BoxInv
  <2> QED BY <1>0, <2>1, <2>2, RequestAnswers
<1> QED BY <1>1, <1>2, <1>3, <1>4, <1>5 DEF BoxInv

LEMMA InitBox == Init => BoxInv
<1> SUFFICES ASSUME Init PROVE BoxInv
  OBVIOUS
<1>1. audited = {} /\ regionsMasked = 0
  BY DEF Init
<1>2. IsFiniteSet(audited) /\ regionsMasked = BoxSum(audited)
  BY <1>1, BoxSumEmpty, FS_EmptySet
<1> QED BY <1>2 DEF Init, BoxInv, NoOutcome

LEMMA NextBox == IInv /\ BoxInv /\ [Next]_vars => BoxInv'
<1> SUFFICES ASSUME IInv, BoxInv, [Next]_vars PROVE BoxInv'
  OBVIOUS
<1>1. CASE Drain \/ UNCHANGED vars
  <2>1. UNCHANGED <<audited, regionsMasked, work, outcome, stage, route, parts, status, redacted, origin>>
    BY <1>1 DEF Drain, vars, itemVars, requestVars, counters
  <2>2. \A q : LinesOf(q)' = LinesOf(q)
    BY <2>1 DEF LinesOf, ItemsOf
  <2> QED BY <2>1, <2>2 DEF BoxInv, Entry, Route, Masks
<1> QED BY <1>1, ItemBox, RequestBox DEF Next

(* What the client is told was masked, what the log says was masked and what  *)
(* the metric counts are the same numbers of boxes, for any number of uploads *)
(* and parts, whichever parts of other uploads or of the same were blocked.   *)
THEOREM GatewayHeaderMatchesAudit == Spec => []HeaderMatchesAudit
<1>1. IInv /\ BoxInv => HeaderMatchesAudit
  <2> SUFFICES ASSUME IInv, BoxInv PROVE HeaderMatchesAudit
    OBVIOUS
  <2>1. \A r \in Requests : status[r] = "origin" => redacted[r] = AuditedBoxes(ItemsOf(r))
    BY AuditedBoxesIs DEF BoxInv, LinesOf
  <2>2. {e \in audited : e.item \in Items} = audited
    BY DEF IInv, TypeOK
  <2>3. regionsMasked = AuditedBoxes(Items)
    BY <2>2, AuditedBoxesIs DEF BoxInv
  <2> QED BY <2>1, <2>3 DEF HeaderMatchesAudit
<1> QED BY <1>1, InitInv, InitBox, NextInv, NextBox, PTL DEF Spec

=============================================================================
