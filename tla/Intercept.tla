------------------------------ MODULE Intercept ------------------------------
(* internal/intercept and the part of the handler that calls it: the body of  *)
(* one upload is read part by part under the cap of its route, the parts are  *)
(* sanitized by one goroutine each, and what comes back is put into the       *)
(* payload and serialized again.  Bytes are named by the part they belong to: *)
(* a text is the number of bytes of it that are there.                        *)
(*                                                                            *)
(* An operator whose comment starts with FAULT is a bug that could have been  *)
(* written in place of the definition below it; no specification uses it.     *)
EXTENDS Words, Sequences, SequencesExt

CONSTANTS MaxParts,   \* bound on the parts of a body
          Sizes,      \* the sizes, in bytes, of parts and of sanitized parts
          Caps        \* the values of route.MaxBytes

ASSUME MaxPartsAssumption == MaxParts \in Nat \ {0}
ASSUME SizesAssumption == Sizes \subseteq Nat
ASSUME CapsAssumption == Caps \subseteq 1 .. MaxInt

ItemErrors == {"block", "busy"}   \* what sanitizeItem may fail with
Endings == {"closed",   \* the body ends where it should
            "after",    \* the stream breaks behind the last part
            "within"}   \* the stream breaks behind the bytes of the last part

VARIABLES
  upload,    \* what the client sends, and the boundary's use as one
  cap,       \* route.MaxBytes
  phase,     \* "reading", "sanitizing", "ended"
  payload,   \* payload.Parts: index, header and body of every part read
  fate,      \* what sanitizeItem will return for each part
  ended,     \* the parts whose goroutine has called wg.Done
  outputs,   \* outputs of processMultipart, by index
  errs,      \* errs of processMultipart, by index
  answer,    \* "none", "sent" or the error process returns
  sent       \* the body handed to forward

vars == <<upload, cap, phase, payload, fate, ended, outputs, errs, answer, sent>>

Nothing == [of |-> 0, size |-> 0]   \* a nil slice
NoLength == -1
Parts == [size : Sizes, length : BOOLEAN]   \* length: it has a Content-Length
Multiparts == [multi : {TRUE}, boundaryOk : BOOLEAN, ending : Endings,
               parts : UNION {[1 .. n -> Parts] : n \in 0 .. MaxParts}]
RawBodies == [multi : {FALSE}, boundaryOk : {TRUE}, ending : {"closed", "within"},
              parts : [1 .. 1 -> [size : Sizes, length : {FALSE}]]]

Init ==
  /\ upload \in Multiparts \union RawBodies
  /\ cap \in Caps
  /\ phase = "reading" /\ payload = <<>>
  /\ fate = <<>> /\ ended = {} /\ outputs = <<>> /\ errs = <<>>
  /\ answer = "none" /\ sent = <<>>

Unread == Len(payload) + 1   \* the part to be read next
Breaks(k) == upload.ending = "within" /\ k = Len(upload.parts)

\* FAULT: what is longer than the cap is cut off at it.
ReadCut(size, breaks) ==
  IF breaks /\ size < cap THEN <<0, "broken">>
  ELSE <<IF size > cap THEN cap ELSE size, "nil">>

\* readLimited: one byte more than the cap is asked for.  A LimitReader with
\* nothing left to give says EOF, so it hides what comes behind its limit.
ReadLimited(size, breaks) ==
  LET limit == Wrap(cap + 1)
      got == IF limit <= 0 THEN 0 ELSE IF size < limit THEN size ELSE limit
  IN IF cap <= 0 THEN <<0, "too_large">>
     ELSE IF breaks /\ size < limit THEN <<0, "broken">>
     ELSE IF got > cap THEN <<0, "too_large">>
     ELSE <<got, "nil">>

\* process returns an error before anything was sanitized.
Reject(err) == /\ phase' = "ended" /\ answer' = err
               /\ UNCHANGED <<payload, fate, ended, outputs, errs, sent>>

\* What sanitizeItem will return for a part: an output of any size, or an error.
Fates == [size : Sizes, err : {"nil"}] \union [size : {0}, err : ItemErrors]

\* Every part of p has been read: one goroutine each, or the handler itself.
Start(p) == /\ phase' = "sanitizing" /\ payload' = p
            /\ fate' \in [DOMAIN p -> Fates]
            /\ outputs' = [k \in DOMAIN p |-> Nothing]
            /\ errs' = [k \in DOMAIN p |-> "nil"]
            /\ UNCHANGED <<ended, answer, sent>>

PartRead(k, bytes) == [index |-> k, header |-> k, length |-> upload.parts[k].length,
                       body |-> [of |-> k, size |-> bytes]]

-----------------------------------------------------------------------------
\* One turn of ParseMultipart's loop, with a part in it.
ReadPart ==
  /\ phase = "reading" /\ upload.multi
  /\ Unread \in DOMAIN upload.parts
  /\ LET read == ReadLimited(upload.parts[Unread].size, Breaks(Unread))
     IN \/ /\ read[2] = "nil"
           /\ payload' = Append(payload, PartRead(Unread, read[1]))
           /\ UNCHANGED <<phase, fate, ended, outputs, errs, answer, sent>>
        \/ read[2] # "nil" /\ Reject(read[2])
  /\ UNCHANGED <<upload, cap>>

\* The last turn: NextRawPart finds the closing boundary, or misses it because
\* the stream has broken, here or in the part before.
ReadEnd ==
  /\ phase = "reading" /\ upload.multi
  /\ Unread \notin DOMAIN upload.parts
  /\ \/ upload.ending = "closed" /\ Start(payload)
     \/ upload.ending # "closed" /\ Reject("broken")
  /\ UNCHANGED <<upload, cap>>

\* ReadRawBody.
ReadRaw ==
  /\ phase = "reading" /\ ~upload.multi
  /\ LET read == ReadLimited(upload.parts[1].size, Breaks(1))
     IN \/ read[2] = "nil" /\ Start(<<PartRead(1, read[1])>>)
        \/ read[2] # "nil" /\ Reject(read[2])
  /\ UNCHANGED <<upload, cap>>

Output(k) == IF fate[k].err = "nil" THEN [of |-> payload[k].body.of, size |-> fate[k].size]
                                    ELSE Nothing
Running(k) == phase = "sanitizing" /\ k \in DOMAIN payload \ ended

\* FAULT: outputs are appended as they come.
FinishAppended(k) ==
  /\ Running(k)
  /\ outputs' = [outputs EXCEPT ![Cardinality(ended) + 1] = Output(k)]
  /\ errs' = [errs EXCEPT ![k] = fate[k].err]
  /\ ended' = ended \union {k}
  /\ UNCHANGED <<upload, cap, phase, payload, fate, answer, sent>>

\* FAULT: only the first failure in time is recorded.
FinishFirstError(k) ==
  /\ Running(k)
  /\ outputs' = [outputs EXCEPT ![k] = Output(k)]
  /\ errs' = [errs EXCEPT ![k] = IF \E j \in DOMAIN errs : errs[j] # "nil" THEN "nil"
                                                             ELSE fate[k].err]
  /\ ended' = ended \union {k}
  /\ UNCHANGED <<upload, cap, phase, payload, fate, answer, sent>>

\* A goroutine of processMultipart ends, in any order.
Finish(k) ==
  /\ Running(k)
  /\ outputs' = [outputs EXCEPT ![k] = Output(k)]
  /\ errs' = [errs EXCEPT ![k] = fate[k].err]
  /\ ended' = ended \union {k}
  /\ UNCHANGED <<upload, cap, phase, payload, fate, answer, sent>>

Failures == {k \in DOMAIN errs : errs[k] # "nil"}

Substituted == [k \in DOMAIN payload |-> [payload[k] EXCEPT !.body = outputs[k]]]

IndexesAreThere(p) == {p[k].index : k \in DOMAIN p} = DOMAIN p

\* The parts in the order of their indices, Content-Length recomputed where the
\* header had one.
Serialize(p) ==
  [i \in DOMAIN p |->
     LET part == CHOOSE x \in Range(p) : x.index = i
     IN [header |-> part.header, body |-> part.body,
         length |-> IF part.length THEN part.body.size ELSE NoLength]]

\* wg.Wait returns: the first error by index, or the body to forward.
Join ==
  /\ phase = "sanitizing" /\ ended = DOMAIN payload
  /\ phase' = "ended"
  /\ \/ /\ \E k \in Failures : (\A j \in Failures : k <= j) /\ answer' = errs[k]
        /\ UNCHANGED <<payload, sent>>
     \/ /\ Failures = {} /\ upload.multi
        /\ payload' = Substituted
        /\ \/ /\ upload.boundaryOk /\ IndexesAreThere(payload')
              /\ sent' = Serialize(payload') /\ answer' = "sent"
           \/ /\ ~(upload.boundaryOk /\ IndexesAreThere(payload'))
              /\ answer' = "unserializable" /\ UNCHANGED sent
     \/ /\ Failures = {} /\ ~upload.multi
        /\ sent' = <<[header |-> 1, body |-> outputs[1], length |-> NoLength]>>
        /\ answer' = "sent" /\ UNCHANGED payload
  /\ UNCHANGED <<upload, cap, fate, ended, outputs, errs>>

Next == \/ ReadPart \/ ReadEnd \/ ReadRaw \/ Join
        \/ \E k \in 1 .. MaxParts : Finish(k)
Spec == Init /\ [][Next]_vars

-----------------------------------------------------------------------------
(* Reading is all or nothing.  What reaches the sanitizer is the whole of a   *)
(* whole upload, every part of it within the cap; and an upload is refused    *)
(* as too large, or as broken, only if it is.                                 *)
WholeOrRefused ==
  /\ phase = "sanitizing" =>
       /\ upload.ending = "closed" /\ Len(payload) = Len(upload.parts)
       /\ \A k \in DOMAIN payload :
            /\ payload[k].body = [of |-> k, size |-> upload.parts[k].size]
            /\ payload[k].body.size <= cap
  /\ answer = "too_large" => \E k \in DOMAIN upload.parts : upload.parts[k].size > cap
  /\ answer = "broken" => upload.ending # "closed"

(* The body that is forwarded has the parts of the upload in their order,     *)
(* each with its own header and the sanitized form of its own bytes, and a    *)
(* Content-Length that fits them, in whatever order the goroutines ended.     *)
PartsInPlace ==
  answer = "sent" =>
    sent = [k \in DOMAIN upload.parts |->
              [header |-> k, body |-> [of |-> k, size |-> fate[k].size],
               length |-> IF upload.parts[k].length THEN fate[k].size ELSE NoLength]]

(* What the client is told of an upload whose parts failed is decided by the  *)
(* parts alone, by the first of them that failed, and not by the schedule.    *)
AnswerIsFirstFailure ==
  phase = "ended" /\ fate # <<>> =>
    LET failed == {k \in DOMAIN fate : fate[k].err # "nil"}
    IN /\ failed = {} => answer \in {"sent", "unserializable"}
       /\ failed # {} => sent = <<>>
       /\ \A k \in failed : (\A j \in failed : k <= j) => answer = fate[k].err
=============================================================================
