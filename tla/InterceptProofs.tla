--------------------------- MODULE InterceptProofs --------------------------
(* For bodies of any number of parts, of any sizes and under any cap: what is *)
(* forwarded has every part in its place, and what the client is told does    *)
(* not depend on the schedule.  That reading is all or nothing holds for      *)
(* every cap but the largest integer.                                         *)
EXTENDS Intercept, Lemmas

Reads == [index : Nat, header : Nat, length : BOOLEAN, body : [of : Nat, size : Int]]

\* Every part that has been read carries its own index, header and bytes.
InPlace == /\ payload \in Seq(Reads)
           /\ Len(payload) <= Len(upload.parts)
           /\ \A k \in DOMAIN payload : payload[k] = PartRead(k, payload[k].body.size)

\* The goroutines that have ended have stored what sanitizeItem returned, at
\* the index of their part.
Stored == /\ Len(payload) = Len(upload.parts)
          /\ fate \in [DOMAIN payload -> Fates]
          /\ DOMAIN outputs = DOMAIN payload /\ DOMAIN errs = DOMAIN payload
          /\ ended \subseteq DOMAIN payload
          /\ \A k \in ended : outputs[k] = Output(k) /\ errs[k] = fate[k].err

IInv == /\ upload \in Multiparts \union RawBodies
        /\ cap \in Caps
        /\ phase \in {"reading", "sanitizing", "ended"}
        /\ phase = "reading" => InPlace /\ ended = {} /\ fate = <<>>
        /\ phase = "sanitizing" => InPlace /\ Stored
        /\ phase # "ended" => answer = "none" /\ sent = <<>>
        /\ PartsInPlace
        /\ AnswerIsFirstFailure

LEMMA ListOf ==
  ASSUME NEW S, NEW n \in Nat, NEW f \in [1 .. n -> S]
  PROVE  f \in Seq(S) /\ Len(f) = n /\ DOMAIN f = 1 .. n
OBVIOUS

LEMMA UploadShape ==
  ASSUME upload \in Multiparts \union RawBodies
  PROVE  /\ upload.parts \in Seq(Parts) /\ upload.ending \in Endings
         /\ DOMAIN upload.parts = 1 .. Len(upload.parts) /\ Len(upload.parts) \in Nat
         /\ ~upload.multi => /\ Len(upload.parts) = 1
                             /\ upload.parts[1].length = FALSE
                             /\ upload.ending \in {"closed", "within"}
<1>1. CASE upload \in Multiparts
  <2>1. PICK n \in 0 .. MaxParts : upload.parts \in [1 .. n -> Parts]
    BY <1>1 DEF Multiparts
  <2>2. n \in Nat
    BY <2>1, MaxPartsAssumption
  <2>3. upload.multi
    <3>1. upload.multi \in {TRUE}
      BY <1>1, Zenon DEF Multiparts
    <3> QED BY <3>1, Zenon
  <2>4. upload.ending \in Endings
    BY <1>1 DEF Multiparts
  <2>5. upload.parts \in Seq(Parts) /\ DOMAIN upload.parts = 1 .. n /\ Len(upload.parts) = n
    BY <2>1, <2>2, ListOf
  <2> QED BY <2>2, <2>3, <2>4, <2>5
<1>2. CASE upload \in RawBodies
  <2> DEFINE Lone == [size : Sizes, length : {FALSE}]
  <2>1. upload.parts \in [1 .. 1 -> Lone] /\ upload.ending \in {"closed", "within"}
    BY <1>2 DEF RawBodies
  <2>2. 1 \in Nat /\ 1 \in 1 .. 1
    OBVIOUS
  <2>3. upload.parts[1] \in Lone
    BY <2>1, <2>2, Zenon
  <2>4. upload.parts[1].length = FALSE
    BY <2>3, Zenon
  <2>5. Lone \subseteq Parts
    BY Zenon DEF Parts
  <2>6. upload.parts \in Seq(Lone) /\ Len(upload.parts) = 1
    <3> HIDE DEF Lone
    <3> QED BY <2>1, <2>2, ListOf, Zenon
  <2>7. upload.parts \in Seq(Parts)
    <3> HIDE DEF Lone
    <3> QED BY <2>5, <2>6
  <2>8. DOMAIN upload.parts = 1 .. Len(upload.parts) /\ Len(upload.parts) \in Nat
    BY <2>7
  <2>9. upload.ending \in Endings
    BY <2>1 DEF Endings
  <2> QED BY <2>1, <2>4, <2>6, <2>7, <2>8, <2>9, Zenon
<1> QED BY <1>1, <1>2

LEMMA PartShape ==
  ASSUME upload \in Multiparts \union RawBodies, NEW k \in DOMAIN upload.parts
  PROVE  upload.parts[k].size \in Nat /\ upload.parts[k].length \in BOOLEAN
<1>1. upload.parts[k] \in Parts
  <2>1. upload.parts \in Seq(Parts) /\ k \in 1 .. Len(upload.parts)
    BY UploadShape, Zenon
  <2> QED BY <2>1
<1>2. upload.parts[k].size \in Sizes /\ upload.parts[k].length \in BOOLEAN
  BY <1>1, Zenon DEF Parts
<1> QED BY <1>2, SizesAssumption

LEMMA ReadIsInt ==
  ASSUME upload \in Multiparts \union RawBodies, cap \in Caps,
         NEW k \in DOMAIN upload.parts, NEW b \in BOOLEAN
  PROVE  ReadLimited(upload.parts[k].size, b)[1] \in Int
<1>1. upload.parts[k].size \in Int
  BY PartShape
<1>2. Wrap(cap + 1) \in Int
  <2>1. cap + 1 \in Int
    BY CapsAssumption, MaxIntAssumption
  <2> QED BY <2>1, MaxIntAssumption DEF Wrap
<1> QED BY <1>1, <1>2 DEF ReadLimited

LEMMA PartReadType ==
  ASSUME upload \in Multiparts \union RawBodies,
         NEW k \in DOMAIN upload.parts, NEW n \in Int
  PROVE  PartRead(k, n) \in Reads /\ PartRead(k, n).body.size = n
<1>1. k \in Nat /\ upload.parts[k].length \in BOOLEAN
  <2>1. k \in 1 .. Len(upload.parts) /\ Len(upload.parts) \in Nat
    BY UploadShape, Zenon
  <2> QED BY <2>1, PartShape
<1>2. [of |-> k, size |-> n] \in [of : Nat, size : Int]
  BY <1>1
<1> QED BY <1>1, <1>2, Zenon DEF PartRead, Reads

LEMMA InitIInv == Init => IInv
<1> SUFFICES ASSUME Init PROVE IInv
  OBVIOUS
<1>1. InPlace
  BY UploadShape DEF Init, InPlace
<1> QED BY <1>1 DEF Init, IInv, PartsInPlace, AnswerIsFirstFailure

(* Nothing that a Reject leaves behind can be at odds with the two properties.*)
LEMMA RejectIInv ==
  ASSUME IInv, phase = "reading", UNCHANGED <<upload, cap>>,
         NEW err \in {"too_large", "broken"}, Reject(err)
  PROVE  IInv'
BY DEF IInv, Reject, PartsInPlace, AnswerIsFirstFailure

(* The goroutines start on a body that has been read completely.              *)
LEMMA StartIInv ==
  ASSUME IInv, phase = "reading", UNCHANGED <<upload, cap>>,
         NEW p, Start(p), p \in Seq(Reads), Len(p) = Len(upload.parts),
         \A k \in DOMAIN p : p[k] = PartRead(k, p[k].body.size)
  PROVE  IInv'
<1>1. InPlace'
  BY UploadShape DEF IInv, Start, InPlace, PartRead
<1>2. Stored'
  BY DEF IInv, Start, Stored
<1> QED BY <1>1, <1>2 DEF IInv, Start, PartsInPlace, AnswerIsFirstFailure

LEMMA ReadPartIInv == IInv /\ ReadPart => IInv'
<1> SUFFICES ASSUME IInv, ReadPart PROVE IInv'
  OBVIOUS
<1> DEFINE read == ReadLimited(upload.parts[Unread].size, Breaks(Unread))
<1>0. UNCHANGED <<upload, cap>> /\ phase = "reading" /\ Unread \in DOMAIN upload.parts
  BY DEF ReadPart
<1>1. CASE read[2] # "nil" /\ Reject(read[2])
  <2>1. read[2] \in {"too_large", "broken"}
    BY <1>1 DEF ReadLimited
  <2> QED BY <1>0, <1>1, <2>1, RejectIInv
<1>2. CASE /\ payload' = Append(payload, PartRead(Unread, read[1]))
           /\ UNCHANGED <<phase, fate, ended, outputs, errs, answer, sent>>
  <2>1. payload \in Seq(Reads) /\ Len(payload) <= Len(upload.parts) /\ Len(payload) \in Nat
    BY <1>0 DEF IInv, InPlace
  <2>2. read[1] \in Int
    BY <1>0, ReadIsInt DEF IInv, Breaks
  <2>3. PartRead(Unread, read[1]) \in Reads /\ PartRead(Unread, read[1]).body.size = read[1]
    <3> HIDE DEF read
    <3> QED BY <1>0, <2>2, PartReadType DEF IInv
  <2>4. payload' \in Seq(Reads) /\ Len(payload') = Unread /\ Unread <= Len(upload.parts)
    BY <1>0, <1>2, <2>1, <2>3, UploadShape DEF Unread, IInv
  <2>5. \A k \in DOMAIN payload' : payload'[k] = PartRead(k, payload'[k].body.size)
    <3>1. TAKE k \in DOMAIN payload'
    <3>2. CASE k = Unread
      BY <1>2, <2>1, <2>3, <3>2 DEF Unread
    <3>3. CASE k # Unread
      BY <1>0, <1>2, <2>1, <2>4, <3>3 DEF Unread, IInv, InPlace
    <3> QED BY <3>2, <3>3
  <2>6. InPlace'
    BY <1>0, <2>4, <2>5 DEF InPlace, PartRead
  <2> QED BY <1>0, <1>2, <2>6 DEF IInv, PartsInPlace, AnswerIsFirstFailure
<1> QED BY <1>1, <1>2 DEF ReadPart

LEMMA ReadEndIInv == IInv /\ ReadEnd => IInv'
<1> SUFFICES ASSUME IInv, ReadEnd PROVE IInv'
  OBVIOUS
<1>0. UNCHANGED <<upload, cap>> /\ phase = "reading" /\ InPlace
  BY DEF ReadEnd, IInv
<1>1. Len(payload) = Len(upload.parts)
  BY <1>0, UploadShape DEF ReadEnd, IInv, InPlace, Unread
<1>2. CASE Start(payload)
  BY <1>0, <1>1, <1>2, StartIInv DEF InPlace
<1>3. CASE Reject("broken")
  BY <1>0, <1>3, RejectIInv
<1> QED BY <1>2, <1>3 DEF ReadEnd

LEMMA ReadRawIInv == IInv /\ ReadRaw => IInv'
<1> SUFFICES ASSUME IInv, ReadRaw PROVE IInv'
  OBVIOUS
<1> DEFINE read == ReadLimited(upload.parts[1].size, Breaks(1))
           p == <<PartRead(1, read[1])>>
<1>0. UNCHANGED <<upload, cap>> /\ phase = "reading" /\ ~upload.multi
  BY DEF ReadRaw
<1>1. 1 \in DOMAIN upload.parts /\ Len(upload.parts) = 1
  <2>1. Len(upload.parts) = 1 /\ DOMAIN upload.parts = 1 .. Len(upload.parts)
    BY <1>0, UploadShape DEF IInv
  <2> QED BY <2>1
<1>2. CASE Start(p)
  <2>1. read[1] \in Int
    BY <1>1, ReadIsInt DEF IInv, Breaks
  <2>2. PartRead(1, read[1]) \in Reads /\ PartRead(1, read[1]).body.size = read[1]
    <3> HIDE DEF read
    <3> QED BY <1>1, <2>1, PartReadType DEF IInv
  <2>3. p \in Seq(Reads) /\ Len(p) = 1 /\ \A k \in DOMAIN p : p[k] = PartRead(k, p[k].body.size)
    <3> HIDE DEF read
    <3> QED BY <2>2
  <2> HIDE DEF p
  <2> QED BY <1>0, <1>1, <1>2, <2>3, StartIInv
<1>3. CASE read[2] # "nil" /\ Reject(read[2])
  <2>1. read[2] \in {"too_large", "broken"}
    BY <1>3 DEF ReadLimited
  <2> QED BY <1>0, <1>3, <2>1, RejectIInv
<1> QED BY <1>2, <1>3 DEF ReadRaw

LEMMA FinishIInv == ASSUME NEW k \in 1 .. MaxParts, IInv, Finish(k) PROVE IInv'
<1>1. /\ phase = "sanitizing" /\ phase' = phase /\ k \in DOMAIN payload
      /\ UNCHANGED <<upload, cap, payload, fate, answer, sent>>
  BY DEF Finish, Running
<1>2. InPlace'
  BY <1>1 DEF IInv, InPlace, PartRead
<1>3. Stored'
  BY <1>1 DEF IInv, Stored, Finish, Output
<1> QED BY <1>1, <1>2, <1>3 DEF IInv, PartsInPlace, AnswerIsFirstFailure

\* The fate of a part, as the handler has it when all goroutines have ended.
LEMMA JoinedFates ==
  ASSUME IInv, phase = "sanitizing", ended = DOMAIN payload
  PROVE  /\ DOMAIN fate = 1 .. Len(upload.parts) /\ DOMAIN payload = DOMAIN fate
         /\ DOMAIN errs = DOMAIN fate /\ DOMAIN outputs = DOMAIN fate
         /\ DOMAIN upload.parts = DOMAIN fate
         /\ \A k \in DOMAIN fate :
              /\ errs[k] = fate[k].err
              /\ fate[k].err \in ItemErrors \union {"nil"}
              /\ payload[k] = PartRead(k, payload[k].body.size)
              /\ fate[k].err = "nil" => outputs[k] = [of |-> k, size |-> fate[k].size]
<1>1. InPlace /\ Stored
  BY DEF IInv
<1>2. payload \in Seq(Reads) /\ DOMAIN payload = 1 .. Len(upload.parts)
  BY <1>1 DEF InPlace, Stored
<1>3. DOMAIN upload.parts = 1 .. Len(upload.parts)
  BY UploadShape DEF IInv
<1>4. \A k \in DOMAIN payload : payload[k] = PartRead(k, payload[k].body.size)
  BY <1>1 DEF InPlace
<1>5. \A k \in DOMAIN payload : payload[k].body.of = k
  BY <1>4 DEF PartRead
<1>6. \A k \in DOMAIN payload : fate[k] \in Fates
  BY <1>1 DEF Stored
<1>7. \A k \in DOMAIN payload : fate[k].err \in ItemErrors \union {"nil"}
  BY <1>6 DEF Fates
<1>8. /\ DOMAIN fate = DOMAIN payload /\ DOMAIN errs = DOMAIN payload
      /\ DOMAIN outputs = DOMAIN payload
      /\ \A k \in DOMAIN payload : outputs[k] = Output(k) /\ errs[k] = fate[k].err
  BY <1>1 DEF Stored
<1> QED BY <1>2, <1>3, <1>4, <1>5, <1>7, <1>8 DEF Output

LEMMA JoinIInv == IInv /\ Join => IInv'
<1> SUFFICES ASSUME IInv, Join PROVE IInv'
  OBVIOUS
<1>0. /\ phase = "sanitizing" /\ ended = DOMAIN payload /\ phase' = "ended"
      /\ UNCHANGED <<upload, cap, fate, ended, outputs, errs>>
      /\ sent = <<>>
  BY DEF Join, IInv
<1> DEFINE n == Len(upload.parts)
           failed == {k \in DOMAIN fate : fate[k].err # "nil"}
<1>1. /\ DOMAIN fate = 1 .. n /\ DOMAIN payload = 1 .. n
      /\ DOMAIN outputs = 1 .. n /\ DOMAIN upload.parts = 1 .. n
      /\ \A k \in 1 .. n :
           /\ errs[k] = fate[k].err
           /\ fate[k].err \in ItemErrors \union {"nil"}
           /\ payload[k] = PartRead(k, payload[k].body.size)
           /\ fate[k].err = "nil" => outputs[k] = [of |-> k, size |-> fate[k].size]
      /\ Failures = failed
  BY <1>0, JoinedFates DEF Failures
\* It is enough to look at what is sent and at what the client is told.
<1>2. SUFFICES PartsInPlace' /\ AnswerIsFirstFailure'
  BY <1>0 DEF IInv
<1>3. CASE /\ \E k \in Failures : (\A j \in Failures : k <= j) /\ answer' = errs[k]
           /\ UNCHANGED <<payload, sent>>
  <2>1. PICK k \in failed : (\A j \in failed : k <= j) /\ answer' = errs[k]
    BY <1>1, <1>3
  <2>2. answer' = fate[k].err /\ answer' \in ItemErrors
    BY <1>1, <2>1
  <2>3. failed' = failed
    BY <1>0
  <2>4. \A i \in failed : (\A j \in failed : i <= j) => answer' = fate[i].err
    <3>1. TAKE i \in failed
    <3>2. HAVE \A j \in failed : i <= j
    <3>3. i <= k /\ k <= i /\ i \in Int /\ k \in Int
      BY <1>1, <2>1, <3>2, UploadShape DEF IInv
    <3> QED BY <2>2, <3>3
  <2>5. PartsInPlace'
    BY <2>2 DEF PartsInPlace, ItemErrors
  <2> QED BY <1>0, <1>3, <2>1, <2>3, <2>4, <2>5 DEF AnswerIsFirstFailure
<1>4. CASE Failures = {}
  <2>1. failed = {} /\ \A k \in 1 .. n : outputs[k] = [of |-> k, size |-> fate[k].size]
    BY <1>1, <1>4
  <2>2. ASSUME answer' \in {"sent", "unserializable"} PROVE AnswerIsFirstFailure'
    BY <1>0, <2>1, <2>2 DEF AnswerIsFirstFailure
  <2> DEFINE row(k) == [header |-> k, body |-> [of |-> k, size |-> fate[k].size],
                        length |-> IF upload.parts[k].length THEN fate[k].size ELSE NoLength]
  <2>3. ASSUME sent' = [k \in 1 .. n |-> row(k)] PROVE PartsInPlace'
    BY <1>0, <1>1, <2>3 DEF PartsInPlace
  <2>4. CASE /\ upload.multi /\ payload' = Substituted
             /\ sent' = Serialize(payload') /\ answer' = "sent"
    <3>1. DOMAIN payload' = 1 .. n
      BY <1>1, <2>4 DEF Substituted
    <3>2. \A k \in 1 .. n :
            /\ payload'[k].index = k /\ payload'[k].header = k
            /\ payload'[k].length = upload.parts[k].length
            /\ payload'[k].body = [of |-> k, size |-> fate[k].size]
      <4>1. TAKE k \in 1 .. n
      <4>2. payload'[k] = [PartRead(k, payload[k].body.size) EXCEPT !.body = outputs[k]]
        BY <1>1, <2>4 DEF Substituted
      <4> QED BY <2>1, <4>2 DEF PartRead
    <3>3. \A k \in 1 .. n : (CHOOSE x \in Range(payload') : x.index = k) = payload'[k]
      <4>1. TAKE k \in 1 .. n
      <4>2. payload'[k] \in Range(payload')
        BY <3>1 DEF Range
      <4>3. ASSUME NEW x \in Range(payload'), x.index = k PROVE x = payload'[k]
        <5>1. PICK j \in 1 .. n : x = payload'[j]
          BY <3>1 DEF Range
        <5>2. payload'[j].index = j
          BY <3>2
        <5> QED BY <4>3, <5>1, <5>2
      <4> QED BY <3>2, <4>2, <4>3
    <3>4. Serialize(payload') = [k \in 1 .. n |-> row(k)]
      <4> DEFINE part(k) == CHOOSE x \in Range(payload') : x.index = k
      <4>1. Serialize(payload') =
              [k \in 1 .. n |-> [header |-> part(k).header, body |-> part(k).body,
                 length |-> IF part(k).length THEN part(k).body.size ELSE NoLength]]
        BY <3>1 DEF Serialize
      <4>2. ASSUME NEW k \in 1 .. n
            PROVE [header |-> part(k).header, body |-> part(k).body,
                   length |-> IF part(k).length THEN part(k).body.size ELSE NoLength] = row(k)
        <5>1. part(k) = payload'[k]
          BY <3>3
        <5> HIDE DEF part
        <5>2. part(k).header = k /\ part(k).body = [of |-> k, size |-> fate[k].size]
          BY <3>2, <5>1
        <5>3. part(k).length = upload.parts[k].length
          BY <3>2, <5>1
        <5>4. part(k).body.size = fate[k].size
          BY <5>2
        <5> QED BY <5>2, <5>3, <5>4
      <4> HIDE DEF part, row
      <4> QED BY <4>1, <4>2
    <3> QED BY <2>2, <2>3, <2>4, <3>4
  <2>5. CASE answer' = "unserializable"
    BY <2>2, <2>5 DEF PartsInPlace
  <2>6. CASE /\ ~upload.multi /\ answer' = "sent"
             /\ sent' = <<[header |-> 1, body |-> outputs[1], length |-> NoLength]>>
    <3>1. n = 1 /\ upload.parts[1].length = FALSE
      BY <2>6, UploadShape DEF IInv
    <3>5. 1 \in 1 .. n
      BY <3>1
    <3>2. row(1) = [header |-> 1, body |-> outputs[1], length |-> NoLength]
      BY <2>1, <3>1, <3>5
    <3>3. <<row(1)>> = [k \in 1 .. 1 |-> row(k)]
      OBVIOUS
    <3>4. sent' = [k \in 1 .. n |-> row(k)]
      BY <2>6, <3>1, <3>2, <3>3
    <3> QED BY <2>2, <2>3, <2>6, <3>4
  <2> QED BY <1>4, <2>4, <2>5, <2>6 DEF Join
<1> QED BY <1>3, <1>4 DEF Join

LEMMA NextIInv == IInv /\ [Next]_vars => IInv'
<1> SUFFICES ASSUME IInv, [Next]_vars PROVE IInv'
  OBVIOUS
<1>1. CASE UNCHANGED vars
  BY <1>1 DEF vars, IInv, InPlace, Stored, Output, PartRead, PartsInPlace, AnswerIsFirstFailure
<1> QED BY <1>1, ReadPartIInv, ReadEndIInv, ReadRawIInv, JoinIInv, FinishIInv DEF Next

(* The body that is forwarded has every part in its place, whatever the order *)
(* in which the goroutines of processMultipart end.                           *)
THEOREM InterceptPartsInPlace == Spec => []PartsInPlace
<1>1. IInv => PartsInPlace
  BY DEF IInv
<1> QED BY <1>1, InitIInv, NextIInv, PTL DEF Spec

(* What the client is told is decided by the parts and not by the schedule.   *)
THEOREM InterceptAnswerIsFirstFailure == Spec => []AnswerIsFirstFailure
<1>1. IInv => AnswerIsFirstFailure
  BY DEF IInv
<1> QED BY <1>1, InitIInv, NextIInv, PTL DEF Spec
-----------------------------------------------------------------------------
(* Reading is all or nothing as long as no cap is the largest integer.        *)

CapsBelowMaxInt == MaxInt \notin Caps

\* What has been read so far is whole, within the cap and not broken off.
ReadWhole == \A k \in DOMAIN payload :
               /\ payload[k].body = [of |-> k, size |-> upload.parts[k].size]
               /\ payload[k].body.size <= cap /\ ~Breaks(k)

WInv == /\ IInv /\ WholeOrRefused
        /\ phase = "reading" => ReadWhole

(* One byte more than the cap is enough to tell what is too large.            *)
LEMMA ReadLimitedExact ==
  ASSUME CapsBelowMaxInt, cap \in Caps, NEW size \in Nat, NEW b \in BOOLEAN
  PROVE  ReadLimited(size, b) = IF b /\ size <= cap THEN <<0, "broken">>
                                ELSE IF size > cap THEN <<0, "too_large">>
                                ELSE <<size, "nil">>
<1>1. cap \in Nat /\ cap > 0 /\ cap + 1 \in Word
  BY CapsAssumption, MaxIntAssumption DEF CapsBelowMaxInt, Word
<1>2. Wrap(cap + 1) = cap + 1
  BY <1>1, WrapKeepsWords, MaxIntAssumption DEF Wrap, Word
<1> QED BY <1>1, <1>2 DEF ReadLimited

(* What a part comes back as from readLimited, by its index.                  *)
LEMMA ReadOutcome ==
  ASSUME CapsBelowMaxInt, IInv, NEW k \in DOMAIN upload.parts,
         NEW read, read = ReadLimited(upload.parts[k].size, Breaks(k))
  PROVE  /\ read[2] = "nil" => /\ read[1] = upload.parts[k].size
                               /\ upload.parts[k].size <= cap /\ ~Breaks(k)
         /\ read[2] \in {"nil", "too_large", "broken"}
         /\ read[2] = "too_large" => upload.parts[k].size > cap
         /\ read[2] = "broken" => upload.ending # "closed"
<1> DEFINE size == upload.parts[k].size
           b == Breaks(k)
<1>1. size \in Nat /\ b \in BOOLEAN /\ cap \in Nat /\ cap \in Caps
  BY PartShape, CapsAssumption, MaxIntAssumption DEF IInv, Breaks
<1>2. read = IF b /\ size <= cap THEN <<0, "broken">>
             ELSE IF size > cap THEN <<0, "too_large">>
             ELSE <<size, "nil">>
  <2>1. read = ReadLimited(size, b)
    OBVIOUS
  <2> HIDE DEF size, b
  <2> QED BY <1>1, <2>1, ReadLimitedExact
<1>3. b => upload.ending # "closed"
  BY DEF Breaks
<1> HIDE DEF size, b
<1>4. /\ read[2] = "nil" => read[1] = size /\ size <= cap /\ ~b
      /\ read[2] \in {"nil", "too_large", "broken"}
      /\ read[2] = "too_large" => size > cap
      /\ read[2] = "broken" => upload.ending # "closed"
  BY <1>1, <1>2, <1>3
<1> QED BY <1>4 DEF size, b

LEMMA InitWInv == Init => WInv
<1> SUFFICES ASSUME Init PROVE WInv
  OBVIOUS
<1>1. IInv
  BY InitIInv
<1> QED BY <1>1 DEF Init, WInv, WholeOrRefused, ReadWhole

LEMMA NextWInv == ASSUME CapsBelowMaxInt PROVE WInv /\ [Next]_vars => WInv'
<1> SUFFICES ASSUME WInv, [Next]_vars PROVE WInv'
  OBVIOUS
<1>0. IInv /\ IInv'
  BY NextIInv DEF WInv
<1>1. CASE ReadPart
  <2> DEFINE read == ReadLimited(upload.parts[Unread].size, Breaks(Unread))
  <2>0. /\ UNCHANGED <<upload, cap>> /\ phase = "reading" /\ Unread \in DOMAIN upload.parts
        /\ ReadWhole /\ payload \in Seq(Reads) /\ upload.multi
    BY <1>0, <1>1 DEF ReadPart, WInv, IInv, InPlace
  <2>1. /\ read[2] = "nil" => /\ read[1] = upload.parts[Unread].size
                              /\ upload.parts[Unread].size <= cap /\ ~Breaks(Unread)
        /\ read[2] = "too_large" => upload.parts[Unread].size > cap
        /\ read[2] = "broken" => upload.ending # "closed"
        /\ read[2] \in {"nil", "too_large", "broken"}
    BY <1>0, <2>0, ReadOutcome
  <2>2. CASE read[2] # "nil" /\ Reject(read[2])
    <3>1. phase' = "ended" /\ answer' = read[2]
      BY <2>2 DEF Reject
    <3> HIDE DEF read
    <3> QED BY <1>0, <2>0, <2>1, <3>1 DEF WInv, WholeOrRefused
  <2>3. CASE /\ read[2] = "nil"
             /\ payload' = Append(payload, PartRead(Unread, read[1]))
             /\ UNCHANGED <<phase, fate, ended, outputs, errs, answer, sent>>
    <3>1. DOMAIN payload' = DOMAIN payload \union {Unread}
      BY <2>0, <2>3 DEF Unread
    <3>2. payload'[Unread] = PartRead(Unread, read[1])
      BY <2>0, <2>3 DEF Unread
    <3>3. \A k \in DOMAIN payload : payload'[k] = payload[k]
      BY <2>0, <2>3
    <3>4. payload'[Unread].body = [of |-> Unread, size |-> upload.parts[Unread].size]
      <4>1. read[1] = upload.parts[Unread].size
        BY <2>1, <2>3
      <4> HIDE DEF read
      <4> QED BY <3>2, <4>1 DEF PartRead
    <3>5. ReadWhole'
      <4> SUFFICES \A k \in DOMAIN payload' :
                     /\ payload'[k].body = [of |-> k, size |-> upload'.parts[k].size]
                     /\ payload'[k].body.size <= cap' /\ ~Breaks(k)'
        BY DEF ReadWhole
      <4>1. TAKE k \in DOMAIN payload'
      <4>2. CASE k = Unread
        <5>1. payload'[k].body.size = upload.parts[Unread].size
          BY <3>4, <4>2
        <5>2. ~Breaks(k)' /\ upload.parts[Unread].size <= cap'
          BY <2>0, <2>1, <2>3, <4>2 DEF Breaks
        <5> QED BY <2>0, <3>4, <4>2, <5>1, <5>2
      <4>3. CASE k \in DOMAIN payload
        BY <2>0, <3>3, <4>3 DEF ReadWhole, Breaks
      <4> QED BY <3>1, <4>2, <4>3
    <3> QED BY <1>0, <2>0, <2>3, <3>5 DEF WInv, WholeOrRefused
  <2> QED BY <1>1, <2>2, <2>3 DEF ReadPart
<1>2. CASE ReadEnd
  <2>0. /\ UNCHANGED <<upload, cap>> /\ phase = "reading" /\ ReadWhole /\ InPlace
        /\ Unread \notin DOMAIN upload.parts
    BY <1>0, <1>2 DEF ReadEnd, WInv, IInv
  <2>1. CASE upload.ending = "closed" /\ Start(payload)
    <3>1. Len(payload) = Len(upload.parts)
      BY <1>0, <2>0, UploadShape DEF IInv, InPlace, Unread
    <3>2. payload' = payload /\ phase' = "sanitizing" /\ answer' = answer
      BY <2>1 DEF Start
    <3> QED BY <1>0, <2>0, <2>1, <3>1, <3>2 DEF WInv, WholeOrRefused, ReadWhole, IInv
  <2>2. CASE upload.ending # "closed" /\ Reject("broken")
    <3>1. phase' = "ended" /\ answer' = "broken"
      BY <2>2 DEF Reject
    <3> QED BY <1>0, <2>0, <2>2, <3>1 DEF WInv, WholeOrRefused
  <2> QED BY <1>2, <2>1, <2>2 DEF ReadEnd
<1>3. CASE ReadRaw
  <2> DEFINE read == ReadLimited(upload.parts[1].size, Breaks(1))
  <2>0. UNCHANGED <<upload, cap>> /\ phase = "reading" /\ ~upload.multi
    BY <1>3 DEF ReadRaw
  <2>1. /\ Len(upload.parts) = 1 /\ DOMAIN upload.parts = 1 .. Len(upload.parts)
        /\ upload.ending \in {"closed", "within"}
    BY <1>0, <2>0, UploadShape DEF IInv
  <2>2. 1 \in DOMAIN upload.parts
    BY <2>1
  <2>3. /\ read[2] = "nil" => /\ read[1] = upload.parts[1].size
                              /\ upload.parts[1].size <= cap /\ ~Breaks(1)
        /\ read[2] = "too_large" => upload.parts[1].size > cap
        /\ read[2] = "broken" => upload.ending # "closed"
        /\ read[2] \in {"nil", "too_large", "broken"}
    BY <1>0, <2>2, ReadOutcome
  <2>4. CASE read[2] # "nil" /\ Reject(read[2])
    <3>1. phase' = "ended" /\ answer' = read[2]
      BY <2>4 DEF Reject
    <3> HIDE DEF read
    <3> QED BY <1>0, <2>0, <2>2, <2>3, <3>1 DEF WInv, WholeOrRefused
  <2>5. CASE read[2] = "nil" /\ Start(<<PartRead(1, read[1])>>)
    <3>1. /\ payload' = <<PartRead(1, upload.parts[1].size)>> /\ phase' = "sanitizing"
          /\ answer' = answer /\ answer = "none"
      BY <1>0, <1>3, <2>3, <2>5 DEF Start, ReadRaw, IInv
    <3>2. upload.ending = "closed" /\ upload.parts[1].size <= cap
      BY <2>1, <2>3, <2>5 DEF Breaks
    <3>3. /\ Len(payload') = 1 /\ DOMAIN payload' = {1}
          /\ payload'[1].body = [of |-> 1, size |-> upload.parts[1].size]
      BY <3>1 DEF PartRead
    <3>4. payload'[1].body.size = upload.parts[1].size
      BY <3>3
    <3> QED BY <1>0, <2>0, <2>1, <3>1, <3>2, <3>3, <3>4 DEF WInv, WholeOrRefused
  <2> QED BY <1>3, <2>4, <2>5 DEF ReadRaw
<1>4. CASE Join
  <2>1. phase = "sanitizing" /\ phase' = "ended" /\ ended = DOMAIN payload
    BY <1>4 DEF Join
  <2>2. answer' \notin {"too_large", "broken"}
    <3>1. \A k \in DOMAIN errs : errs[k] \in ItemErrors \union {"nil"}
      BY <1>0, <2>1, JoinedFates
    <3> QED BY <1>4, <3>1 DEF Join, Failures, ItemErrors
  <2> QED BY <1>0, <2>1, <2>2 DEF WInv, WholeOrRefused
<1>5. CASE \E k \in 1 .. MaxParts : Finish(k)
  <2>1. phase' = phase /\ phase = "sanitizing" /\ UNCHANGED <<upload, cap, payload, answer>>
    BY <1>5 DEF Finish, Running
  <2> QED BY <1>0, <2>1 DEF WInv, WholeOrRefused
<1>6. CASE UNCHANGED vars
  BY <1>0, <1>6 DEF vars, WInv, WholeOrRefused, ReadWhole, Breaks
<1> QED BY <1>1, <1>2, <1>3, <1>4, <1>5, <1>6 DEF Next

(* What reaches the sanitizer is the whole of a whole upload within the cap,  *)
(* and an upload is refused as too large or broken only if it is: for every   *)
(* width, every set of caps below the largest integer and every upload.  The  *)
(* assumption is needed: run intercept_cap shows what the largest one does.   *)
THEOREM InterceptWholeOrRefused == ASSUME CapsBelowMaxInt PROVE Spec => []WholeOrRefused
<1>1. WInv => WholeOrRefused
  BY DEF WInv
<1>2. WInv /\ [Next]_vars => WInv'
  BY NextWInv
<1> QED BY <1>1, <1>2, InitWInv, PTL DEF Spec
=============================================================================
