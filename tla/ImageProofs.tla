------------------------- MODULE ImageProofs ---------------------------------
(* What happens to one image, for integers of every width, images of every    *)
(* size and files of any length.  Imaging: the pixel cap that Decode checks   *)
(* on a product that may have wrapped around is the cap on the exact product, *)
(* the checksums catch the slips they are made for, and the mask hides what   *)
(* the detectors have to find.  Strip: the copy without metadata is the whole *)
(* image and nothing that should not be in it.                                *)
EXTENDS Imaging, Strip, Lemmas

IInv == /\ PixelCapExact
        /\ \E family \in Families : upload \in family

LEMMA HeaderWords ==
  ASSUME IInv
  PROVE  /\ upload.header[1] \in Word /\ upload.header[2] \in Word
         /\ upload.maxPixels \in Word
BY FamiliesAssumption DEF IInv

(* The check of Decode is the comparison of the exact product.                *)
LEMMA UnderCapExact ==
  ASSUME NEW w \in 1 .. MaxInt, NEW h \in 1 .. MaxInt, NEW cap \in Word
  PROVE  UnderCap(w, h, cap) <=> (cap > 0 => w * h <= cap)
<1>1. /\ Wrap(w * h) \in Word
      /\ Quot(Wrap(w * h), w) = h <=> w * h <= MaxInt
      /\ w * h <= MaxInt => Wrap(w * h) = w * h
  <2> DEFINE v == Wrap(w * h)
  <2>1. WrapsTo(MaxInt, w * h, v)
    BY DEF Wrap, WrapsTo
  <2> HIDE DEF v
  <2>2. /\ v \in -MaxInt - 1 .. MaxInt
        /\ Divided(v, w) = h <=> w * h <= MaxInt
        /\ w * h <= MaxInt => v = w * h
    BY <2>1, QuotientTellsOverflow, MaxIntAssumption
  <2>3. v \in Word /\ Quot(v, w) = Divided(v, w)
    BY <2>2 DEF Word, Quot, Divided
  <2> QED BY <2>2, <2>3 DEF v
<1>2. cap <= MaxInt /\ cap \in Int /\ w # 0 /\ MaxInt \in Nat /\ w * h \in Int
  BY MaxIntAssumption DEF Word
<1>3. UnderCap(w, h, cap) <=>
        (cap > 0 => Quot(Wrap(w * h), w) = h /\ Wrap(w * h) <= cap)
  BY <1>2 DEF UnderCap
<1> QED BY <1>1, <1>2, <1>3

LEMMA InitIInv == Init => IInv
BY DEF Init, IInv, PixelCapExact

LEMMA NextIInv == IInv /\ [Next]_vars => IInv'
<1> SUFFICES ASSUME IInv, [Next]_vars PROVE IInv'
  OBVIOUS
<1> DEFINE w == upload.header[1]
           h == upload.header[2]
           cap == upload.maxPixels
<1>1. CASE Decode
  <2>1. upload' = upload
    BY <1>1 DEF Decode, Refuse
  <2>2. w \in Int /\ h \in Int /\ cap \in Word
    BY HeaderWords, MaxIntAssumption DEF Word
  <2>3. ASSUME w > 0, h > 0
        PROVE  UnderCap(w, h, cap) <=> (cap > 0 => w * h <= cap)
    <3>1. w \in 1 .. MaxInt /\ h \in 1 .. MaxInt
      BY <2>3, HeaderWords, MaxIntAssumption DEF Word
    <3> HIDE DEF w, h, cap
    <3> QED BY <2>2, <3>1, UnderCapExact
  <2>4. CASE w > 0 /\ h > 0 /\ ~UnderCap(w, h, cap) /\ Refuse("too_many_pixels")
    <3>1. cap > 0 /\ ~(w * h <= cap)
      BY <2>3, <2>4
    <3>2. w * h > cap
      BY <3>1, <2>2, MaxIntAssumption DEF Word
    <3>3. step' = "refused"
      BY <2>4 DEF Refuse
    <3> QED BY <2>1, <3>1, <3>2, <3>3 DEF IInv, PixelCapExact, Width, Height
  <2>5. CASE \E err \in {"invalid_bounds", "decode"} : Refuse(err)
    BY <2>1, <2>5 DEF IInv, PixelCapExact, Refuse
  <2>6. CASE /\ w > 0 /\ h > 0 /\ UnderCap(w, h, cap)
             /\ upload.actual = upload.header
             /\ step' = "decoded"
             /\ UNCHANGED <<upload, refusal, regions, categories, out>>
    <3>1. cap > 0 => w * h <= cap
      BY <2>3, <2>6
    <3>2. w >= 1 /\ h >= 1
      BY <2>2, <2>6
    <3>3. refusal' = refusal
      BY <2>6
    <3> QED BY <2>1, <2>6, <3>1, <3>2, <3>3 DEF IInv, PixelCapExact, Width, Height
  <2> QED BY <1>1, <2>4, <2>5, <2>6 DEF Decode
<1>2. CASE Detect
  BY <1>2 DEF Detect, Refuse, IInv, PixelCapExact, Width, Height
<1>3. CASE Mask
  BY <1>3 DEF Mask, IInv, PixelCapExact, Width, Height
<1>4. CASE UNCHANGED vars
  BY <1>4 DEF vars, IInv, PixelCapExact, Width, Height
<1> QED BY <1>1, <1>2, <1>3, <1>4 DEF Next

(* No image is decoded whose exact number of pixels is over the cap, and none *)
(* is refused for it that is not: for every width, header and cap.            *)
THEOREM ImagingPixelCapExact == Spec => []PixelCapExact
<1>1. IInv => PixelCapExact
  BY DEF IInv
<1> QED BY <1>1, InitIInv, NextIInv, PTL DEF Spec

-----------------------------------------------------------------------------
(* Metadata. What Filtered makes of a file of any length is shown by the      *)
(* lemmas about lists: how far two files that agree are filtered alike, and   *)
(* what a file without the unwanted pieces becomes. The invariant of the two  *)
(* loops (RunInv) is that the output so far is the filtered input so far, and *)
(* that no piece was passed at which a loop stops.                            *)

(* The end of a sequence in front of which p does not occur.                  *)
LEMMA UpToFirst ==
  ASSUME NEW X, NEW s \in Seq(X), NEW p, NEW k \in 1 .. Len(s), s[k] = p,
         \A j \in 1 .. k - 1 : s[j] # p
  PROVE  /\ UpTo(s, p) = SubSeq(s, 1, k)
         /\ Len(UpTo(s, p)) = k
         /\ \A j \in 1 .. k : UpTo(s, p)[j] = s[j]
<1>1. p \in Range(s)
  BY DEF Range
<1>2. FirstAt(s, p) = k
  <2> DEFINE Is(n) == s[n] = p /\ \A j \in 1 .. n - 1 : s[j] # p
  <2>1. \A n \in DOMAIN s : Is(n) => n = k
    <3> TAKE n \in DOMAIN s
    <3> HAVE Is(n)
    <3>1. ~ (n < k) /\ ~ (k < n)
      OBVIOUS
    <3> QED BY <3>1
  <2>2. k \in DOMAIN s /\ Is(k)
    OBVIOUS
  <2>3. FirstAt(s, p) = CHOOSE n \in DOMAIN s : Is(n)
    BY DEF FirstAt
  <2> HIDE DEF Is
  <2> QED BY <2>1, <2>2, <2>3
<1>3. UpTo(s, p) = SubSeq(s, 1, k)
  BY <1>1, <1>2 DEF UpTo
<1>4. Len(SubSeq(s, 1, k)) = k /\ \A j \in 1 .. k : SubSeq(s, 1, k)[j] = s[j]
  OBVIOUS
<1> QED BY <1>3, <1>4

Wanted == IF png THEN {"signature", "image", "IEND"} ELSE JpegPieces \ {"meta"}

First == IF png THEN "signature" ELSE "SOI"

End == IF png THEN "IEND" ELSE "EOI"

Between == IF png THEN {"image", "ancillary"} ELSE {"table", "lone", "meta"}

(* While a loop runs its output is what the pieces consumed leave, and all of *)
(* them but the first are of those that the loop goes on after.               *)
RunInv == result = "running" =>
  /\ stripped = Filtered(data, Wanted)[pos]
  /\ pos > 0 => data[1] = First /\ \A k \in 2 .. pos : data[k] \in Between

FileInv == /\ png \in BOOLEAN
           /\ data \in Seq(IF png THEN PngPieces ELSE JpegPieces)
           /\ pos \in 0 .. Len(data)

StripInv == FileInv /\ RunInv /\ HeaderClean /\ PixelsKept /\ OkMeansWhole

(* What the running loop knows of the pieces behind it.                       *)
LEMMA Behind ==
  ASSUME FileInv, RunInv, result = "running", pos > 0
  PROVE  /\ stripped = Filtered(data, Wanted)[pos]
         /\ Len(stripped) \in Nat /\ Len(stripped) > 0
         /\ stripped[1] = data[1] /\ Head(data) = data[1] /\ data # <<>>
         /\ stripped \in Seq(Wanted)
         /\ png => stripped \in Seq({"signature", "image"})
         /\ ~png => stripped \in Seq({"SOI", "table", "lone"})
         /\ \A k \in 1 .. pos : data[k] \notin {End, "SOS", "cut"}
         /\ First \in Wanted /\ data[1] = First
<1>1. /\ Len(data) \in Nat /\ pos \in 1 .. Len(data) /\ data[1] = First
      /\ stripped = Filtered(data, Wanted)[pos]
      /\ \A k \in 2 .. pos : data[k] \in Between
  BY DEF FileInv, RunInv
<1>2. First \in Wanted
  BY DEF First, Wanted, JpegPieces
<1>3. \A k \in 1 .. pos : k = 1 \/ k \in 2 .. pos
  BY <1>1
<1>4. \A k \in 1 .. pos : data[k] \in Between \union {First}
  BY <1>1, <1>3
<1>5. \A k \in 1 .. pos : data[k] \notin {End, "SOS", "cut"}
  BY <1>4 DEF Between, First, End
<1>6. stripped \in Seq(Wanted) /\ Len(stripped) > 0 /\ stripped[1] = data[1]
  BY <1>1, <1>2, FilteredFirst
<1>7. png => stripped \in Seq({"signature", "image"})
  <2> HAVE png
  <2>1. \A k \in 1 .. pos : data[k] \in Wanted => data[k] \in {"signature", "image"}
    BY <1>4 DEF Between, First, Wanted
  <2>2. pos \in 0 .. Len(data)
    BY <1>1
  <2> QED BY <1>1, <2>1, <2>2, FilteredIn
<1>8. ~png => stripped \in Seq({"SOI", "table", "lone"})
  <2> HAVE ~png
  <2>1. \A k \in 1 .. pos : data[k] \in Wanted => data[k] \in {"SOI", "table", "lone"}
    BY <1>4 DEF Between, First, Wanted
  <2>2. pos \in 0 .. Len(data)
    BY <1>1
  <2> QED BY <1>1, <2>1, <2>2, FilteredIn
<1>9. Head(data) = data[1] /\ data # <<>>
  BY <1>1 DEF FileInv
<1> QED BY <1>1, <1>2, <1>5, <1>6, <1>7, <1>8, <1>9

(* A turn that goes on.                                                       *)
LEMMA GoesOn ==
  ASSUME StripInv, result = "running", pos < Len(data),
         IF pos = 0 THEN data[1] = First ELSE data[pos + 1] \in Between,
         IF data[pos + 1] \in Wanted THEN Copy ELSE Skip,
         UNCHANGED <<png, data, result>>
  PROVE  StripInv'
<1>1. FileInv /\ RunInv /\ Len(data) \in Nat /\ pos \in Nat
  BY DEF StripInv, FileInv
<1>2. pos' = pos + 1 /\ pos + 1 \in 1 .. Len(data) /\ (pos + 1) - 1 = pos
  BY <1>1 DEF Copy, Skip
<1>3. stripped' = IF data[pos + 1] \in Wanted THEN Append(stripped, data[pos + 1]) ELSE stripped
  BY DEF Copy, Skip
<1>4. stripped' = Filtered(data, Wanted)[pos + 1]
  <2>1. stripped = Filtered(data, Wanted)[pos]
    BY <1>1 DEF RunInv
  <2>2. \A n \in 1 .. Len(data) : Filtered(data, Wanted)[n] =
          IF data[n] \in Wanted THEN Append(Filtered(data, Wanted)[n - 1], data[n])
                                ELSE Filtered(data, Wanted)[n - 1]
    BY <1>1, FilteredUnfolds
  <2> QED BY <1>2, <1>3, <2>1, <2>2
<1>5. data[1] = First /\ \A k \in 2 .. pos + 1 : data[k] \in Between
  <2>1. \A k \in 2 .. pos + 1 : k \in 2 .. pos \/ (k = pos + 1 /\ pos > 0)
    BY <1>1
  <2> QED BY <1>1, <2>1 DEF RunInv
<1>6. Wanted' = Wanted /\ First' = First /\ Between' = Between
  BY DEF Wanted, First, Between
<1>7. RunInv' /\ FileInv'
  BY <1>1, <1>2, <1>4, <1>5, <1>6 DEF RunInv, FileInv
<1>8. result' # "ok"
  OBVIOUS
<1> QED BY <1>7, <1>8 DEF StripInv, HeaderClean, PixelsKept, OkMeansWhole

(* A turn that refuses.                                                       *)
LEMMA Refuses ==
  ASSUME StripInv, NEW err, err \notin {"ok", "running"}, Fail(err), UNCHANGED <<png, data>>
  PROVE  StripInv'
BY DEF StripInv, FileInv, RunInv, HeaderClean, PixelsKept, OkMeansWhole, Fail

(* The turn that comes to EOI or IEND.                                        *)
LEMMA Ends ==
  ASSUME StripInv, result = "running", pos > 0, At({End}), Copy, UNCHANGED <<png, data>>,
         result' = "ok"
  PROVE  StripInv'
<1> DEFINE n == pos + 1
           tail == UpTo(data, End)
           o == Append(stripped, End)
<1>1. FileInv /\ RunInv
  BY DEF StripInv
<1>2. /\ Len(data) \in Nat /\ pos \in Nat /\ n \in 1 .. Len(data) /\ data[n] = End
      /\ stripped' = o /\ pos' = n /\ data' = data /\ png' = png
  BY <1>1 DEF FileInv, At, Copy
<1>3. /\ stripped = Filtered(data, Wanted)[pos]
      /\ Len(stripped) \in Nat /\ Len(stripped) > 0
      /\ stripped[1] = data[1] /\ Head(data) = data[1]
      /\ stripped \in Seq(Wanted)
      /\ png => stripped \in Seq({"signature", "image"})
      /\ ~png => stripped \in Seq({"SOI", "table", "lone"})
      /\ \A k \in 1 .. pos : data[k] \notin {End, "SOS", "cut"}
  BY <1>1, Behind
<1>4. End \in Wanted /\ End \notin {"SOS", "cut"}
  BY DEF End, Wanted, JpegPieces
<1>5. o = Filtered(data, Wanted)[n]
  <2>1. n \in 1 .. Len(data) /\ n - 1 = pos
    BY <1>2
  <2>2. \A k \in 1 .. Len(data) : Filtered(data, Wanted)[k] =
          IF data[k] \in Wanted THEN Append(Filtered(data, Wanted)[k - 1], data[k])
                                ELSE Filtered(data, Wanted)[k - 1]
    BY <1>2, FilteredUnfolds
  <2> QED BY <1>2, <1>3, <1>4, <2>1, <2>2
<1>6. /\ tail = SubSeq(data, 1, n) /\ Len(tail) = n
      /\ \A k \in 1 .. n : tail[k] = data[k]
  <2>1. \A k \in 1 .. n - 1 : data[k] # End
    BY <1>2, <1>3
  <2>2. data \in Seq(IF png THEN PngPieces ELSE JpegPieces)
    BY <1>1 DEF FileInv
  <2> HIDE DEF n
  <2> QED BY <1>2, <2>1, <2>2, UpToFirst
<1>7. Keep(tail, Wanted) = o
  <2>1. n \in Nat /\ Len(tail) \in Nat /\ n <= Len(tail) /\ n <= Len(data)
    BY <1>2, <1>6
  <2>3. \A k \in 1 .. n : tail[k] = data[k]
    BY <1>6
  <2> DEFINE W == Wanted
  <2> HIDE DEF n, tail, W
  <2>4. Filtered(tail, W)[n] = Filtered(data, W)[n]
    BY <1>2, <2>1, <2>3, FilteredPrefix
  <2>2. Filtered(tail, Wanted)[n] = Filtered(data, Wanted)[n]
    BY <2>4 DEF W
  <2> QED BY <1>5, <1>6, <2>2 DEF Keep
<1>8. /\ o \in Seq(Wanted) /\ Len(o) = Len(stripped) + 1 /\ o[1] = data[1] /\ o[Len(o)] = End
      /\ Last(o) = End /\ Range(o) = Range(stripped) \union {End}
  <2>1. o \in Seq(Wanted) /\ Len(o) = Len(stripped) + 1 /\ o[1] = data[1] /\ o[Len(o)] = End
    BY <1>3, <1>4
  <2>2. \A k \in 1 .. Len(stripped) : o[k] = stripped[k]
    BY <1>3
  <2>3. Range(o) = Range(stripped) \union {End}
    <3>1. DOMAIN o = DOMAIN stripped \union {Len(o)}
      BY <1>3, <2>1
    <3>2. DOMAIN stripped = 1 .. Len(stripped)
      BY <1>3
    <3> QED BY <2>1, <2>2, <3>1, <3>2 DEF Range
  <2> QED BY <2>1, <2>3 DEF Last
<1>9. "cut" \notin Range(tail)
  <2>1. DOMAIN tail = 1 .. n
    BY <1>2, <1>6
  <2>2. \A k \in 1 .. n : k \in 1 .. pos \/ k = n
    BY <1>2
  <2>3. \A k \in 1 .. n : data[k] # "cut"
    BY <1>2, <1>3, <1>4, <2>2
  <2> QED BY <1>6, <2>1, <2>3 DEF Range
<1>10. /\ png => Range(o) \subseteq {"signature", "image", "IEND"}
       /\ ~png => "SOS" \notin Range(o) /\ "meta" \notin Range(o)
  <2>1. \A R : stripped \in Seq(R) => Range(stripped) \subseteq R
    BY <1>3 DEF Range
  <2>2. CASE png
    <3>1. Range(stripped) \subseteq {"signature", "image"} /\ End = "IEND"
      BY <1>3, <2>1, <2>2 DEF End
    <3> QED BY <1>8, <2>2, <3>1
  <2>3. CASE ~png
    <3>1. Range(stripped) \subseteq {"SOI", "table", "lone"} /\ End = "EOI"
      BY <1>3, <2>1, <2>3 DEF End
    <3> QED BY <1>8, <2>3, <3>1
  <2> QED BY <2>2, <2>3
<1>11. Keep(o, Wanted) = o
  <2> HIDE DEF o
  <2> QED BY <1>8, FilteredAll DEF Keep
<1>12. Len(o) > 1
  BY <1>3, <1>8
<1> HIDE DEF o, tail, n
<1>13. HeaderClean'
  <2>1. CASE png
    BY <1>2, <1>8, <1>10, <2>1 DEF HeaderClean, End
  <2>2. CASE ~png
    <3>1. UpTo(o, "SOS") = o
      BY <1>10, <2>2 DEF UpTo
    <3> QED BY <1>2, <1>10, <2>2, <3>1 DEF HeaderClean
  <2> QED BY <2>1, <2>2
<1>14. PixelsKept'
  <2>1. CASE png
    <3>1. tail = UpTo(data, "IEND") /\ Wanted = {"signature", "image", "IEND"}
      BY <2>1 DEF End, Wanted, tail
    <3> QED BY <1>2, <1>7, <2>1, <3>1 DEF PixelsKept
  <2>2. CASE ~png
    <3>1. tail = UpTo(data, "EOI") /\ Wanted = JpegPieces \ {"meta"}
      BY <2>2 DEF End, Wanted, tail
    <3> QED BY <1>2, <1>7, <1>10, <1>11, <2>2, <3>1 DEF PixelsKept
  <2> QED BY <2>1, <2>2
<1>15. OkMeansWhole'
  <2>1. UpTo(data, IF png THEN "IEND" ELSE IF "SOS" \in Range(o) THEN "SOS" ELSE "EOI") = tail
    BY <1>10 DEF End, tail
  <2>2. Last(o) = IF png THEN "IEND" ELSE "EOI"
    BY <1>8 DEF End
  <2> QED BY <1>2, <1>3, <1>8, <1>9, <1>12, <2>1, <2>2 DEF OkMeansWhole
<1>16. FileInv' /\ RunInv'
  <2>1. n \in 0 .. Len(data)
    BY <1>2 DEF n
  <2> QED BY <1>1, <1>2, <2>1 DEF FileInv, RunInv
<1> QED BY <1>13, <1>14, <1>15, <1>16 DEF StripInv

(* The turn that comes to the scan and copies the rest.                       *)
LEMMA Scans ==
  ASSUME StripInv, Scan
  PROVE  StripInv'
<1> DEFINE d == Len(data) - pos
           L == Len(stripped)
           tail == SubSeq(data, pos + 1, Len(data))
           o == stripped \o tail
<1>1. FileInv /\ RunInv /\ result = "running" /\ png = FALSE /\ pos > 0 /\ End = "EOI"
  BY DEF StripInv, Scan, Running, End
<1>2. /\ Len(data) \in Nat /\ pos \in Nat /\ pos < Len(data) /\ data[pos + 1] = "SOS"
      /\ stripped' = o /\ pos' = Len(data) /\ data' = data /\ png' = png
      /\ data \in Seq(JpegPieces)
      /\ \/ Last(o) = "EOI" \/ MayEndInEOI(Last(o))
         \/ result' = "ErrMalformed"
      /\ result' \in {"ok", "ErrMalformed"}
  BY <1>1 DEF FileInv, At, Scan, Running
<1>3. /\ stripped = Filtered(data, Wanted)[pos]
      /\ L \in Nat /\ L > 0
      /\ stripped[1] = data[1] /\ Head(data) = data[1]
      /\ stripped \in Seq(Wanted)
      /\ stripped \in Seq({"SOI", "table", "lone"})
      /\ \A k \in 1 .. pos : data[k] \notin {"EOI", "SOS", "cut"}
  BY <1>1, Behind
<1>4. d \in Nat /\ d > 0 /\ pos + d = Len(data) /\ 1 \in 1 .. d
  BY <1>2
<1>5. tail \in Seq(JpegPieces) /\ Len(tail) = d /\ \A k \in 1 .. d : tail[k] = data[pos + k]
  <2>1. pos + 1 \in 1 .. Len(data) /\ Len(data) \in 1 .. Len(data)
    BY <1>2
  <2>2. \A k \in 1 .. d : (pos + 1) + k - 1 = pos + k
    BY <1>2
  <2> QED BY <1>2, <1>4, <2>1, <2>2
<1>6. stripped \in Seq(JpegPieces)
  <2>1. {"SOI", "table", "lone"} \subseteq JpegPieces
    BY DEF JpegPieces
  <2> QED BY <1>3, <2>1, SeqMonotonic
<1> HIDE DEF tail, d
<1>7. /\ o \in Seq(JpegPieces) /\ Len(o) = L + d
      /\ \A k \in 1 .. L : o[k] = stripped[k]
      /\ \A k \in 1 .. d : o[L + k] = data[pos + k]
  <2>1. /\ o \in Seq(JpegPieces) /\ Len(o) = L + d
        /\ \A k \in 1 .. L + d : o[k] = IF k <= L THEN stripped[k] ELSE tail[k - L]
    BY <1>5, <1>6, ConcatProperties
  <2> HIDE DEF o
  <2>2. \A k \in 1 .. d : /\ L + k \in 1 .. L + d /\ ~ (L + k <= L) /\ (L + k) - L = k
    BY <1>3, <1>4
  <2>3. \A k \in 1 .. L : k \in 1 .. L + d /\ k <= L
    BY <1>3, <1>4
  <2> QED BY <1>5, <2>1, <2>2, <2>3
<1>8. Last(o) = o[Len(o)] /\ Len(o) > 1 /\ Len(o) \in Nat
  BY <1>3, <1>4, <1>7 DEF Last
<1> HIDE DEF o, L
<1>9. o[1] = data[1] /\ L + 1 \in 1 .. Len(o) /\ o[L + 1] = "SOS"
  <2>1. 1 \in 1 .. L /\ L + 1 \in 1 .. L + d
    BY <1>3, <1>4
  <2> QED BY <1>2, <1>3, <1>4, <1>7, <2>1
<1>10. \A k \in 1 .. L : o[k] \in {"SOI", "table", "lone"}
  BY <1>3, <1>7 DEF L
<1>11. "SOS" \in Range(o)
  <2>1. L + 1 \in DOMAIN o
    BY <1>7, <1>9
  <2> QED BY <1>9, <2>1 DEF Range
<1>12. "meta" \notin Range(UpTo(o, "SOS"))
  <2> DEFINE u == UpTo(o, "SOS")
             n == L + 1
  <2>1. n \in 1 .. Len(o) /\ o[n] = "SOS" /\ n - 1 = L
    BY <1>3, <1>9
  <2>2. \A j \in 1 .. n - 1 : o[j] # "SOS"
    BY <1>10, <2>1
  <2>3. u = SubSeq(o, 1, n) /\ Len(u) = n /\ \A j \in 1 .. n : u[j] = o[j]
    <3> HIDE DEF n
    <3> QED BY <1>7, <2>1, <2>2, UpToFirst
  <2>4. DOMAIN u = 1 .. n
    BY <1>7, <2>1, <2>3
  <2>5. \A j \in 1 .. n : o[j] # "meta"
    <3>1. \A j \in 1 .. n : j \in 1 .. L \/ j = n
      BY <1>3
    <3> QED BY <1>10, <2>1, <3>1
  <2> HIDE DEF u, n
  <2>6. "meta" \notin Range(u)
    BY <2>3, <2>4, <2>5 DEF Range
  <2> QED BY <2>6 DEF u
<1>13. "cut" \notin Range(UpTo(data, "SOS"))
  <2> DEFINE u == UpTo(data, "SOS")
             n == pos + 1
  <2>1. n \in 1 .. Len(data) /\ data[n] = "SOS" /\ n - 1 = pos
    BY <1>2
  <2>2. \A j \in 1 .. n - 1 : data[j] # "SOS"
    BY <1>3, <2>1
  <2>3. u = SubSeq(data, 1, n) /\ Len(u) = n /\ \A j \in 1 .. n : u[j] = data[j]
    <3> HIDE DEF n
    <3> QED BY <1>2, <2>1, <2>2, UpToFirst
  <2>4. DOMAIN u = 1 .. n
    BY <1>2, <2>1, <2>3
  <2>5. \A j \in 1 .. n : data[j] # "cut"
    <3>1. \A j \in 1 .. n : j \in 1 .. pos \/ j = n
      BY <1>2
    <3> QED BY <1>3, <2>1, <3>1
  <2> HIDE DEF u, n
  <2>6. "cut" \notin Range(u)
    BY <2>3, <2>4, <2>5 DEF Range
  <2> QED BY <2>6 DEF u
<1>14. Keep(o, Wanted) = Keep(data, Wanted)
  <2> DEFINE W == Wanted
  <2> HIDE DEF W
  <2>1. Filtered(stripped, W)[L] = stripped
    BY <1>3, FilteredAll DEF W, L
  <2>2. Filtered(o, W)[L] = Filtered(stripped, W)[L]
    <3>1. /\ Len(o) \in Nat /\ Len(stripped) \in Nat /\ L \in Nat
          /\ L <= Len(o) /\ L <= Len(stripped)
      BY <1>3, <1>4, <1>7 DEF L
    <3> QED BY <1>7, <3>1, FilteredPrefix
  <2>3. Filtered(o, W)[L] = Filtered(data, W)[pos]
    BY <1>3, <2>1, <2>2 DEF W
  <2>4. Alike(o, data, W, L, pos, d)
    BY <1>2, <1>3, <1>4, <1>7, <1>8, <2>3 DEF Alike
  <2>5. Filtered(o, W)[L + d] = Filtered(data, W)[pos + d]
    BY <2>4, FilteredSame
  <2> QED BY <1>4, <1>7, <2>5 DEF Keep, W
<1>15. Wanted = JpegPieces \ {"meta"}
  BY <1>1 DEF Wanted
<1>16. HeaderClean'
  BY <1>1, <1>2, <1>12 DEF HeaderClean
<1>17. PixelsKept'
  BY <1>1, <1>2, <1>11, <1>14, <1>15 DEF PixelsKept
<1>18. OkMeansWhole'
  <2> SUFFICES ASSUME result' = "ok" PROVE OkMeansWhole'
    BY DEF OkMeansWhole
  <2>1. Last(o) = "EOI" \/ MayEndInEOI(Last(o))
    BY <1>2
  <2> QED BY <1>1, <1>2, <1>3, <1>8, <1>9, <1>11, <1>13, <2>1 DEF OkMeansWhole
<1>19. FileInv' /\ RunInv'
  <2>1. Len(data) \in 0 .. Len(data)
    BY <1>2
  <2> QED BY <1>1, <1>2, <2>1 DEF FileInv, RunInv
<1> QED BY <1>16, <1>17, <1>18, <1>19 DEF StripInv

LEMMA StripInitInv == StripInit => StripInv
<1> SUFFICES ASSUME StripInit PROVE StripInv
  OBVIOUS
<1>1. /\ pos = 0 /\ stripped = <<>> /\ result = "running" /\ png \in BOOLEAN
      /\ data \in Files(IF png THEN PngPieces ELSE JpegPieces)
  BY DEF StripInit
<1> DEFINE S == IF png THEN PngPieces ELSE JpegPieces
<1>2. data \in Seq(S)
  <2>1. PICK n \in 0 .. MaxPieces : data \in [1 .. n -> S]
    BY <1>1 DEF Files
  <2>2. n \in Nat
    BY MaxPiecesAssumption
  <2> QED BY <2>1, <2>2, SeqDef
<1>3. Len(data) \in Nat
  BY <1>2
<1>4. Filtered(data, Wanted)[0] = <<>>
  BY <1>3, FilteredUnfolds
<1>5. FileInv
  BY <1>1, <1>2, <1>3 DEF FileInv
<1>6. RunInv
  BY <1>1, <1>4 DEF RunInv
<1> QED BY <1>1, <1>5, <1>6 DEF StripInv, HeaderClean, PixelsKept, OkMeansWhole

LEMMA StripNextInv == StripInv /\ [StripNext]_stripVars => StripInv'
<1> SUFFICES ASSUME StripInv, [StripNext]_stripVars PROVE StripInv'
  OBVIOUS
<1>1. FileInv /\ Len(data) \in Nat /\ pos \in Nat
  BY DEF StripInv, FileInv
<1>2. CASE Begin
  <2>1. result = "running" /\ UNCHANGED <<png, data>> /\ pos = 0
    BY <1>2 DEF Begin, Running
  <2>2. CASE ~png /\ At({"SOI"}) /\ Copy /\ UNCHANGED result
    <3>1. data[pos + 1] \in Wanted /\ data[1] = First /\ pos < Len(data)
      BY <2>1, <2>2 DEF At, Wanted, First, JpegPieces
    <3> QED BY <2>1, <2>2, <3>1, GoesOn
  <2>3. CASE png /\ At({"signature"}) /\ Copy /\ UNCHANGED result
    <3>1. data[pos + 1] \in Wanted /\ data[1] = First /\ pos < Len(data)
      BY <2>1, <2>3 DEF At, Wanted, First
    <3> QED BY <2>1, <2>3, <3>1, GoesOn
  <2>4. CASE Fail("ErrNotJPEG") \/ Fail("ErrNotPNG")
    BY <2>1, <2>4, Refuses
  <2> QED BY <1>2, <2>2, <2>3, <2>4 DEF Begin, Running
<1>3. CASE Segment
  <2>1. result = "running" /\ ~png /\ UNCHANGED <<png, data>> /\ pos > 0
    BY <1>3 DEF Segment, Running
  <2>2. CASE At({"table", "lone"}) /\ Copy /\ UNCHANGED result
    <3>1. data[pos + 1] \in Wanted /\ data[pos + 1] \in Between /\ pos < Len(data)
      BY <2>1, <2>2 DEF At, Wanted, Between, JpegPieces
    <3> QED BY <2>1, <2>2, <3>1, GoesOn
  <2>3. CASE At({"meta"}) /\ Skip /\ UNCHANGED result
    <3>1. data[pos + 1] \notin Wanted /\ data[pos + 1] \in Between /\ pos < Len(data)
      BY <2>1, <2>3 DEF At, Wanted, Between, JpegPieces
    <3> QED BY <2>1, <2>3, <3>1, GoesOn
  <2>4. CASE At({"EOI"}) /\ Copy /\ result' = "ok"
    <3>1. End = "EOI"
      BY <2>1 DEF End
    <3> QED BY <2>1, <2>4, <3>1, Ends
  <2>5. CASE Fail("ErrMalformed")
    BY <2>1, <2>5, Refuses
  <2> QED BY <1>3, <2>2, <2>3, <2>4, <2>5 DEF Segment
<1>4. CASE Scan
  BY <1>4, Scans
<1>5. CASE Chunk
  <2>1. result = "running" /\ png /\ UNCHANGED <<png, data>> /\ pos > 0
    BY <1>5 DEF Chunk, Running
  <2>2. CASE At({"image"}) /\ Copy /\ UNCHANGED result
    <3>1. data[pos + 1] \in Wanted /\ data[pos + 1] \in Between /\ pos < Len(data)
      BY <2>1, <2>2 DEF At, Wanted, Between
    <3> QED BY <2>1, <2>2, <3>1, GoesOn
  <2>3. CASE At({"ancillary"}) /\ Skip /\ UNCHANGED result
    <3>1. data[pos + 1] \notin Wanted /\ data[pos + 1] \in Between /\ pos < Len(data)
      BY <2>1, <2>3 DEF At, Wanted, Between
    <3> QED BY <2>1, <2>3, <3>1, GoesOn
  <2>4. CASE At({"IEND"}) /\ Copy /\ result' = "ok"
    <3>1. End = "IEND"
      BY <2>1 DEF End
    <3> QED BY <2>1, <2>4, <3>1, Ends
  <2>5. CASE Fail("ErrMalformedPNG")
    BY <2>1, <2>5, Refuses
  <2> QED BY <1>5, <2>2, <2>3, <2>4, <2>5 DEF Chunk
<1>6. CASE UNCHANGED stripVars
  <2>1. Wanted' = Wanted /\ First' = First /\ Between' = Between
    BY <1>6 DEF stripVars, Wanted, First, Between
  <2> QED BY <1>6, <2>1 DEF stripVars, StripInv, FileInv, RunInv, HeaderClean, PixelsKept, OkMeansWhole
<1> QED BY <1>2, <1>3, <1>4, <1>5, <1>6 DEF StripNext

(* Of a file of any length, well formed or not: no metadata segment in front  *)
(* of the scan and no ancillary chunk is let through.                         *)
THEOREM StripHeaderClean == StripSpec => []HeaderClean
<1>1. StripInv => HeaderClean
  BY DEF StripInv
<1> QED BY <1>1, StripInitInv, StripNextInv, PTL DEF StripSpec

(* Of a file of any length: the pieces that carry the image are all there, in *)
(* their order, and nothing else.                                             *)
THEOREM StripPixelsKept == StripSpec => []PixelsKept
<1>1. StripInv => PixelsKept
  BY DEF StripInv
<1> QED BY <1>1, StripInitInv, StripNextInv, PTL DEF StripSpec

(* Of a file of any length: what is let through begins as the input does and  *)
(* comes to an end, and had no broken piece where the loop looks.             *)
THEOREM StripOkMeansWhole == StripSpec => []OkMeansWhole
<1>1. StripInv => OkMeansWhole
  BY DEF StripInv
<1> QED BY <1>1, StripInitInv, StripNextInv, PTL DEF StripSpec

-----------------------------------------------------------------------------
(* Luhn.                                                                      *)

\* What the digit at place k of n adds to the sum.
Weight(n, k, c) == IF (n - k) % 2 = 1 THEN Doubled(c) ELSE c

Weights(d) == [k \in DOMAIN d |-> Weight(Len(d), k, d[k])]

(* The sum of LuhnSum is the one the lemmas about sums are of.                *)
LEMMA LuhnSumIs ==
  ASSUME NEW d, IsFiniteSet(DOMAIN d)
  PROVE  \E g : Summing(g, Weights(d), DOMAIN d) /\ LuhnSum(d) = g[DOMAIN d]
<1> DEFINE A == DOMAIN d
           val(s) == IF (Len(d) - CHOOSE x \in s : TRUE) % 2 = 1
                     THEN Doubled(d[CHOOSE x \in s : TRUE]) ELSE d[CHOOSE x \in s : TRUE]
           Eqn(g) == g = [s \in SUBSET A |->
                         IF s = {} THEN 0
                         ELSE val(s) + g[s \ {CHOOSE x \in s : TRUE}]]
           it == CHOOSE g : Eqn(g)
<1>1. PICK g : SumFcn(g, Weights(d), A)
  <2> HIDE DEF A
  <2> QED BY SumFcnExists DEF A
<1>2. \A s \in SUBSET A : s # {} => Weights(d)[Pick(s)] = val(s)
  BY DEF Pick, Weights, Weight
<1>3. Eqn(g)
  <2> HIDE DEF A, val
  <2> QED BY <1>1, <1>2 DEF SumFcn, Pick
<1>4. Eqn(it)
  <2> HIDE DEF Eqn
  <2> QED BY <1>3
<1>5. SumFcn(it, Weights(d), A)
  <2> HIDE DEF it, A, val
  <2> QED BY <1>2, <1>4 DEF SumFcn, Pick
<1>6. LuhnSum(d) = it[A]
  BY DEF LuhnSum, MapThenSumSet, MapThenFoldSet
<1> QED BY <1>5, <1>6, SumFcnUnfolds

(* Two multiples of ten differ by another.                                    *)
LEMMA DifferByTens ==
  ASSUME NEW a \in Int, NEW b \in Int, NEW x \in Int, b - a = x, a % 10 = 0, b % 10 = 0
  PROVE  x % 10 = 0
  BY SMT

(* Another digit at one place changes the sum by the difference there.        *)
LEMMA LuhnSlip ==
  ASSUME NEW d \in Seq(Digits), NEW k \in DOMAIN d, NEW c \in Digits,
         NEW e, e = [d EXCEPT ![k] = c]
  PROVE  /\ LuhnSum(d) \in Int /\ LuhnSum(e) \in Int
         /\ LuhnSum(e) - LuhnSum(d) = Weight(Len(d), k, c) - Weight(Len(d), k, d[k])
         /\ e \in Seq(Digits) /\ Len(e) = Len(d)
<1> DEFINE A == DOMAIN d
           f == Weights(d)
           h == Weights(e)
           x == Weight(Len(d), k, c) - Weight(Len(d), k, d[k])
<1>1. /\ e \in Seq(Digits) /\ Len(e) = Len(d) /\ DOMAIN e = A /\ e[k] = c
      /\ A = 1 .. Len(d) /\ Len(d) \in Nat
      /\ \A j \in A : d[j] \in Digits /\ e[j] \in Digits /\ (j # k => e[j] = d[j])
  OBVIOUS
<1>2. \A n \in Nat, j \in Nat, b \in Digits : Weight(n, j, b) \in Int
  BY DEF Weight, Doubled, Digits
<1>3. \A j \in A : f[j] \in Int /\ h[j] = IF j = k THEN f[j] + x ELSE f[j]
  <2> TAKE j \in A
  <2>1. f[j] = Weight(Len(d), j, d[j]) /\ h[j] = Weight(Len(d), j, e[j]) /\ j \in Nat
    BY <1>1 DEF Weights
  <2>2. /\ Weight(Len(d), j, d[j]) \in Int /\ Weight(Len(d), k, d[k]) \in Int
        /\ Weight(Len(d), k, c) \in Int
    <3>1. Len(d) \in Nat /\ j \in Nat /\ k \in Nat /\ d[j] \in Digits /\ d[k] \in Digits
      BY <1>1
    <3> QED BY <1>2, <3>1
  <2> HIDE DEF f, h
  <2> QED BY <1>1, <2>1, <2>2
<1>4. x \in Int /\ IsFiniteSet(A) /\ k \in A
  <2>1. Len(d) \in Nat /\ k \in Nat /\ d[k] \in Digits
    BY <1>1
  <2>2. Weight(Len(d), k, c) \in Int /\ Weight(Len(d), k, d[k]) \in Int
    BY <1>2, <2>1
  <2>3. IsFiniteSet(1 .. Len(d))
    BY <2>1, FS_Interval
  <2> QED BY <1>1, <2>2, <2>3
<1>5. PICK g : Summing(g, f, A) /\ LuhnSum(d) = g[A]
  BY <1>4, LuhnSumIs
<1>6. PICK w : Summing(w, h, A) /\ LuhnSum(e) = w[A]
  BY <1>1, <1>4, LuhnSumIs
<1> HIDE DEF A, f, h, x
<1>7. \A s \in SUBSET A : w[s] = IF k \in s THEN g[s] + x ELSE g[s]
  BY <1>3, <1>4, <1>5, <1>6, SummingChange
<1>8. w[A] = g[A] + x /\ g[A] \in Int
  <2>1. A \in SUBSET A /\ k \in A
    BY <1>1 DEF A
  <2>2. g[A] \in Int
    BY <1>3, <1>4, <1>5, <2>1, SummingInt
  <2> QED BY <1>7, <2>1, <2>2
<1> QED BY <1>1, <1>4, <1>5, <1>6, <1>8 DEF x

(* Doubling tells all digits apart, and what a digit adds when it is doubled  *)
(* and when it is not, all but 0 and 9.                                       *)
LEMMA WeightsApart ==
  ASSUME NEW a \in Digits, NEW b \in Digits, a # b, NEW n \in Nat, NEW k \in Nat
  PROVE  /\ (Weight(n, k, b) - Weight(n, k, a)) % 10 # 0
         /\ {a, b} # {0, 9} =>
              ((Weight(n, k, b) - Weight(n, k, a)) +
               (Weight(n, k + 1, a) - Weight(n, k + 1, b))) % 10 # 0
<1>1. (n - k) % 2 = 1 <=> (n - (k + 1)) % 2 # 1
  BY SMT
<1>2. a \in 0 .. 9 /\ b \in 0 .. 9
  BY DEF Digits
<1>3. (Doubled(b) - Doubled(a)) % 10 # 0 /\ (b - a) % 10 # 0
  BY <1>2 DEF Doubled
<1>4. {a, b} # {0, 9} => /\ ((Doubled(b) - Doubled(a)) + (a - b)) % 10 # 0
                         /\ ((b - a) + (Doubled(a) - Doubled(b))) % 10 # 0
  BY <1>2 DEF Doubled
<1> QED BY <1>1, <1>3, <1>4 DEF Weight

(* Digits alone are what is read of them.                                     *)
LEMMA DigitsKept ==
  ASSUME NEW d \in Seq(Digits)
  PROVE  DigitsOf(d) = d /\ Range(d) \subseteq Digits \union {Space, Hyphen}
<1>1. DigitsOf(d) = d
  BY FilteredAll DEF DigitsOf, Keep
<1>2. Range(d) \subseteq Digits
  BY DEF Range
<1> QED BY <1>1, <1>2

(* What TradesOf takes from one place it gives to the next.                   *)
LEMMA WeightsTrade ==
  ASSUME NEW a \in Digits \ {4, 9}, NEW b \in 2 .. 9, NEW n \in Nat, NEW k \in Nat,
         (n - k) % 2 = 1
  PROVE  /\ Weight(n, k, a + 1) - Weight(n, k, a) = 2
         /\ Weight(n, k + 1, b - 2) - Weight(n, k + 1, b) = -2
         /\ a + 1 \in Digits /\ b - 2 \in Digits
<1>1. (n - (k + 1)) % 2 # 1
  BY SMT
<1>2. a \in 0 .. 9 /\ a # 4 /\ a # 9
  BY DEF Digits
<1>3. Doubled(a + 1) - Doubled(a) = 2
  BY <1>2 DEF Doubled
<1> QED BY <1>1, <1>2, <1>3 DEF Weight, Digits

\* The claims about a number of digits.
LuhnCatches(d) ==
  LuhnValid(d) =>
    /\ \A other \in SlipsOf(d, Digits) : ~LuhnValid(other)
    /\ \A other \in SwapsOf(d, Digits) :
         (\E k \in DOMAIN d : other[k] # d[k] /\ d[k] \notin {0, 9}) => ~LuhnValid(other)
    /\ \A other \in TradesOf(d) : LuhnValid(other)

(* What is read of a card is a card if its length and its sum are right.      *)
LEMMA LuhnValidIs ==
  ASSUME NEW d \in Seq(Digits)
  PROVE  LuhnValid(d) <=> Len(d) \in CardDigits /\ LuhnSum(d) % 10 = 0
BY DigitsKept DEF LuhnValid

(* A trade leaves the sum as it is.                                           *)
LEMMA LuhnTrades ==
  ASSUME NEW d \in Seq(Digits), LuhnValid(d), NEW other \in TradesOf(d)
  PROVE  LuhnValid(other)
<1>1. PICK k \in 1 .. Len(d) - 1 : /\ (Len(d) - k) % 2 = 1
                                   /\ d[k] \notin {4, 9} /\ d[k + 1] >= 2
                                   /\ other = [d EXCEPT ![k] = d[k] + 1, ![k + 1] = d[k + 1] - 2]
  BY DEF TradesOf
<1> DEFINE a == d[k]
           b == d[k + 1]
           more == a + 1
           less == b - 2
           mid == [d EXCEPT ![k] = more]
           n == Len(d)
<1>2. /\ a \in Digits \ {4, 9} /\ b \in Digits /\ k \in Nat /\ n \in Nat /\ k + 1 # k
      /\ k + 1 \in Nat /\ k \in DOMAIN d /\ k + 1 \in DOMAIN d /\ DOMAIN d = 1 .. n
      /\ (n - k) % 2 = 1
  BY <1>1
<1>3. b \in 2 .. 9
  BY <1>1, <1>2 DEF Digits
<1>4. other = [mid EXCEPT ![k + 1] = less]
  BY <1>1
<1>5. /\ Weight(n, k, more) - Weight(n, k, a) = 2
      /\ Weight(n, k + 1, less) - Weight(n, k + 1, b) = -2
      /\ more \in Digits /\ less \in Digits
  <2> HIDE DEF a, b, n
  <2> QED BY <1>2, <1>3, WeightsTrade DEF more, less
<1>6. mid[k + 1] = b /\ DOMAIN mid = DOMAIN d
  BY <1>2
<1>7. /\ LuhnSum(d) \in Int /\ LuhnSum(mid) \in Int
      /\ LuhnSum(mid) - LuhnSum(d) = 2
      /\ mid \in Seq(Digits) /\ Len(mid) = n
  <2>1. mid = [d EXCEPT ![k] = more] /\ a = d[k] /\ n = Len(d)
    OBVIOUS
  <2> HIDE DEF mid, a, b, n, more, less
  <2>2. /\ LuhnSum(d) \in Int /\ LuhnSum(mid) \in Int
        /\ LuhnSum(mid) - LuhnSum(d) = Weight(Len(d), k, more) - Weight(Len(d), k, d[k])
        /\ mid \in Seq(Digits) /\ Len(mid) = Len(d)
    <3>1. k \in DOMAIN d /\ more \in Digits /\ mid = [d EXCEPT ![k] = more]
      BY <1>2, <1>5, <2>1
    <3> QED BY <3>1, LuhnSlip
  <2> QED BY <1>5, <2>1, <2>2
<1>8. /\ LuhnSum(other) \in Int /\ LuhnSum(other) - LuhnSum(mid) = -2
      /\ other \in Seq(Digits) /\ Len(other) = n
  <2> HIDE DEF mid, a, b, n, more, less
  <2>1. /\ LuhnSum(other) \in Int
        /\ LuhnSum(other) - LuhnSum(mid)
             = Weight(Len(mid), k + 1, less) - Weight(Len(mid), k + 1, mid[k + 1])
        /\ other \in Seq(Digits) /\ Len(other) = Len(mid)
    <3>1. /\ mid \in Seq(Digits) /\ k + 1 \in DOMAIN mid /\ less \in Digits
          /\ other = [mid EXCEPT ![k + 1] = less]
      BY <1>2, <1>4, <1>5, <1>6, <1>7
    <3>2. PICK j \in DOMAIN mid : j = k + 1 /\ other = [mid EXCEPT ![j] = less]
      BY <3>1
    <3>3. /\ LuhnSum(other) \in Int
          /\ LuhnSum(other) - LuhnSum(mid)
               = Weight(Len(mid), j, less) - Weight(Len(mid), j, mid[j])
          /\ other \in Seq(Digits) /\ Len(other) = Len(mid)
      <4>1. mid \in Seq(Digits)
        BY <3>1
      <4>2. less \in Digits
        BY <3>1
      <4>3. other = [mid EXCEPT ![j] = less]
        BY <3>2
      <4> QED BY <4>1, <4>2, <4>3, LuhnSlip
    <3> QED BY <3>2, <3>3
  <2> QED BY <1>5, <1>6, <1>7, <2>1
<1> HIDE DEF mid, a, b, more, less
<1>9. LuhnSum(other) = LuhnSum(d)
  BY <1>7, <1>8
<1>10. Len(d) \in CardDigits /\ LuhnSum(d) % 10 = 0
  BY LuhnValidIs
<1> QED BY <1>8, <1>9, <1>10, LuhnValidIs

(* A slip changes the sum at one place, a swap at two.                        *)
LEMMA LuhnTells == ASSUME NEW d \in Seq(Digits) PROVE LuhnCatches(d)
<1> SUFFICES ASSUME LuhnValid(d) PROVE LuhnCatches(d)
  BY DEF LuhnCatches
<1>1. \A e \in Seq(Digits) : LuhnValid(e) => LuhnSum(e) % 10 = 0
  BY DigitsKept DEF LuhnValid
<1>2. LuhnSum(d) % 10 = 0
  BY <1>1
<1>3. ASSUME NEW other \in SlipsOf(d, Digits), LuhnValid(other) PROVE FALSE
  <2>0. PICK k \in DOMAIN d : \E c \in Digits \ {d[k]} : other = [d EXCEPT ![k] = c]
    BY <1>3 DEF SlipsOf
  <2>1. PICK c \in Digits : c # d[k] /\ other = [d EXCEPT ![k] = c]
    BY <2>0
  <2>2. d[k] \in Digits /\ k \in Nat /\ Len(d) \in Nat
    OBVIOUS
  <2>3. /\ other \in Seq(Digits) /\ LuhnSum(d) \in Int /\ LuhnSum(other) \in Int
        /\ LuhnSum(other) - LuhnSum(d) = Weight(Len(d), k, c) - Weight(Len(d), k, d[k])
    BY <2>1, LuhnSlip
  <2>4. (Weight(Len(d), k, c) - Weight(Len(d), k, d[k])) % 10 # 0
    BY <2>1, <2>2, WeightsApart
  <2>5. LuhnSum(other) % 10 = 0
    BY <1>1, <1>3, <2>3
  <2>6. Weight(Len(d), k, c) - Weight(Len(d), k, d[k]) \in Int
    <3>1. /\ Weight(Len(d), k, c) \in Int /\ Weight(Len(d), k, d[k]) \in Int
      <4>1. \A b \in Digits : Weight(Len(d), k, b) \in Int
        BY <2>2 DEF Weight, Doubled, Digits
      <4> QED BY <2>2, <4>1
    <3> QED BY <3>1
  <2> QED BY <1>2, <2>3, <2>4, <2>5, <2>6, DifferByTens
<1>4. ASSUME NEW other \in SwapsOf(d, Digits), LuhnValid(other),
             \E k \in DOMAIN d : other[k] # d[k] /\ d[k] \notin {0, 9}
      PROVE  FALSE
  <2>1. PICK k \in 1 .. Len(d) - 1 : /\ d[k] # d[k + 1]
                                     /\ other = [d EXCEPT ![k] = d[k + 1], ![k + 1] = d[k]]
    BY <1>4 DEF SwapsOf
  <2> DEFINE a == d[k]
             b == d[k + 1]
             mid == [d EXCEPT ![k] = b]
             n == Len(d)
  <2>2. /\ a \in Digits /\ b \in Digits /\ k \in Nat /\ n \in Nat /\ k + 1 # k /\ k + 1 \in Nat
        /\ k \in DOMAIN d /\ k + 1 \in DOMAIN d /\ DOMAIN d = 1 .. n
    BY <2>1
  <2>3. other = [mid EXCEPT ![k + 1] = a]
    BY <2>1
  <2>4. /\ mid \in Seq(Digits) /\ Len(mid) = n
        /\ LuhnSum(d) \in Int /\ LuhnSum(mid) \in Int
        /\ LuhnSum(mid) - LuhnSum(d) = Weight(n, k, b) - Weight(n, k, a)
    <3>1. mid = [d EXCEPT ![k] = b]
      OBVIOUS
    <3>2. a = d[k] /\ n = Len(d)
      OBVIOUS
    <3> HIDE DEF mid, b, a, n
    <3>3. /\ LuhnSum(d) \in Int /\ LuhnSum(mid) \in Int
          /\ LuhnSum(mid) - LuhnSum(d) = Weight(Len(d), k, b) - Weight(Len(d), k, d[k])
          /\ mid \in Seq(Digits) /\ Len(mid) = Len(d)
      <4>1. k \in DOMAIN d /\ b \in Digits
        BY <2>2
      <4> QED BY <3>1, <4>1, LuhnSlip
    <3> QED BY <3>2, <3>3
  <2>5. DOMAIN mid = DOMAIN d /\ mid[k + 1] = b
    BY <2>2
  <2>6. /\ other \in Seq(Digits) /\ LuhnSum(other) \in Int
        /\ LuhnSum(other) - LuhnSum(mid) = Weight(n, k + 1, a) - Weight(n, k + 1, b)
    <3> HIDE DEF mid, a, b, n
    <3>1. k + 1 \in DOMAIN mid
      BY <2>2, <2>5
    <3> QED BY <2>2, <2>3, <2>4, <2>5, <3>1, LuhnSlip
  <2>7. {a, b} # {0, 9}
    <3>1. PICK j \in DOMAIN d : other[j] # d[j] /\ d[j] \notin {0, 9}
      BY <1>4
    <3>2. j = k \/ j = k + 1
      BY <2>1, <3>1
    <3>3. a \notin {0, 9} \/ b \notin {0, 9}
      BY <3>1, <3>2
    <3> HIDE DEF a, b
    <3> QED BY <3>3
  <2>8. ((Weight(n, k, b) - Weight(n, k, a)) + (Weight(n, k + 1, a) - Weight(n, k + 1, b))) % 10 # 0
    <3> HIDE DEF n
    <3> QED BY <2>1, <2>2, <2>7, WeightsApart
  <2>9. LuhnSum(other) % 10 = 0
    BY <1>1, <1>4, <2>6
  <2> HIDE DEF mid, a, b, n
  <2>10. LuhnSum(other) - LuhnSum(d) =
           (Weight(n, k, b) - Weight(n, k, a)) + (Weight(n, k + 1, a) - Weight(n, k + 1, b))
    <3>1. /\ Weight(n, k, b) \in Int /\ Weight(n, k, a) \in Int
          /\ Weight(n, k + 1, b) \in Int /\ Weight(n, k + 1, a) \in Int
      BY <2>2 DEF Weight, Doubled, Digits
    <3> QED BY <2>4, <2>6, <3>1
  <2>11. (Weight(n, k, b) - Weight(n, k, a)) + (Weight(n, k + 1, a) - Weight(n, k + 1, b)) \in Int
    BY <2>2 DEF Weight, Doubled, Digits
  <2> QED BY <1>2, <2>4, <2>6, <2>8, <2>9, <2>10, <2>11, DifferByTens
<1>5. \A other \in TradesOf(d) : LuhnValid(other)
  BY LuhnTrades
<1> QED BY <1>3, <1>4, <1>5 DEF LuhnCatches

(* What separates the digits of a card does not matter.                       *)
LEMMA LuhnReads ==
  ASSUME NEW s \in Seq(Digits \union {Space, Hyphen})
  PROVE  DigitsOf(s) \in Seq(Digits) /\ LuhnValid(s) = LuhnValid(DigitsOf(s))
<1>1. DigitsOf(s) \in Seq(Digits)
  <2>1. Len(s) \in Nat /\ Len(s) \in 0 .. Len(s)
    OBVIOUS
  <2> QED BY <2>1, FilteredIn DEF DigitsOf, Keep
<1>2. Range(s) \subseteq Digits \union {Space, Hyphen}
  BY DEF Range
<1>3. DigitsOf(DigitsOf(s)) = DigitsOf(s) /\ Range(DigitsOf(s)) \subseteq Digits \union {Space, Hyphen}
  BY <1>1, DigitsKept
<1> QED BY <1>1, <1>2, <1>3 DEF LuhnValid

-----------------------------------------------------------------------------
(* IBAN.                                                                      *)
Alnum == Digits \union Letters

\* What a character multiplies the remainder before it by.
Shift(c) == IF c \in Digits THEN 10 ELSE 100

\* Two readings of a place that the slips of a sort take for one another.
SameSort(a, b) == a \in Digits <=> b \in Digits

(* A letter shifts by two digits, as if its value were added at once.         *)
LEMMA ModIs ==
  ASSUME NEW m \in 0 .. 96, NEW c \in Alnum
  PROVE  Mod97(m, c) = (m * Shift(c) + c) % 97 /\ Mod97(m, c) \in 0 .. 96
<1>0. c \in 0 .. 35
  BY DEF Alnum, Digits, Letters
<1>1. CASE c \in Digits
  BY <1>0, <1>1 DEF Mod97, Shift
<1>2. CASE c \notin Digits
  <2>1. Mod97(m, c) = (((m * 10 + (c \div 10)) % 97) * 10 + (c % 10)) % 97
    BY <1>2 DEF Mod97
  <2>2. (((m * 10 + (c \div 10)) % 97) * 10 + (c % 10)) % 97 = (m * 100 + c) % 97
    BY <1>0, SMTT(60)
  <2> QED BY <1>0, <1>2, <2>1, <2>2 DEF Shift
<1> QED BY <1>1, <1>2

(* A character keeps two remainders apart, two characters of a sort keep one  *)
(* remainder apart, and the order of two such characters tells.               *)
LEMMA ModTells ==
  ASSUME NEW m \in 0 .. 96, NEW a \in Alnum, NEW b \in Alnum, SameSort(a, b)
  PROVE  /\ \A l \in 0 .. 96 : l # m => Mod97(l, a) # Mod97(m, a)
         /\ a # b => Mod97(m, a) # Mod97(m, b)
         /\ a # b => Mod97(Mod97(m, a), b) # Mod97(Mod97(m, b), a)
<1>0. a \in 0 .. 35 /\ b \in 0 .. 35 /\ Shift(a) = Shift(b) /\ Shift(a) \in {10, 100}
  BY DEF Alnum, Digits, Letters, SameSort, Shift
<1>1. /\ \A l \in 0 .. 96 : Mod97(l, a) = (l * Shift(a) + a) % 97 /\ Mod97(l, a) \in 0 .. 96
      /\ \A l \in 0 .. 96 : Mod97(l, b) = (l * Shift(a) + b) % 97 /\ Mod97(l, b) \in 0 .. 96
  BY <1>0, ModIs
<1>2. ASSUME NEW l \in 0 .. 96, l # m PROVE Mod97(l, a) # Mod97(m, a)
  <2>1. CASE Shift(a) = 10
    <3>1. (l * 10 + a) % 97 # (m * 10 + a) % 97
      BY <1>0, <1>2
    <3> QED BY <1>1, <2>1, <3>1
  <2>2. CASE Shift(a) = 100
    <3>1. (l * 100 + a) % 97 # (m * 100 + a) % 97
      BY <1>0, <1>2
    <3> QED BY <1>1, <2>2, <3>1
  <2> QED BY <1>0, <2>1, <2>2
<1>3. ASSUME a # b PROVE Mod97(m, a) # Mod97(m, b)
  <2>1. CASE Shift(a) = 10
    <3>1. (m * 10 + a) % 97 # (m * 10 + b) % 97
      BY <1>0, <1>3
    <3> QED BY <1>1, <2>1, <3>1
  <2>2. CASE Shift(a) = 100
    <3>1. (m * 100 + a) % 97 # (m * 100 + b) % 97
      BY <1>0, <1>3
    <3> QED BY <1>1, <2>2, <3>1
  <2> QED BY <1>0, <2>1, <2>2
<1>4. ASSUME a # b PROVE Mod97(Mod97(m, a), b) # Mod97(Mod97(m, b), a)
  <2>1. CASE Shift(a) = 10 /\ a \in 0 .. 9 /\ b \in 0 .. 9
    <3>1. (((m * 10 + a) % 97) * 10 + b) % 97 # (((m * 10 + b) % 97) * 10 + a) % 97
      BY <1>4, <2>1, SMTT(60)
    <3>2. /\ Mod97(m, a) = (m * 10 + a) % 97 /\ Mod97(m, b) = (m * 10 + b) % 97
          /\ Mod97(m, a) \in 0 .. 96 /\ Mod97(m, b) \in 0 .. 96
      BY <1>1, <2>1
    <3>3. /\ Mod97(Mod97(m, a), b) = (Mod97(m, a) * 10 + b) % 97
          /\ Mod97(Mod97(m, b), a) = (Mod97(m, b) * 10 + a) % 97
      BY <1>1, <2>1, <3>2
    <3> QED BY <3>1, <3>2, <3>3
  <2>2. CASE Shift(a) = 100
    <3>1. (((m * 100 + a) % 97) * 100 + b) % 97 # (((m * 100 + b) % 97) * 100 + a) % 97
      BY <1>0, <1>4, SMTT(60)
    <3>2. /\ Mod97(m, a) = (m * 100 + a) % 97 /\ Mod97(m, b) = (m * 100 + b) % 97
          /\ Mod97(m, a) \in 0 .. 96 /\ Mod97(m, b) \in 0 .. 96
      BY <1>1, <2>2
    <3>3. /\ Mod97(Mod97(m, a), b) = (Mod97(m, a) * 100 + b) % 97
          /\ Mod97(Mod97(m, b), a) = (Mod97(m, b) * 100 + a) % 97
      BY <1>1, <2>2, <3>2
    <3> QED BY <3>1, <3>2, <3>3
  <2> QED BY <1>0, <2>1, <2>2 DEF Alnum, Digits, Letters, SameSort, Shift
<1> QED BY <1>2, <1>3, <1>4

(* The remainders of a text, one character at a time.                         *)
LEMMA RemaindersUnfold ==
  ASSUME NEW s \in Seq(Alnum)
  PROVE  /\ Remainders(s)[0] = 0
         /\ \A n \in 1 .. Len(s) : Remainders(s)[n] = Mod97(Remainders(s)[n - 1], s[n])
         /\ \A n \in 0 .. Len(s) : Remainders(s)[n] \in 0 .. 96
<1> DEFINE N == Len(s)
           V == 0 .. 96
           h == [p \in (1 .. N) \X V |-> Mod97(p[2], s[p[1]])]
           Eqn(f) == f = [k \in 0 .. Len(s) |-> IF k = 0 THEN 0 ELSE Mod97(f[k - 1], s[k])]
           it == CHOOSE f : Eqn(f)
<1>1. N \in Nat /\ \A n \in 1 .. N : s[n] \in Alnum
  OBVIOUS
<1>2. \A n \in 1 .. N : \A x \in V : h[<<n, x>>] = Mod97(x, s[n])
  OBVIOUS
<1>3. \A n \in 1 .. N : \A x \in V : Mod97(x, s[n]) \in V
  BY <1>1, ModIs
<1>4. \E f \in [0 .. N -> V] : f[0] = 0 /\ \A n \in 1 .. N : f[n] = h[<<n, f[n - 1]>>]
  <2>1. Steps(h, N, V)
    <3> HIDE DEF h
    <3> QED BY <1>2, <1>3 DEF Steps
  <2>2. 0 \in V
    OBVIOUS
  <2> HIDE DEF h, N, V
  <2> QED BY <1>1, <2>1, <2>2, RecursionExists
<1>5. PICK f \in [0 .. N -> V] : f[0] = 0 /\ \A n \in 1 .. N : f[n] = h[<<n, f[n - 1]>>]
  BY <1>4
<1> HIDE DEF h
<1>6. Eqn(f)
  <2>1. \A n \in 1 .. N : n - 1 \in 0 .. N /\ f[n - 1] \in V /\ f[n] = Mod97(f[n - 1], s[n])
    <3>1. \A n \in 1 .. N : n - 1 \in 0 .. N
      BY <1>1
    <3> HIDE DEF N, V
    <3>2. \A n \in 1 .. N : f[n - 1] \in V
      BY <1>5, <3>1
    <3> QED BY <1>2, <1>5, <3>1, <3>2
  <2>2. \A n \in 0 .. N : n = 0 \/ n \in 1 .. N
    BY <1>1
  <2>3. \A n \in 0 .. N : f[n] = IF n = 0 THEN 0 ELSE Mod97(f[n - 1], s[n])
    BY <1>5, <2>1, <2>2
  <2> QED BY <2>3
<1>7. Eqn(it)
  <2> HIDE DEF Eqn
  <2> QED BY <1>6
<1>8. Remainders(s) = it
  BY DEF Remainders
<1> HIDE DEF it
<1>9. it[0] = 0 /\ \A n \in 1 .. N : it[n] = Mod97(it[n - 1], s[n])
  <2>1. 0 \in 0 .. N /\ \A n \in 1 .. N : n \in 0 .. N /\ n # 0
    BY <1>1
  <2> QED BY <1>7, <2>1
<1> HIDE DEF Eqn
<1> DEFINE T == {m \in 0 .. N : it[m] \notin V}
<1>10. T = {}
  <2> SUFFICES ASSUME T # {} PROVE FALSE
    OBVIOUS
  <2>1. T \subseteq Nat
    BY <1>1
  <2>2. PICK m \in T : \A j \in T : m <= j
    <3> HIDE DEF T
    <3> QED BY <2>1, LeastNat
  <2>3. m \in 1 .. N /\ m - 1 \in 0 .. N
    <3>1. m \in 0 .. N /\ it[m] \notin V /\ 0 \in V
      OBVIOUS
    <3> HIDE DEF T, V
    <3>2. m # 0
      BY <1>9, <3>1
    <3> QED BY <1>1, <3>1, <3>2
  <2>4. m - 1 \notin T
    <3> HIDE DEF T
    <3> QED BY <2>2, <2>3
  <2>5. it[m - 1] \in V
    BY <2>3, <2>4
  <2>6. it[m] \in V
    <3> HIDE DEF V
    <3> QED BY <1>3, <1>9, <2>3, <2>5
  <2> QED BY <2>6
<1> QED BY <1>8, <1>9, <1>10

\* u and v are as long as each other and differ at most at the places in K.
Apart(u, v, K) == /\ u \in Seq(Alnum) /\ v \in Seq(Alnum) /\ Len(u) = Len(v)
                  /\ \A j \in DOMAIN u \ K : u[j] = v[j]

(* Where the characters agree, equal remainders stay equal and others differ. *)
LEMMA RemaindersFollow ==
  ASSUME NEW u, NEW v, NEW K, Apart(u, v, K), NEW p \in 0 .. Len(u), NEW q \in p .. Len(u),
         K \intersect (p + 1 .. q) = {}
  PROVE  (Remainders(u)[p] = Remainders(v)[p]) <=> (Remainders(u)[q] = Remainders(v)[q])
<1> DEFINE F == Remainders(u)
           G == Remainders(v)
           N == Len(u)
           T == {m \in p .. q : ~((F[p] = G[p]) <=> (F[m] = G[m]))}
<1>1. /\ N \in Nat /\ N = Len(v) /\ \A j \in 1 .. N : u[j] \in Alnum /\ v[j] \in Alnum
      /\ \A j \in 1 .. N : j \notin K => u[j] = v[j]
      /\ p \in Nat /\ q \in Nat /\ q <= N
  BY DEF Apart
<1>2. /\ \A n \in 1 .. N : F[n] = Mod97(F[n - 1], u[n]) /\ G[n] = Mod97(G[n - 1], v[n])
      /\ \A n \in 0 .. N : F[n] \in 0 .. 96 /\ G[n] \in 0 .. 96
  BY <1>1, RemaindersUnfold DEF Apart
<1> SUFFICES ASSUME T # {} PROVE FALSE
  OBVIOUS
<1>3. T \subseteq Nat
  BY <1>1
<1>4. PICK m \in T : \A j \in T : m <= j
  <2> HIDE DEF T
  <2> QED BY <1>3, LeastNat
<1>5. m \in p .. q /\ m # p
  OBVIOUS
<1>6. /\ m \in 1 .. N /\ m - 1 \in 0 .. N /\ m - 1 \in p .. q /\ m \in p + 1 .. q /\ m \in Nat
      /\ m - 1 < m
  BY <1>1, <1>5
<1>7. m - 1 \notin T
  <2> HIDE DEF T
  <2> QED BY <1>3, <1>4, <1>6
<1>8. (F[p] = G[p]) <=> (F[m - 1] = G[m - 1])
  <2> HIDE DEF F, G
  <2> QED BY <1>6, <1>7
<1>9. u[m] = v[m] /\ u[m] \in Alnum
  BY <1>1, <1>6
<1> HIDE DEF F, G
<1>10. /\ F[m] = Mod97(F[m - 1], u[m]) /\ G[m] = Mod97(G[m - 1], u[m])
       /\ F[m - 1] \in 0 .. 96 /\ G[m - 1] \in 0 .. 96
  BY <1>2, <1>6, <1>9
<1>11. F[m - 1] # G[m - 1] => F[m] # G[m]
  BY <1>9, <1>10, ModTells DEF SameSort
<1>12. (F[p] = G[p]) <=> (F[m] = G[m])
  BY <1>8, <1>10, <1>11
<1> QED BY <1>12

(* One other character of the same sort is told.                              *)
LEMMA OneTold ==
  ASSUME NEW u, NEW v, NEW p \in DOMAIN u, Apart(u, v, {p}), SameSort(u[p], v[p]), u[p] # v[p]
  PROVE  Remainders(u)[Len(u)] # Remainders(v)[Len(v)]
<1>1. /\ Len(u) \in Nat /\ Len(u) = Len(v) /\ p \in 1 .. Len(u) /\ p \in 1 .. Len(v)
      /\ u \in Seq(Alnum) /\ v \in Seq(Alnum) /\ u[p] \in Alnum /\ v[p] \in Alnum
  BY DEF Apart
<1>2. /\ p - 1 \in 0 .. Len(u) /\ p \in 0 .. Len(u) /\ 0 \in 0 .. Len(u)
      /\ p - 1 \in 0 .. Len(u) /\ Len(u) \in p .. Len(u)
      /\ {p} \intersect (0 + 1 .. p - 1) = {} /\ {p} \intersect (p + 1 .. Len(u)) = {}
  BY <1>1
<1>3. Remainders(u)[p - 1] = Remainders(v)[p - 1]
  <2>1. Remainders(u)[0] = Remainders(v)[0]
    BY <1>1, RemaindersUnfold
  <2> QED BY <1>2, <2>1, RemaindersFollow
<1>4. /\ Remainders(u)[p] = Mod97(Remainders(u)[p - 1], u[p])
      /\ Remainders(v)[p] = Mod97(Remainders(u)[p - 1], v[p])
      /\ Remainders(u)[p - 1] \in 0 .. 96
  BY <1>1, <1>2, <1>3, RemaindersUnfold
<1>5. Remainders(u)[p] # Remainders(v)[p]
  BY <1>1, <1>4, ModTells
<1> QED BY <1>1, <1>2, <1>5, RemaindersFollow

(* Two neighbours of a sort in the other order are told.                      *)
LEMMA TwoTold ==
  ASSUME NEW u, NEW v, NEW p \in 1 .. Len(u) - 1, Apart(u, v, {p, p + 1}), SameSort(u[p], u[p + 1]),
         u[p] # u[p + 1], v[p] = u[p + 1], v[p + 1] = u[p]
  PROVE  Remainders(u)[Len(u)] # Remainders(v)[Len(v)]
<1>1. /\ Len(u) \in Nat /\ Len(u) = Len(v) /\ u \in Seq(Alnum) /\ v \in Seq(Alnum)
  BY DEF Apart
<1>2. /\ p \in 1 .. Len(u) /\ p + 1 \in 1 .. Len(u) /\ p \in 1 .. Len(v) /\ p + 1 \in 1 .. Len(v)
      /\ u[p] \in Alnum /\ u[p + 1] \in Alnum
  BY <1>1
<1>3. /\ p - 1 \in 0 .. Len(u) /\ p + 1 \in 0 .. Len(u) /\ 0 \in 0 .. Len(u) /\ (p + 1) - 1 = p
      /\ Len(u) \in p + 1 .. Len(u)
      /\ {p, p + 1} \intersect (0 + 1 .. p - 1) = {}
      /\ {p, p + 1} \intersect ((p + 1) + 1 .. Len(u)) = {}
  BY <1>1
<1>4. Remainders(u)[p - 1] = Remainders(v)[p - 1]
  <2>1. Remainders(u)[0] = Remainders(v)[0]
    BY <1>1, RemaindersUnfold
  <2> QED BY <1>3, <2>1, RemaindersFollow
<1> DEFINE m == Remainders(u)[p - 1]
<1>5. /\ Remainders(u)[p + 1] = Mod97(Mod97(m, u[p]), u[p + 1])
      /\ Remainders(v)[p + 1] = Mod97(Mod97(m, u[p + 1]), u[p])
      /\ m \in 0 .. 96
  <2>1. /\ Remainders(u)[p] = Mod97(m, u[p])
        /\ Remainders(u)[p + 1] = Mod97(Remainders(u)[p], u[p + 1])
        /\ m \in 0 .. 96
    BY <1>1, <1>2, <1>3, RemaindersUnfold
  <2>2. /\ Remainders(v)[p] = Mod97(m, u[p + 1])
        /\ Remainders(v)[p + 1] = Mod97(Remainders(v)[p], u[p])
    BY <1>1, <1>2, <1>3, <1>4, RemaindersUnfold
  <2> QED BY <2>1, <2>2
<1> HIDE DEF m
<1>6. Remainders(u)[p + 1] # Remainders(v)[p + 1]
  BY <1>2, <1>5, ModTells
<1> QED BY <1>1, <1>3, <1>6, RemaindersFollow

\* x and y are d times z apart.
Scaled(d, x, y, z) == (y - x - d * z) % 97 = 0

(* The product of a number and a remainder.                                   *)
LEMMA Distributes ==
  ASSUME NEW d \in Int, NEW z \in Int, NEW q \in Int, NEW w \in {10, 100}
  PROVE  d * (z * w - 97 * q) = w * (d * z) - 97 * (d * q)
<1>1. CASE w = 10
  BY <1>1, SMT
<1>2. CASE w = 100
  BY <1>2, SMT
<1> QED BY <1>1, <1>2

(* A character that both texts have keeps the ratio of their remainders.      *)
LEMMA ScaledOn ==
  ASSUME NEW d \in -9 .. 9, NEW x \in 0 .. 96, NEW y \in 0 .. 96, NEW z \in 0 .. 96,
         NEW c \in Alnum, Scaled(d, x, y, z)
  PROVE  Scaled(d, Mod97(x, c), Mod97(y, c), (z * Shift(c)) % 97)
<1> DEFINE w == Shift(c)
           q == (z * w) \div 97
<1>1. w \in {10, 100} /\ c \in 0 .. 35
  BY DEF Shift, Alnum, Digits, Letters
<1>2. /\ Mod97(x, c) = (x * w + c) % 97 /\ Mod97(y, c) = (y * w + c) % 97
      /\ Mod97(x, c) \in 0 .. 96 /\ Mod97(y, c) \in 0 .. 96
  BY ModIs
<1>3. q \in Int /\ (z * w) % 97 = z * w - 97 * q
  <2> HIDE DEF w
  <2>1. CASE w = 10
    BY <2>1, SMT
  <2>2. CASE w = 100
    BY <2>2, SMT
  <2> QED BY <1>1, <2>1, <2>2
<1> HIDE DEF w, q
<1> DEFINE p == d * z
           r == d * q
           t == w * p - 97 * r
           e == (z * w) % 97
<1>4. d * e = t
  BY <1>1, <1>3, Distributes
<1>5. p \in Int /\ r \in Int
  BY <1>3
<1>6. (y - x - p) % 97 = 0
  BY DEF Scaled
<1> HIDE DEF p, r, e
<1> DEFINE f == Mod97(x, c)
           g == Mod97(y, c)
<1>7. (g - f - t) % 97 = 0
  <2>1. f = (x * w + c) % 97 /\ g = (y * w + c) % 97 /\ f \in 0 .. 96 /\ g \in 0 .. 96
    BY <1>2
  <2> HIDE DEF f, g
  <2>2. CASE w = 10
    <3>1. (((y * 10 + c) % 97) - ((x * 10 + c) % 97) - (10 * p - 97 * r)) % 97 = 0
      BY <1>1, <1>5, <1>6, SMTT(60)
    <3>2. t = 10 * p - 97 * r /\ t \in Int
      BY <1>5, <2>2
    <3>3. f = (x * 10 + c) % 97 /\ g = (y * 10 + c) % 97
      BY <2>1, <2>2
    <3> HIDE DEF t
    <3> QED BY <2>1, <3>1, <3>2, <3>3
  <2>3. CASE w = 100
    <3>1. (((y * 100 + c) % 97) - ((x * 100 + c) % 97) - (100 * p - 97 * r)) % 97 = 0
      BY <1>1, <1>5, <1>6, SMTT(60)
    <3>2. t = 100 * p - 97 * r /\ t \in Int
      BY <1>5, <2>3
    <3>3. f = (x * 100 + c) % 97 /\ g = (y * 100 + c) % 97
      BY <2>1, <2>3
    <3> HIDE DEF t
    <3> QED BY <2>1, <3>1, <3>2, <3>3
  <2> QED BY <1>1, <2>2, <2>3
<1> HIDE DEF t
<1>8. Scaled(d, Mod97(x, c), Mod97(y, c), e)
  BY <1>4, <1>7 DEF Scaled
<1> QED BY <1>8 DEF e, w

(* Up to nine times a remainder other than 1 differs from as many times 1.    *)
LEMMA ScaledApart ==
  ASSUME NEW d \in -9 .. 9, d # 0, NEW z \in 0 .. 96, z # 1
  PROVE  (d * z - d) % 97 # 0
<1>1. ASSUME NEW k \in 1 .. 9 PROVE (k * z - k) % 97 # 0
  <2>1. CASE k = 1 BY <2>1, SMT
  <2>2. CASE k = 2 BY <2>2, SMT
  <2>3. CASE k = 3 BY <2>3, SMT
  <2>4. CASE k = 4 BY <2>4, SMT
  <2>5. CASE k = 5 BY <2>5, SMT
  <2>6. CASE k = 6 BY <2>6, SMT
  <2>7. CASE k = 7 BY <2>7, SMT
  <2>8. CASE k = 8 BY <2>8, SMT
  <2>9. CASE k = 9 BY <2>9, SMT
  <2> QED BY <2>1, <2>2, <2>3, <2>4, <2>5, <2>6, <2>7, <2>8, <2>9
<1>2. CASE d > 0
  BY <1>1, <1>2
<1>3. CASE d < 0
  <2>1. -d \in 1 .. 9 /\ d = -(-d)
    BY <1>3
  <2>2. ((-d) * z - (-d)) % 97 # 0
    BY <1>1, <2>1
  <2>3. (-d) * z - (-d) = -(d * z - d) /\ d * z - d \in Int
    BY SMT
  <2> HIDE DEF Scaled
  <2> QED BY <2>2, <2>3
<1> QED BY <1>2, <1>3

(* No power of ten up to the 66th leaves the remainder 1.                     *)
LEMMA PowersOfTen ==
  \E T \in [0 .. 66 -> 0 .. 96] :
    T[0] = 1 /\ \A n \in 1 .. 66 : T[n] = (T[n - 1] * 10) % 97 /\ T[n] # 1
<1> DEFINE V == 0 .. 96
           h == [p \in (1 .. 66) \X V |-> (p[2] * 10) % 97]
<1>1. \A n \in 1 .. 66 : \A x \in V : h[<<n, x>>] = (x * 10) % 97
  OBVIOUS
<1>2. \A x \in V : (x * 10) % 97 \in V
  OBVIOUS
<1>3. \E T \in [0 .. 66 -> V] : T[0] = 1 /\ \A n \in 1 .. 66 : T[n] = h[<<n, T[n - 1]>>]
  <2> DEFINE N == 66
  <2>1. Steps(h, N, V)
    <3> HIDE DEF h
    <3> QED BY <1>1, <1>2 DEF Steps
  <2>2. 1 \in V
    OBVIOUS
  <2>3. N \in Nat
    OBVIOUS
  <2> HIDE DEF h, V, N
  <2>4. \E T \in [0 .. N -> V] : T[0] = 1 /\ \A n \in 1 .. N : T[n] = h[<<n, T[n - 1]>>]
    BY <2>1, <2>2, <2>3, RecursionExists
  <2> QED BY <2>4 DEF N
<1>4. PICK T \in [0 .. 66 -> V] : T[0] = 1 /\ \A n \in 1 .. 66 : T[n] = h[<<n, T[n - 1]>>]
  BY <1>3
<1> HIDE DEF h
<1>5. \A n \in 1 .. 66 : T[n] = (T[n - 1] * 10) % 97
  <2>1. \A n \in 1 .. 66 : n - 1 \in 0 .. 66
    OBVIOUS
  <2> HIDE DEF V
  <2>2. \A n \in 1 .. 66 : T[n - 1] \in V
    BY <1>4, <2>1, SMTT(30)
  <2> QED BY <1>1, <1>4, <2>2, SMTT(30)
<1> DEFINE Ten(c) == (c * 10) % 97
<1>5a. \A n \in 1 .. 66 : T[n] = Ten(T[n - 1])
  BY <1>5, SMTT(30)
<1>6. /\ T[1] = 10 /\ T[2] = 3 /\ T[3] = 30 /\ T[4] = 9 /\ T[5] = 90 /\ T[6] = 27
      /\ T[7] = 76 /\ T[8] = 81 /\ T[9] = 34 /\ T[10] = 49 /\ T[11] = 5
  <2>1. T[0] = 1
    BY <1>4
  <2>2. /\ Ten(1) = 10 /\ Ten(10) = 3 /\ Ten(3) = 30 /\ Ten(30) = 9 /\ Ten(9) = 90
        /\ Ten(90) = 27 /\ Ten(27) = 76 /\ Ten(76) = 81 /\ Ten(81) = 34 /\ Ten(34) = 49
        /\ Ten(49) = 5
    BY SMTT(30)
  <2> HIDE DEF Ten
  <2> QED BY <1>5a, <2>1, <2>2, SMTT(30)
<1>7. /\ T[12] = 50 /\ T[13] = 15 /\ T[14] = 53 /\ T[15] = 45 /\ T[16] = 62
      /\ T[17] = 38 /\ T[18] = 89 /\ T[19] = 17 /\ T[20] = 73 /\ T[21] = 51
      /\ T[22] = 25
  <2>1. T[11] = 5
    BY <1>6
  <2>2. /\ Ten(5) = 50 /\ Ten(50) = 15 /\ Ten(15) = 53 /\ Ten(53) = 45 /\ Ten(45) = 62
        /\ Ten(62) = 38 /\ Ten(38) = 89 /\ Ten(89) = 17 /\ Ten(17) = 73 /\ Ten(73) = 51
        /\ Ten(51) = 25
    BY SMTT(30)
  <2> HIDE DEF Ten
  <2> QED BY <1>5a, <2>1, <2>2, SMTT(30)
<1>8. /\ T[23] = 56 /\ T[24] = 75 /\ T[25] = 71 /\ T[26] = 31 /\ T[27] = 19
      /\ T[28] = 93 /\ T[29] = 57 /\ T[30] = 85 /\ T[31] = 74 /\ T[32] = 61
      /\ T[33] = 28
  <2>1. T[22] = 25
    BY <1>7
  <2>2. /\ Ten(25) = 56 /\ Ten(56) = 75 /\ Ten(75) = 71 /\ Ten(71) = 31 /\ Ten(31) = 19
        /\ Ten(19) = 93 /\ Ten(93) = 57 /\ Ten(57) = 85 /\ Ten(85) = 74 /\ Ten(74) = 61
        /\ Ten(61) = 28
    BY SMTT(30)
  <2> HIDE DEF Ten
  <2> QED BY <1>5a, <2>1, <2>2, SMTT(30)
<1>9. /\ T[34] = 86 /\ T[35] = 84 /\ T[36] = 64 /\ T[37] = 58 /\ T[38] = 95
      /\ T[39] = 77 /\ T[40] = 91 /\ T[41] = 37 /\ T[42] = 79 /\ T[43] = 14
      /\ T[44] = 43
  <2>1. T[33] = 28
    BY <1>8
  <2>2. /\ Ten(28) = 86 /\ Ten(86) = 84 /\ Ten(84) = 64 /\ Ten(64) = 58 /\ Ten(58) = 95
        /\ Ten(95) = 77 /\ Ten(77) = 91 /\ Ten(91) = 37 /\ Ten(37) = 79 /\ Ten(79) = 14
        /\ Ten(14) = 43
    BY SMTT(30)
  <2> HIDE DEF Ten
  <2> QED BY <1>5a, <2>1, <2>2, SMTT(30)
<1>10. /\ T[45] = 42 /\ T[46] = 32 /\ T[47] = 29 /\ T[48] = 96 /\ T[49] = 87
       /\ T[50] = 94 /\ T[51] = 67 /\ T[52] = 88 /\ T[53] = 7 /\ T[54] = 70
       /\ T[55] = 21
  <2>1. T[44] = 43
    BY <1>9
  <2>2. /\ Ten(43) = 42 /\ Ten(42) = 32 /\ Ten(32) = 29 /\ Ten(29) = 96 /\ Ten(96) = 87
        /\ Ten(87) = 94 /\ Ten(94) = 67 /\ Ten(67) = 88 /\ Ten(88) = 7 /\ Ten(7) = 70
        /\ Ten(70) = 21
    BY SMTT(30)
  <2> HIDE DEF Ten
  <2> QED BY <1>5a, <2>1, <2>2, SMTT(30)
<1>11. /\ T[56] = 16 /\ T[57] = 63 /\ T[58] = 48 /\ T[59] = 92 /\ T[60] = 47
       /\ T[61] = 82 /\ T[62] = 44 /\ T[63] = 52 /\ T[64] = 35 /\ T[65] = 59
       /\ T[66] = 8
  <2>1. T[55] = 21
    BY <1>10
  <2>2. /\ Ten(21) = 16 /\ Ten(16) = 63 /\ Ten(63) = 48 /\ Ten(48) = 92 /\ Ten(92) = 47
        /\ Ten(47) = 82 /\ Ten(82) = 44 /\ Ten(44) = 52 /\ Ten(52) = 35 /\ Ten(35) = 59
        /\ Ten(59) = 8
    BY SMTT(30)
  <2> HIDE DEF Ten
  <2> QED BY <1>5a, <2>1, <2>2, SMTT(30)
<1>12. \A n \in 1 .. 66 : T[n] # 1
  <2>1. \A n \in 1 .. 11 : T[n] # 1
    BY <1>6
  <2>2. \A n \in 12 .. 22 : T[n] # 1
    BY <1>7
  <2>3. \A n \in 23 .. 33 : T[n] # 1
    BY <1>8
  <2>4. \A n \in 34 .. 44 : T[n] # 1
    BY <1>9
  <2>5. \A n \in 45 .. 55 : T[n] # 1
    BY <1>10
  <2>6. \A n \in 56 .. 66 : T[n] # 1
    BY <1>11
  <2> QED BY <2>1, <2>2, <2>3, <2>4, <2>5, <2>6
<1> QED BY <1>4, <1>5, <1>12, ZenonT(30)

\* T holds the remainders of the powers of ten.
Powers(T) ==
  /\ T[0] = 1
  /\ \A e \in 0 .. 64 : /\ T[e] \in 0 .. 96 /\ T[e + 1] \in 0 .. 96 /\ T[e + 1] # 1
                        /\ (T[e] * 10) % 97 = T[e + 1] /\ (T[e] * 100) % 97 = T[e + 2]

(* The same, as the last character but one needs it.                          *)
LEMMA PowersExist == \E T : Powers(T)
<1>1. PICK T : /\ T \in [0 .. 66 -> 0 .. 96] /\ T[0] = 1
               /\ \A n \in 1 .. 66 : T[n] = (T[n - 1] * 10) % 97 /\ T[n] # 1
  BY PowersOfTen
<1>2. \A n \in 0 .. 66 : T[n] \in 0 .. 96
  BY <1>1
<1>3. \A n \in 0 .. 65 : T[n + 1] = (T[n] * 10) % 97 /\ T[n + 1] # 1
  <2> TAKE n \in 0 .. 65
  <2>1. n + 1 \in 1 .. 66 /\ (n + 1) - 1 = n
    OBVIOUS
  <2> QED BY <1>1, <2>1
<1>4. ASSUME NEW e \in 0 .. 64
      PROVE  /\ T[e] \in 0 .. 96 /\ T[e + 1] \in 0 .. 96 /\ T[e + 1] # 1
             /\ (T[e] * 10) % 97 = T[e + 1] /\ (T[e] * 100) % 97 = T[e + 2]
  <2>1. /\ e \in 0 .. 66 /\ e \in 0 .. 65 /\ e + 1 \in 0 .. 66 /\ e + 1 \in 0 .. 65
        /\ (e + 1) + 1 = e + 2
    OBVIOUS
  <2>2. T[e] \in 0 .. 96 /\ T[e + 1] \in 0 .. 96
    BY <1>2, <2>1
  <2>3. T[e + 1] = (T[e] * 10) % 97 /\ T[e + 1] # 1 /\ T[(e + 1) + 1] = (T[e + 1] * 10) % 97
    BY <1>3, <2>1
  <2>4. \A x \in 0 .. 96 : (((x * 10) % 97) * 10) % 97 = (x * 100) % 97
    OBVIOUS
  <2>5. T[e + 2] = (T[e + 1] * 10) % 97
    BY <2>1, <2>3
  <2> QED BY <2>2, <2>3, <2>4, <2>5
<1> QED BY <1>1, <1>4 DEF Powers

(* The characters between the ends of the longest account make 64 digits.     *)
LEMMA ExponentsFit ==
  ASSUME NEW N \in 5 .. 34, NEW i \in 2 .. N, NEW e \in 0 .. 2 * ((i - 1) - 1)
  PROVE  e \in 0 .. 64 /\ e + 1 \in 0 .. 2 * (i - 1) /\ e + 2 \in 0 .. 2 * (i - 1)
<1>1. i \in Int /\ N \in Int /\ i >= 2 /\ i <= 34
  OBVIOUS
<1>2. e \in Int /\ 0 <= e /\ e <= 2 * ((i - 1) - 1)
  BY <1>1
<1> QED BY <1>1, <1>2

(* Remainders of what is less than one division away.                         *)
LEMMA SmallRemainders ==
  /\ \A n \in 0 .. 96 : n % 97 = n
  /\ \A n \in -9 .. -1 : n % 97 = n + 97
  /\ \A n \in 97 .. 105 : n % 97 = n - 97
<1>1. ASSUME NEW n \in 0 .. 96 PROVE n % 97 = n
  OBVIOUS
<1>2. ASSUME NEW n \in -9 .. -1 PROVE n % 97 = n + 97
  OBVIOUS
<1>3. ASSUME NEW n \in 97 .. 105 PROVE n % 97 = n - 97
  OBVIOUS
<1> QED BY <1>1, <1>2, <1>3

(* Two remainders that are d apart, and p apart: p and d are congruent.       *)
LEMMA Congruent ==
  ASSUME NEW p \in Int, NEW d \in -9 .. 9, NEW f \in 0 .. 96, NEW g \in 0 .. 96,
         g = (f + d) % 97, (g - f - p) % 97 = 0
  PROVE  (p - d) % 97 = 0
<1>1. CASE f + d \in 0 .. 96
  <2>1. g = f + d
    BY <1>1, SmallRemainders
  <2> QED BY <2>1
<1>2. CASE f + d < 0
  <2>1. g = f + d + 97
    <3>1. f + d \in -9 .. -1
      BY <1>2
    <3> QED BY <3>1, SmallRemainders
  <2> QED BY <2>1
<1>3. CASE f + d > 96
  <2>1. g = f + d - 97
    <3>1. f + d \in 97 .. 105
      BY <1>3
    <3> QED BY <3>1, SmallRemainders
  <2> QED BY <2>1
<1> QED BY <1>1, <1>2, <1>3

(* Two digits of a number exchange the first and the last place: the first    *)
(* makes the remainders differ by a power of ten, which is not 1.             *)
LEMMA EndsTold ==
  ASSUME NEW u, NEW v, Len(u) \in 5 .. 34, Apart(u, v, {1, Len(u)}),
         NEW a \in Digits, NEW b \in Digits, a # b,
         u[1] = a, u[Len(u)] = b, v[1] = b, v[Len(u)] = a
  PROVE  Remainders(u)[Len(u)] # Remainders(v)[Len(v)]
<1> DEFINE F == Remainders(u)
           G == Remainders(v)
           N == Len(u)
           d == b - a
<1>1. /\ N \in 5 .. 34 /\ N = Len(v) /\ u \in Seq(Alnum) /\ v \in Seq(Alnum)
      /\ a \in 0 .. 9 /\ b \in 0 .. 9 /\ d \in -9 .. 9 /\ d # 0 /\ a \in Alnum /\ b \in Alnum
      /\ \A j \in 2 .. N - 1 : u[j] \in Alnum /\ v[j] = u[j]
      /\ u[N] = b /\ v[N] = a
  <2>1. /\ N = Len(v) /\ u \in Seq(Alnum) /\ v \in Seq(Alnum)
        /\ \A j \in DOMAIN u \ {1, N} : u[j] = v[j]
    BY DEF Apart
  <2>2. DOMAIN u = 1 .. N /\ \A j \in 1 .. N : u[j] \in Alnum
    BY <2>1
  <2>3. \A j \in 2 .. N - 1 : j \in (1 .. N) \ {1, N}
    OBVIOUS
  <2>4. /\ a \in 0 .. 9 /\ b \in 0 .. 9 /\ d \in -9 .. 9 /\ d # 0 /\ a \in Alnum /\ b \in Alnum
    BY DEF Alnum, Digits
  <2> HIDE DEF d
  <2> QED BY <2>1, <2>2, <2>3, <2>4
<1>2. /\ F[0] = 0 /\ \A n \in 1 .. N : F[n] = Mod97(F[n - 1], u[n])
      /\ \A n \in 0 .. N : F[n] \in 0 .. 96
  BY <1>1, RemaindersUnfold
<1>3. /\ G[0] = 0 /\ \A n \in 1 .. N : G[n] = Mod97(G[n - 1], v[n])
      /\ \A n \in 0 .. N : G[n] \in 0 .. 96
  BY <1>1, RemaindersUnfold
<1> HIDE DEF N
<1>4. PICK T : Powers(T)
  BY PowersExist
<1>5. \A e \in 0 .. 64 : /\ T[e] \in 0 .. 96 /\ T[e + 1] \in 0 .. 96 /\ T[e + 1] # 1
                         /\ (T[e] * 10) % 97 = T[e + 1] /\ (T[e] * 100) % 97 = T[e + 2]
  BY <1>4 DEF Powers
<1> HIDE DEF F, G, d
<1> DEFINE Reached(i) == \E e \in 0 .. 2 * (i - 1) : Scaled(d, F[i], G[i], T[e])
           X == {i \in 1 .. N - 1 : ~Reached(i)}
<1>6. Reached(1)
  <2>1. F[1] = Mod97(0, a) /\ G[1] = Mod97(0, b)
    <3>1. 1 \in 1 .. N /\ 1 - 1 = 0
      BY <1>1
    <3> QED BY <1>2, <1>3, <3>1
  <2>2. F[1] = a /\ G[1] = b
    <3>1. \A c \in Digits : Mod97(0, c) = c
      <4>1. \A c \in 0 .. 9 : (0 * 10 + c) % 97 = c
        OBVIOUS
      <4> QED BY <4>1 DEF Mod97, Digits
    <3> QED BY <2>1, <3>1
  <2>3. Scaled(d, F[1], G[1], 1)
    BY <1>1, <2>2 DEF Scaled, d
  <2>4. Scaled(d, F[1], G[1], T[0]) /\ 0 \in 0 .. 2 * (1 - 1)
    BY <1>4, <2>3 DEF Powers
  <2> QED BY <2>4
<1>7. X = {}
  <2> SUFFICES ASSUME X # {} PROVE FALSE
    OBVIOUS
  <2>1. X \subseteq Nat
    BY <1>1
  <2>2. PICK i \in X : \A j \in X : i <= j
    <3> HIDE DEF X
    <3> QED BY <2>1, LeastNat
  <2>3. /\ i \in 2 .. N - 1 /\ i - 1 \in 1 .. N - 1 /\ i \in 1 .. N /\ i - 1 \in 0 .. N /\ i \in Nat
        /\ ~Reached(i) /\ ~(i <= i - 1)
    <3>1. i \in 1 .. N - 1 /\ ~Reached(i)
      OBVIOUS
    <3> HIDE DEF Reached
    <3>2. i # 1
      BY <1>6, <3>1
    <3>3. N \in 5 .. 34
      BY <1>1
    <3>4. /\ i \in 2 .. N - 1 /\ i - 1 \in 1 .. N - 1 /\ i \in 1 .. N /\ i - 1 \in 0 .. N
          /\ i \in Nat /\ ~(i <= i - 1)
      <4>1. i \in 1 .. N - 1
        BY <3>1
      <4> QED BY <3>2, <3>3, <4>1
    <3> QED BY <3>1, <3>4
  <2>4. i - 1 \notin X
    <3> HIDE DEF X
    <3> QED BY <2>2, <2>3
  <2>5. PICK e \in 0 .. 2 * ((i - 1) - 1) : Scaled(d, F[i - 1], G[i - 1], T[e])
    BY <2>3, <2>4
  <2> HIDE DEF X
  <2>6. /\ F[i] = Mod97(F[i - 1], u[i]) /\ G[i] = Mod97(G[i - 1], u[i]) /\ u[i] \in Alnum
        /\ F[i - 1] \in 0 .. 96 /\ G[i - 1] \in 0 .. 96
    BY <1>1, <1>2, <1>3, <2>3
  <2>7. e \in 0 .. 64 /\ e + 1 \in 0 .. 2 * (i - 1) /\ e + 2 \in 0 .. 2 * (i - 1)
    <3>1. i \in 2 .. N
      BY <1>1, <2>3
    <3> QED BY <1>1, <3>1, ExponentsFit
  <2>8. Scaled(d, F[i], G[i], (T[e] * Shift(u[i])) % 97)
    <3>1. T[e] \in 0 .. 96 /\ d \in -9 .. 9
      BY <1>1, <1>5, <2>7
    <3>2. F[i - 1] \in 0 .. 96 /\ G[i - 1] \in 0 .. 96 /\ u[i] \in Alnum
      BY <2>6
    <3>3. Scaled(d, Mod97(F[i - 1], u[i]), Mod97(G[i - 1], u[i]), (T[e] * Shift(u[i])) % 97)
      <4> DEFINE f == F[i - 1]
                 g == G[i - 1]
                 s == T[e]
                 c == u[i]
      <4>1. /\ Scaled(d, f, g, s) /\ c \in Alnum /\ d \in -9 .. 9
            /\ f \in 0 .. 96 /\ g \in 0 .. 96 /\ s \in 0 .. 96
        BY <2>5, <3>1, <3>2
      <4> HIDE DEF f, g, s, c
      <4>2. Scaled(d, Mod97(f, c), Mod97(g, c), (s * Shift(c)) % 97)
        BY <4>1, ScaledOn
      <4> QED BY <4>2 DEF f, g, s, c
    <3> QED BY <2>6, <3>3, Zenon
  <2>9. \E k \in 0 .. 2 * (i - 1) : (T[e] * Shift(u[i])) % 97 = T[k]
    <3>1. CASE u[i] \in Digits
      BY <1>5, <2>7, <3>1 DEF Shift
    <3>2. CASE u[i] \notin Digits
      BY <1>5, <2>7, <3>2 DEF Shift
    <3> QED BY <3>1, <3>2
  <2>10. PICK k \in 0 .. 2 * (i - 1) : (T[e] * Shift(u[i])) % 97 = T[k]
    BY <2>9
  <2>11. Scaled(d, F[i], G[i], T[k])
    BY <2>8, <2>10
  <2> QED BY <2>3, <2>11
<1>8. PICK e \in 0 .. 2 * ((N - 1) - 1) : Scaled(d, F[N - 1], G[N - 1], T[e])
  <2>1. N - 1 \in 1 .. N - 1
    BY <1>1
  <2> QED BY <1>7, <2>1
<1> HIDE DEF X
<1>9. e \in 0 .. 64 /\ N - 1 \in 0 .. N /\ N \in 1 .. N
  <2>1. N \in 2 .. N /\ N - 1 \in 0 .. N /\ N \in 1 .. N
    BY <1>1
  <2> QED BY <1>1, <2>1, ExponentsFit
<1> DEFINE x == F[N - 1]
           y == G[N - 1]
           z == T[e + 1]
<1>10. x \in 0 .. 96 /\ y \in 0 .. 96 /\ F[N] = Mod97(x, b) /\ G[N] = Mod97(y, a)
  <2>1. F[N] = Mod97(F[N - 1], b) /\ F[N - 1] \in 0 .. 96
    BY <1>1, <1>2, <1>9
  <2>2. G[N] = Mod97(G[N - 1], a) /\ G[N - 1] \in 0 .. 96
    BY <1>1, <1>3, <1>9
  <2> QED BY <2>1, <2>2
<1>11. z \in 0 .. 96 /\ z # 1 /\ (T[e] * 10) % 97 = z /\ T[e] \in 0 .. 96
  BY <1>5, <1>9
<1> HIDE DEF x, y, z, N
<1>12. Scaled(d, Mod97(x, a), Mod97(y, a), z)
  <2>1. Scaled(d, x, y, T[e])
    BY <1>8 DEF x, y
  <2>2. Scaled(d, Mod97(x, a), Mod97(y, a), (T[e] * Shift(a)) % 97)
    BY <1>1, <1>10, <1>11, <2>1, ScaledOn
  <2> QED BY <1>11, <2>2 DEF Shift
<1>13. /\ F[N] = (x * 10 + b) % 97 /\ G[N] = (y * 10 + a) % 97
       /\ Mod97(x, a) = (x * 10 + a) % 97 /\ Mod97(y, a) = (y * 10 + a) % 97
  BY <1>10 DEF Mod97
<1>14. SUFFICES ASSUME F[N] = G[N] PROVE FALSE
  BY <1>1 DEF F, G, N
<1> DEFINE p == d * z
<1>15. p \in Int /\ (p - d) % 97 # 0
  <2>1. d \in Int /\ z \in Int
    BY <1>1, <1>11
  <2>2. p \in Int
    BY <2>1
  <2>3. (d * z - d) % 97 # 0
    BY <1>1, <1>11, ScaledApart
  <2> QED BY <2>2, <2>3
<1>16. (((y * 10 + a) % 97) - ((x * 10 + a) % 97) - p) % 97 = 0
  <2> DEFINE f == (x * 10 + a) % 97
             g == (y * 10 + a) % 97
  <2>1. Mod97(x, a) = f /\ Mod97(y, a) = g
    BY <1>13
  <2> HIDE DEF f, g
  <2>2. (g - f - p) % 97 = 0
    BY <1>12, <2>1 DEF Scaled
  <2> QED BY <2>2 DEF f, g
<1>17. (x * 10 + b) % 97 = (y * 10 + a) % 97
  BY <1>13, <1>14
<1> DEFINE f == (x * 10 + a) % 97
           g == (y * 10 + a) % 97
<1>18. f \in 0 .. 96 /\ g \in 0 .. 96 /\ g = (f + d) % 97
  <2>1. d = b - a
    BY DEF d
  <2>2. (x * 10 + b) % 97 = (((x * 10 + a) % 97) + (b - a)) % 97
    BY <1>1, <1>10
  <2> QED BY <1>1, <1>10, <1>17, <2>1, <2>2
<1>19. (g - f - p) % 97 = 0
  BY <1>16
<1> HIDE DEF p, f, g
<1>20. (p - d) % 97 = 0
  BY <1>1, <1>15, <1>18, <1>19, Congruent
<1> QED BY <1>15, <1>20

\* Where Rearranged puts the character at place k of n.
Place(k, n) == IF k > 4 THEN k - 4 ELSE k + (n - 4)

(* Rearranged moves every place to one of its own.                            *)
LEMMA PlaceIs ==
  ASSUME NEW n \in Nat, n >= 4
  PROVE  /\ \A k \in 1 .. n : Place(k, n) \in 1 .. n
         /\ \A j \in 1 .. n : \E k \in 1 .. n : j = Place(k, n)
<1>1. \A k \in 1 .. n : Place(k, n) \in 1 .. n
  BY DEF Place
<1>2. ASSUME NEW j \in 1 .. n PROVE \E k \in 1 .. n : j = Place(k, n)
  <2>1. CASE j <= n - 4
    <3>1. j + 4 \in 1 .. n /\ j = Place(j + 4, n)
      BY <2>1 DEF Place
    <3> QED BY <3>1
  <2>2. CASE j > n - 4
    <3>1. j - (n - 4) \in 1 .. n /\ j = Place(j - (n - 4), n)
      BY <2>2 DEF Place
    <3> QED BY <3>1
  <2> QED BY <2>1, <2>2
<1> QED BY <1>1, <1>2

(* Rearranged loses and changes nothing.                                      *)
LEMMA TurnedAt ==
  ASSUME NEW A, NEW s \in Seq(A), Len(s) >= 4
  PROVE  /\ Rearranged(s) \in Seq(A) /\ Len(Rearranged(s)) = Len(s)
         /\ \A k \in 1 .. Len(s) : Rearranged(s)[Place(k, Len(s))] = s[k]
<1> DEFINE n == Len(s)
           f == SubSeq(s, 5, n)
           g == SubSeq(s, 1, 4)
<1>1. n \in Nat /\ n >= 4 /\ \A k \in 1 .. n : s[k] \in A
  OBVIOUS
<1>2. f \in Seq(A) /\ Len(f) = n - 4 /\ \A k \in 1 .. n - 4 : f[k] = s[k + 4]
  <2>1. Len(f) = n - 4 /\ \A k \in 1 .. n - 4 : f[k] = s[5 + k - 1]
    <3>1. f = [k \in 1 .. (1 + n) - 5 |-> s[(5 + k) - 1]] /\ (1 + n) - 5 = n - 4 /\ n - 4 \in Nat
      BY <1>1
    <3> QED BY <3>1
  <2>2. \A k \in 1 .. n - 4 : 5 + k - 1 = k + 4 /\ k + 4 \in 1 .. n
    BY <1>1
  <2>3. f \in Seq(A)
    BY <1>1
  <2> HIDE DEF f, n
  <2> QED BY <2>1, <2>2, <2>3
<1>3. g \in Seq(A) /\ Len(g) = 4 /\ \A k \in 1 .. 4 : g[k] = s[k]
  <2>1. Len(g) = 4 /\ \A k \in 1 .. 4 : g[k] = s[1 + k - 1]
    BY <1>1
  <2>2. g \in Seq(A)
    BY <1>1
  <2> HIDE DEF g, n
  <2> QED BY <2>1, <2>2
<1>4. Rearranged(s) = f \o g
  BY DEF Rearranged
<1> HIDE DEF f, g, n
<1>5. /\ f \o g \in Seq(A) /\ Len(f \o g) = n
      /\ \A j \in 1 .. n : (f \o g)[j] = IF j <= n - 4 THEN f[j] ELSE g[j - (n - 4)]
  <2>1. f \o g \in Seq(A) /\ Len(f \o g) = Len(f) + Len(g)
    BY <1>2, <1>3, ConcatProperties
  <2>2. \A j \in 1 .. Len(f) + Len(g) : (f \o g)[j] = IF j <= Len(f) THEN f[j] ELSE g[j - Len(f)]
    BY <1>2, <1>3, ConcatProperties
  <2>3. Len(f) + Len(g) = n
    BY <1>1, <1>2, <1>3
  <2> QED BY <1>2, <2>1, <2>2, <2>3
<1> DEFINE h == f \o g
<1> HIDE DEF h
<1>6. ASSUME NEW k \in 1 .. n PROVE h[Place(k, n)] = s[k]
  <2>1. CASE k > 4
    <3>1. Place(k, n) = k - 4 /\ k - 4 \in 1 .. n - 4 /\ k - 4 \in 1 .. n /\ (k - 4) + 4 = k
      BY <1>1, <2>1 DEF Place
    <3>2. h[k - 4] = f[k - 4]
      BY <1>5, <3>1 DEF h
    <3> QED BY <1>2, <3>1, <3>2
  <2>2. CASE k <= 4
    <3>1. /\ Place(k, n) = k + (n - 4) /\ k + (n - 4) \in 1 .. n /\ ~(k + (n - 4) <= n - 4)
          /\ (k + (n - 4)) - (n - 4) = k /\ k \in 1 .. 4
      BY <1>1, <2>2 DEF Place
    <3>2. h[k + (n - 4)] = g[k]
      BY <1>5, <3>1 DEF h
    <3> QED BY <1>3, <3>1, <3>2
  <2> QED BY <1>1, <2>1, <2>2
<1> QED BY <1>4, <1>5, <1>6 DEF n, h

\* Two texts of n characters that differ at most at the places in K, and the
\* same of what Rearranged makes of them.
Differ(s, o, n, K) == /\ n = Len(s) /\ n = Len(o) /\ n >= 4 /\ K \in SUBSET (1 .. n)
                      /\ \A k \in (1 .. n) \ K : s[k] = o[k]

Turned(s, o, n, K) ==
  /\ Apart(Rearranged(s), Rearranged(o), {Place(k, n) : k \in K})
  /\ Len(Rearranged(s)) = n
  /\ \A k \in 1 .. n : /\ Place(k, n) \in DOMAIN Rearranged(s)
                       /\ Rearranged(s)[Place(k, n)] = s[k]
                       /\ Rearranged(o)[Place(k, n)] = o[k]

(* Where two texts agree, what Rearranged makes of them does.                 *)
LEMMA TurnedApart ==
  ASSUME NEW s \in Seq(Alnum), NEW o \in Seq(Alnum), NEW n, NEW K, Differ(s, o, n, K)
  PROVE  Turned(s, o, n, K)
<1>1. /\ n \in Nat /\ n = Len(s) /\ n = Len(o) /\ n >= 4 /\ K \in SUBSET (1 .. n)
      /\ \A k \in (1 .. n) \ K : s[k] = o[k]
  BY DEF Differ
<1>2. /\ Rearranged(s) \in Seq(Alnum) /\ Len(Rearranged(s)) = n
      /\ \A k \in 1 .. n : Rearranged(s)[Place(k, n)] = s[k]
  <2>1. Len(s) >= 4
    BY <1>1
  <2>2. /\ Rearranged(s) \in Seq(Alnum) /\ Len(Rearranged(s)) = Len(s)
        /\ \A k \in 1 .. Len(s) : Rearranged(s)[Place(k, Len(s))] = s[k]
    BY <2>1, TurnedAt
  <2> QED BY <1>1, <2>2
<1>3. /\ Rearranged(o) \in Seq(Alnum) /\ Len(Rearranged(o)) = n
      /\ \A k \in 1 .. n : Rearranged(o)[Place(k, n)] = o[k]
  <2>1. Len(o) >= 4
    BY <1>1
  <2>2. /\ Rearranged(o) \in Seq(Alnum) /\ Len(Rearranged(o)) = Len(o)
        /\ \A k \in 1 .. Len(o) : Rearranged(o)[Place(k, Len(o))] = o[k]
    BY <2>1, TurnedAt
  <2> QED BY <1>1, <2>2
<1>4. /\ \A k \in 1 .. n : Place(k, n) \in 1 .. n
      /\ \A j \in 1 .. n : \E k \in 1 .. n : j = Place(k, n)
  BY <1>1, PlaceIs
<1>5. DOMAIN Rearranged(s) = 1 .. n
  BY <1>2
<1>6. ASSUME NEW j \in (1 .. n) \ {Place(k, n) : k \in K}
      PROVE  Rearranged(s)[j] = Rearranged(o)[j]
  <2>1. PICK k \in 1 .. n : j = Place(k, n)
    BY <1>4
  <2>2. k \notin K
    BY <2>1
  <2> QED BY <1>1, <1>2, <1>3, <2>1, <2>2
<1>7. Apart(Rearranged(s), Rearranged(o), {Place(k, n) : k \in K})
  BY <1>2, <1>3, <1>5, <1>6 DEF Apart
<1> QED BY <1>2, <1>3, <1>4, <1>5, <1>7 DEF Turned

(* What IBANValid demands of a text without spaces.                           *)
LEMMA IbanReads ==
  ASSUME NEW s \in Seq(Alnum), IBANValid(s)
  PROVE  /\ Len(s) \in 4 .. 34 /\ s[4] \in Digits
         /\ Remainders(Rearranged(s))[Len(s)] = 1
<1>1. s \in Seq(Characters \ {Space})
  <2>1. Alnum \subseteq Characters \ {Space}
    BY DEF Alnum, Characters, Digits, Letters, Space
  <2>2. Len(s) \in Nat /\ s \in [1 .. Len(s) -> Alnum]
    OBVIOUS
  <2>3. s \in [1 .. Len(s) -> Characters \ {Space}]
    BY <2>1, <2>2
  <2> QED BY <2>2, <2>3
<1>2. Keep(s, Characters \ {Space}) = s
  BY <1>1, FilteredAll DEF Keep
<1>3. /\ Len(s) \in IbanLengths /\ s[4] \in Digits
      /\ Remainders(Rearranged(s))[Len(s)] = 1
  BY <1>2 DEF IBANValid
<1> QED BY <1>3, LengthsAssumption

\* The two sorts of characters.
(* A slip stays within a sort of characters.                                  *)
LEMMA Sorts ==
  ASSUME NEW A \in {Digits, Letters}
  PROVE  A \subseteq Alnum /\ \A a \in A, b \in A : SameSort(a, b)
BY DEF Alnum, Digits, Letters, SameSort

(* One wrong digit or letter is caught.                                       *)
LEMMA IbanSlip ==
  ASSUME NEW s \in Seq(Alnum), IBANValid(s), NEW A \in {Digits, Letters},
         NEW other \in SlipsOf(s, A)
  PROVE  ~IBANValid(other)
<1> SUFFICES ASSUME IBANValid(other) PROVE FALSE
  OBVIOUS
<1> DEFINE n == Len(s)
           t == Rearranged(s)
           r == Rearranged(other)
<1>1. PICK k \in DOMAIN s : s[k] \in A /\ \E c \in A \ {s[k]} : other = [s EXCEPT ![k] = c]
  BY DEF SlipsOf
<1>2. PICK c \in A : c # s[k] /\ other = [s EXCEPT ![k] = c]
  BY <1>1
<1>3. /\ A \subseteq Alnum /\ \A a \in A, b \in A : SameSort(a, b)
  BY Sorts
<1>4. n \in 4 .. 34 /\ Remainders(t)[n] = 1
  BY IbanReads
<1>5. /\ other \in Seq(Alnum) /\ Len(other) = n /\ k \in 1 .. n /\ other[k] = c
      /\ \A j \in (1 .. n) \ {k} : s[j] = other[j]
  BY <1>1, <1>2, <1>3
<1>6. Remainders(r)[n] = 1
  BY <1>5, IbanReads
<1>7. /\ Apart(t, r, {Place(j, n) : j \in {k}}) /\ Len(t) = n
      /\ Place(k, n) \in DOMAIN t /\ t[Place(k, n)] = s[k] /\ r[Place(k, n)] = c
  <2>1. Differ(s, other, n, {k})
    BY <1>4, <1>5 DEF Differ
  <2> HIDE DEF n
  <2>2. Turned(s, other, n, {k})
    BY <1>5, <2>1, TurnedApart
  <2> QED BY <1>5, <2>2 DEF Turned
<1>8. {Place(j, n) : j \in {k}} = {Place(k, n)}
  OBVIOUS
<1> HIDE DEF n, t, r
<1>9. Remainders(t)[Len(t)] # Remainders(r)[Len(r)]
  <2>1. SameSort(t[Place(k, n)], r[Place(k, n)]) /\ t[Place(k, n)] # r[Place(k, n)]
    BY <1>1, <1>2, <1>3, <1>7
  <2>2. Apart(t, r, {Place(k, n)})
    BY <1>7, <1>8
  <2> QED BY <1>7, <2>1, <2>2, OneTold
<1>10. Len(r) = n
  BY <1>7 DEF Apart
<1> QED BY <1>4, <1>6, <1>7, <1>9, <1>10

(* Two neighbours swapped are caught: next to each other, or at the two ends. *)
LEMMA IbanSwap ==
  ASSUME NEW s \in Seq(Alnum), IBANValid(s), NEW A \in {Digits, Letters},
         NEW other \in SwapsOf(s, A)
  PROVE  ~IBANValid(other)
<1> SUFFICES ASSUME IBANValid(other) PROVE FALSE
  OBVIOUS
<1> DEFINE n == Len(s)
           t == Rearranged(s)
           r == Rearranged(other)
<1>1. PICK k \in 1 .. n - 1 : /\ s[k] \in A /\ s[k + 1] \in A /\ s[k] # s[k + 1]
                              /\ other = [s EXCEPT ![k] = s[k + 1], ![k + 1] = s[k]]
  BY DEF SwapsOf
<1>2. A \subseteq Alnum /\ \A a \in A, b \in A : SameSort(a, b)
  BY Sorts
<1>3. n \in 4 .. 34 /\ s[4] \in Digits /\ Remainders(t)[n] = 1
  BY IbanReads
<1>4. /\ other \in Seq(Alnum) /\ Len(other) = n /\ k \in 1 .. n /\ k + 1 \in 1 .. n
      /\ other[k] = s[k + 1] /\ other[k + 1] = s[k]
      /\ \A j \in (1 .. n) \ {k, k + 1} : s[j] = other[j]
  BY <1>1, <1>2
<1>5. Remainders(r)[n] = 1
  BY <1>4, IbanReads
<1> DEFINE p == Place(k, n)
           q == Place(k + 1, n)
<1>6. /\ Apart(t, r, {Place(j, n) : j \in {k, k + 1}}) /\ Len(t) = n
      /\ p \in DOMAIN t /\ t[p] = s[k] /\ r[p] = s[k + 1]
      /\ q \in DOMAIN t /\ t[q] = s[k + 1] /\ r[q] = s[k]
  <2>1. Differ(s, other, n, {k, k + 1})
    BY <1>3, <1>4 DEF Differ
  <2> HIDE DEF n
  <2>2. Turned(s, other, n, {k, k + 1})
    BY <1>4, <2>1, TurnedApart
  <2> QED BY <1>4, <2>2 DEF Turned
<1>7. Apart(t, r, {p, q})
  <2>1. {Place(j, n) : j \in {k, k + 1}} = {p, q}
    OBVIOUS
  <2> QED BY <1>6, <2>1
<1>8. DOMAIN t = 1 .. n /\ Len(r) = n
  BY <1>6 DEF Apart
<1> HIDE DEF n, t, r
<1>9. CASE k # 4
  <2>1. q = p + 1 /\ k \in Nat
    BY <1>3, <1>4, <1>9 DEF Place
  <2> HIDE DEF p, q
  <2>2. p \in 1 .. Len(t) - 1
    BY <1>3, <1>6, <1>8, <2>1
  <2>3. /\ Apart(t, r, {p, p + 1}) /\ SameSort(t[p], t[p + 1]) /\ t[p] # t[p + 1]
        /\ r[p] = t[p + 1] /\ r[p + 1] = t[p]
    BY <1>1, <1>2, <1>6, <1>7, <2>1
  <2>4. Remainders(t)[Len(t)] # Remainders(r)[Len(r)]
    BY <2>2, <2>3, TwoTold
  <2> QED BY <1>3, <1>5, <1>6, <1>8, <2>4
<1>10. CASE k = 4
  <2>1. p = n /\ q = 1 /\ n \in 5 .. 34
    BY <1>3, <1>4, <1>10 DEF Place
  <2>2. s[4] \in Digits /\ s[5] \in Digits
    <3>1. SameSort(s[k], s[k + 1])
      BY <1>1, <1>2
    <3> QED BY <1>3, <1>10, <3>1 DEF SameSort
  <2> HIDE DEF p, q
  <2>3. /\ Len(t) \in 5 .. 34 /\ Apart(t, r, {1, Len(t)})
        /\ t[1] = s[5] /\ t[Len(t)] = s[4] /\ r[1] = s[4] /\ r[Len(t)] = s[5] /\ s[4] # s[5]
    <3>1. k = 4 /\ k + 1 = 5
      BY <1>10
    <3>2. t[p] = s[4] /\ r[p] = s[5] /\ t[q] = s[5] /\ r[q] = s[4] /\ s[4] # s[5]
      BY <1>1, <1>6, <3>1
    <3> QED BY <1>6, <1>7, <2>1, <3>2
  <2>4. Remainders(t)[Len(t)] # Remainders(r)[Len(r)]
    BY <2>2, <2>3, EndsTold
  <2> QED BY <1>3, <1>5, <1>6, <1>8, <2>4
<1> QED BY <1>9, <1>10

(* The checksum of an account is passed by no other reading of it with one    *)
(* character wrong or two neighbours swapped.                                 *)
IbanCatches(s) ==
  IBANValid(s) => \A other \in SlipsOf(s, Digits) \union SlipsOf(s, Letters)
                                \union SwapsOf(s, Digits) \union SwapsOf(s, Letters) :
                    ~IBANValid(other)

(* So no slip of either sort is missed.                                       *)
LEMMA IbanTells == ASSUME NEW s \in Seq(Alnum) PROVE IbanCatches(s)
BY IbanSlip, IbanSwap DEF IbanCatches

(* Whatever number an upload shows is read as the patterns match it.          *)
LEMMA ImagingChecksums == IInv => ChecksumCatchesSlips
<1> SUFFICES ASSUME IInv, NEW box \in Range(upload.texts), NEW token \in Range(box.text)
             PROVE  /\ token.shape = "card" =>
                         /\ LuhnValid(token.chars) = LuhnValid(DigitsOf(token.chars))
                         /\ LuhnCatches(DigitsOf(token.chars))
                    /\ token.shape = "iban" => IbanCatches(token.chars)
  BY DEF ChecksumCatchesSlips, LuhnCatches, IbanCatches
<1>1. /\ token.shape = "card" => token.chars \in Seq(Digits \union {Space, Hyphen})
      /\ token.shape = "iban" => token.chars \in Seq(Alnum)
  BY FamiliesAssumption DEF IInv, Alnum
<1>2. ASSUME token.shape = "card"
      PROVE  /\ LuhnValid(token.chars) = LuhnValid(DigitsOf(token.chars))
             /\ LuhnCatches(DigitsOf(token.chars))
  BY <1>1, <1>2, LuhnReads, LuhnTells
<1>3. ASSUME token.shape = "iban" PROVE IbanCatches(token.chars)
  BY <1>1, <1>3, IbanTells
<1> QED BY <1>2, <1>3

(* Whatever number the text detector reads: what separates the digits of a    *)
(* card does not matter to Luhn, and no slip of one digit or letter and no    *)
(* swap of two unequal neighbours of a sort gets past the checksum that the   *)
(* number itself passes, but for the 0 and 9 that Luhn cannot tell; and the   *)
(* digits that count twice are every other one from the last but one.         *)
THEOREM ImagingChecksumCatchesSlips == Spec => []ChecksumCatchesSlips
BY InitIInv, NextIInv, ImagingChecksums, PTL DEF Spec

-----------------------------------------------------------------------------
(* Masks. What one region does to an image, and what a list of them does.     *)

(* Masks.                                                                     *)
IsRect(r) == r.x0 \in Int /\ r.y0 \in Int /\ r.x1 \in Int /\ r.y1 \in Int

\* The size of an image that was decoded.
IsImage == Width \in Nat /\ Height \in Nat

\* Regions with boxes of whole numbers.
RegionList(rs) == /\ Len(rs) \in Nat
                  /\ \A k \in 1 .. Len(rs) : IsRect(rs[k].rect)

\* What the pixels of an image may depend on.
Images == [Points -> SUBSET Points]

(* Cutting a box to the image changes nothing within it.                      *)
LEMMA CutIn ==
  ASSUME IsImage, NEW r, IsRect(r)
  PROVE  In(Intersect(r, Bounds)) = In(r) /\ IsRect(Intersect(r, Bounds))
<1> DEFINE c == Intersect(r, Bounds)
<1>1. /\ c.x0 = Max({r.x0, 0}) /\ c.y0 = Max({r.y0, 0})
      /\ c.x1 = Min({r.x1, Width}) /\ c.y1 = Min({r.y1, Height})
  BY DEF Intersect, Bounds, Rect
<1>2. /\ r.x0 \in Int /\ r.y0 \in Int /\ r.x1 \in Int /\ r.y1 \in Int
      /\ Width \in Nat /\ Height \in Nat
  BY DEF IsRect, IsImage
<1>3. /\ c.x0 = IF r.x0 >= 0 THEN r.x0 ELSE 0
      /\ c.y0 = IF r.y0 >= 0 THEN r.y0 ELSE 0
      /\ c.x1 = IF r.x1 <= Width THEN r.x1 ELSE Width
      /\ c.y1 = IF r.y1 <= Height THEN r.y1 ELSE Height
  <2>1. Max({r.x0, 0}) = IF r.x0 >= 0 THEN r.x0 ELSE 0
    BY <1>2, MaxMin
  <2>2. Max({r.y0, 0}) = IF r.y0 >= 0 THEN r.y0 ELSE 0
    BY <1>2, MaxMin
  <2>3. Min({r.x1, Width}) = IF r.x1 <= Width THEN r.x1 ELSE Width
    <3>1. Width \in Int
      BY <1>2
    <3> QED BY <1>2, <3>1, MaxMin
  <2>4. Min({r.y1, Height}) = IF r.y1 <= Height THEN r.y1 ELSE Height
    <3>1. Height \in Int
      BY <1>2
    <3> QED BY <1>2, <3>1, MaxMin
  <2> HIDE DEF c
  <2> QED BY <1>1, <2>1, <2>2, <2>3, <2>4
<1> HIDE DEF c
<1>4. IsRect(c)
  BY <1>2, <1>3 DEF IsRect
<1>5. \A p \in Points : p[1] \in Int /\ p[2] \in Int /\ 0 <= p[1] /\ p[1] < Width /\ 0 <= p[2] /\ p[2] < Height
  BY <1>2 DEF Points
<1>6. \A p \in Points : (c.x0 <= p[1] /\ p[1] < c.x1 /\ c.y0 <= p[2] /\ p[2] < c.y1) <=>
                        (r.x0 <= p[1] /\ p[1] < r.x1 /\ r.y0 <= p[2] /\ p[2] < r.y1)
  BY <1>2, <1>3, <1>5
<1>7. In(c) = In(r)
  BY <1>6 DEF In
<1> QED BY <1>4, <1>7 DEF c

(* An empty box holds no pixel.                                               *)
LEMMA EmptyIn == ASSUME IsImage, NEW r, IsRect(r), Empty(r) PROVE In(r) = {}
BY DEF IsImage, IsRect, Empty, In, Points

(* A solid mask erases the pixels of its box and leaves the others.           *)
LEMMA SolidSays ==
  ASSUME IsImage, NEW o \in Images, NEW region, IsRect(region.rect), upload.action # "blur"
  PROVE  /\ MaskRegion(o, region) \in Images
         /\ \A p \in Points : MaskRegion(o, region)[p] = IF p \in In(region.rect) THEN {} ELSE o[p]
<1> DEFINE r == Intersect(region.rect, Bounds)
<1>1. In(r) = In(region.rect) /\ IsRect(r)
  BY CutIn
<1> HIDE DEF r
<1>2. MaskRegion(o, region) = IF Empty(r) THEN o ELSE Solid(o, r)
  BY DEF MaskRegion, r
<1>3. CASE Empty(r)
  <2>1. In(region.rect) = {}
    BY <1>1, <1>3, EmptyIn
  <2> QED BY <1>2, <1>3, <2>1 DEF Images
<1>4. CASE ~Empty(r)
  BY <1>1, <1>2, <1>4 DEF Images, Solid
<1> QED BY <1>3, <1>4

\* What a blur of the pixels in R makes of o.
Blurs(n, o, R) ==
  /\ n \in Images
  /\ \A p \in Points \ R : n[p] = o[p]
  /\ \A p \in R : /\ o[p] \subseteq n[p] /\ n[p] \subseteq UNION {o[q] : q \in R}
                  /\ R # {p} => \E q \in R \ {p} : o[q] \subseteq n[p]

(* A pixel of a region that is not alone in it has a neighbour there.         *)
LEMMA Neighbour ==
  ASSUME IsImage, NEW r, IsRect(r), NEW p \in In(r), In(r) # {p}
  PROVE  \E q \in In(r) \ {p} : \/ q[2] = p[2] /\ q[1] - p[1] \in {-1, 1}
                                \/ q[1] = p[1] /\ q[2] - p[2] \in {-1, 1}
<1>1. PICK s \in In(r) : s # p
  OBVIOUS
<1>2. /\ r.x0 \in Int /\ r.y0 \in Int /\ r.x1 \in Int /\ r.y1 \in Int
      /\ Width \in Nat /\ Height \in Nat
  BY DEF IsRect, IsImage
<1>3. \A a, b \in Int : <<a, b>> \in In(r) <=>
        /\ 0 <= a /\ a < Width /\ 0 <= b /\ b < Height
        /\ r.x0 <= a /\ a < r.x1 /\ r.y0 <= b /\ b < r.y1
  BY <1>2 DEF In, Points
<1>4. \A t \in In(r) : t[1] \in Int /\ t[2] \in Int /\ t = <<t[1], t[2]>>
  BY <1>2 DEF In, Points
<1>5. /\ p[1] \in Int /\ p[2] \in Int /\ p = <<p[1], p[2]>>
      /\ s[1] \in Int /\ s[2] \in Int /\ s = <<s[1], s[2]>>
  BY <1>1, <1>4
<1>6. s[1] # p[1] \/ s[2] # p[2]
  BY <1>1, <1>5
<1> DEFINE P(q) == \/ q[2] = p[2] /\ q[1] - p[1] \in {-1, 1}
                   \/ q[1] = p[1] /\ q[2] - p[2] \in {-1, 1}
           Fits(a, b) == /\ 0 <= a /\ a < Width /\ 0 <= b /\ b < Height
                         /\ r.x0 <= a /\ a < r.x1 /\ r.y0 <= b /\ b < r.y1
<1>7. Fits(p[1], p[2]) /\ Fits(s[1], s[2])
  BY <1>1, <1>3, <1>5
<1>8. \A a, b \in Int : Fits(a, b) /\ <<a, b>> # p /\ P(<<a, b>>) => \E q \in In(r) \ {p} : P(q)
  <2> HIDE DEF P
  <2> QED BY <1>3
<1>9. ASSUME NEW d \in {-1, 1}, s[1] # p[1], d = IF s[1] > p[1] THEN 1 ELSE -1
      PROVE  \E q \in In(r) \ {p} : P(q)
  <2>1. Fits(p[1] + d, p[2]) /\ p[1] + d \in Int /\ <<p[1] + d, p[2]>> # p /\ P(<<p[1] + d, p[2]>>)
    BY <1>2, <1>5, <1>7, <1>9
  <2> HIDE DEF P, Fits
  <2> QED BY <1>5, <1>8, <2>1
<1>10. ASSUME NEW d \in {-1, 1}, s[2] # p[2], d = IF s[2] > p[2] THEN 1 ELSE -1
       PROVE  \E q \in In(r) \ {p} : P(q)
  <2>1. Fits(p[1], p[2] + d) /\ p[2] + d \in Int /\ <<p[1], p[2] + d>> # p /\ P(<<p[1], p[2] + d>>)
    BY <1>2, <1>5, <1>7, <1>10
  <2> HIDE DEF P, Fits
  <2> QED BY <1>5, <1>8, <2>1
<1>11. \E q \in In(r) \ {p} : P(q)
  <2> HIDE DEF P, Fits
  <2>1. CASE s[1] # p[1]
    <3>1. \E d \in {-1, 1} : d = IF s[1] > p[1] THEN 1 ELSE -1
      OBVIOUS
    <3> QED BY <1>9, <2>1, <3>1
  <2>2. CASE s[2] # p[2]
    <3>1. \E d \in {-1, 1} : d = IF s[2] > p[2] THEN 1 ELSE -1
      OBVIOUS
    <3> QED BY <1>10, <2>2, <3>1
  <2> QED BY <1>6, <2>1, <2>2
<1> QED BY <1>11

(* A blur mixes a pixel of its box with pixels of the box, itself among them, *)
(* and with another one unless the box is that one pixel.                     *)
LEMMA BlurSays ==
  ASSUME IsImage, NEW o \in Images, NEW region, IsRect(region.rect), upload.action = "blur",
         upload.radius \in Int
  PROVE  Blurs(MaskRegion(o, region), o, In(region.rect))
<1> DEFINE r == Intersect(region.rect, Bounds)
           R == In(r)
           n == MaskRegion(o, region)
<1>1. R = In(region.rect) /\ IsRect(r)
  BY CutIn
<1> HIDE DEF r
<1>2. n = IF Empty(r) THEN o ELSE Blur(o, r, upload.radius)
  BY DEF MaskRegion, r
<1>3. CASE Empty(r)
  <2>1. R = {}
    BY <1>1, <1>3, EmptyIn
  <2> HIDE DEF R
  <2> QED BY <1>1, <1>2, <1>3, <2>1 DEF Images, Blurs
<1>4. CASE ~Empty(r)
  <2> DEFINE rad == IF upload.radius <= 0 THEN 1 ELSE upload.radius
             reach == Min({rad, r.x1 - r.x0, r.y1 - r.y0})
             Near(a, b) == -reach <= a - b /\ a - b <= reach
             tmp == [p \in R |-> UNION {o[q] : q \in {x \in R : x[2] = p[2] /\ Near(x[1], p[1])}}]
             b == [p \in Points |->
                     IF p \in R THEN UNION {tmp[q] : q \in {x \in R : x[1] = p[1] /\ Near(x[2], p[2])}}
                     ELSE o[p]]
  <2>1. n = b
    <3>1. n = Blur(o, r, upload.radius)
      BY <1>2, <1>4
    <3> HIDE DEF n
    <3> QED BY <3>1 DEF Blur
  <2>2. reach \in Int /\ reach >= 1
    <3> DEFINE w == r.x1 - r.x0
               h == r.y1 - r.y0
               m == IF rad <= w /\ rad <= h THEN rad ELSE IF w <= h THEN w ELSE h
    <3>1. rad \in Int /\ w \in Int /\ h \in Int /\ rad >= 1 /\ w >= 1 /\ h >= 1
      BY <1>1, <1>4 DEF IsRect, Empty
    <3> HIDE DEF rad, w, h
    <3>2. m \in {rad, w, h} /\ \A z \in {rad, w, h} : m <= z
      BY <3>1
    <3>3. m \in Int /\ m >= 1
      BY <3>1
    <3> HIDE DEF m
    <3>4. \A x \in {rad, w, h} : (\A y \in {rad, w, h} : x <= y) => x = m
      BY <3>1, <3>2, <3>3
    <3>5. Min({rad, w, h}) = m
      BY <3>2, <3>4 DEF Min
    <3>6. reach = Min({rad, w, h})
      BY DEF w, h
    <3> HIDE DEF reach
    <3> QED BY <3>3, <3>5, <3>6
  <2>3. \A p \in R : p \in Points /\ p[1] \in Int /\ p[2] \in Int
    <3>1. \A p \in Points : p[1] \in Int /\ p[2] \in Int
      BY DEF Points, IsImage
    <3> QED BY <3>1 DEF In
  <2> HIDE DEF reach
  <2>4. \A p \in R : Near(p[1], p[1]) /\ Near(p[2], p[2])
    BY <2>2, <2>3
  <2>5. \A p, q \in R : /\ q[1] - p[1] \in {-1, 1} => Near(q[1], p[1])
                        /\ q[2] - p[2] \in {-1, 1} => Near(q[2], p[2])
    BY <2>2, <2>3
  <2> HIDE DEF Near
  <2>6. \A p \in R : o[p] \subseteq tmp[p] /\ tmp[p] \subseteq UNION {o[q] : q \in R}
    BY <2>4
  <2>7. \A p, q \in R : q[2] = p[2] /\ q[1] - p[1] \in {-1, 1} => o[q] \subseteq tmp[p]
    BY <2>5
  <2> HIDE DEF tmp
  <2>8. \A p \in R : b[p] = UNION {tmp[q] : q \in {x \in R : x[1] = p[1] /\ Near(x[2], p[2])}}
    BY <2>3
  <2>9. \A p \in Points \ R : b[p] = o[p]
    OBVIOUS
  <2>10. \A p \in R : tmp[p] \subseteq b[p] /\ b[p] \subseteq UNION {o[q] : q \in R}
    <3> HIDE DEF b
    <3> QED BY <2>4, <2>6, <2>8
  <2>11. \A p, q \in R : q[1] = p[1] /\ q[2] - p[2] \in {-1, 1} => tmp[q] \subseteq b[p]
    <3> HIDE DEF b
    <3> QED BY <2>5, <2>8
  <2>12. b \in Images
    <3>1. \A p \in Points : b[p] \in SUBSET Points
      <4> TAKE p \in Points
      <4>1. \A q \in Points : o[q] \subseteq Points
        BY DEF Images
      <4>2. CASE p \in R
        <5>1. UNION {o[q] : q \in R} \subseteq Points
          BY <2>3, <4>1
        <5> HIDE DEF b
        <5> QED BY <2>10, <4>2, <5>1
      <4>3. CASE p \notin R
        <5> HIDE DEF b
        <5> QED BY <2>9, <4>1, <4>3
      <4> QED BY <4>2, <4>3
    <3>2. b = [p \in Points |-> b[p]]
      OBVIOUS
    <3> HIDE DEF b
    <3> QED BY <3>1, <3>2 DEF Images
  <2> HIDE DEF b, R
  <2>13. ASSUME NEW p \in R, R # {p} PROVE \E q \in R \ {p} : o[q] \subseteq b[p]
    <3>1. PICK q \in R \ {p} : \/ q[2] = p[2] /\ q[1] - p[1] \in {-1, 1}
                               \/ q[1] = p[1] /\ q[2] - p[2] \in {-1, 1}
      BY <1>1, <2>13, Neighbour DEF R
    <3>2. CASE q[2] = p[2] /\ q[1] - p[1] \in {-1, 1}
      BY <2>7, <2>10, <3>1, <3>2
    <3>3. CASE q[1] = p[1] /\ q[2] - p[2] \in {-1, 1}
      BY <2>6, <2>11, <3>1, <3>3
    <3> QED BY <3>1, <3>2, <3>3
  <2>14. \A p \in R : o[p] \subseteq b[p]
    BY <2>6, <2>10
  <2>15. Blurs(b, o, R)
    BY <2>9, <2>10, <2>12, <2>13, <2>14 DEF Blurs
  <2> QED BY <1>1, <2>1, <2>15
<1> QED BY <1>3, <1>4

(* MaskedBy is what its recursion says: one region after the other.           *)
LEMMA MaskedUnfolds ==
  ASSUME IsImage, NEW rs, RegionList(rs), upload.radius \in Int
  PROVE  /\ MaskedBy(rs)[0] = [p \in Points |-> {p}]
         /\ \A n \in 1 .. Len(rs) : MaskedBy(rs)[n] = MaskRegion(MaskedBy(rs)[n - 1], rs[n])
         /\ \A n \in 0 .. Len(rs) : MaskedBy(rs)[n] \in Images
<1> DEFINE N == Len(rs)
           V == Images
           v == [p \in Points |-> {p}]
           h == [x \in (1 .. N) \X V |-> MaskRegion(x[2], rs[x[1]])]
           Eqn(f) == f = [n \in 0 .. Len(rs) |-> IF n = 0 THEN [p \in Points |-> {p}]
                                                 ELSE MaskRegion(f[n - 1], rs[n])]
           it == CHOOSE f : Eqn(f)
<1>1. N \in Nat /\ \A n \in 1 .. N : IsRect(rs[n].rect)
  BY DEF RegionList
<1>2. \A n \in 1 .. N : \A x \in V : h[<<n, x>>] = MaskRegion(x, rs[n])
  OBVIOUS
<1>3. \A n \in 1 .. N : \A x \in V : MaskRegion(x, rs[n]) \in V
  <2> TAKE n \in 1 .. N
  <2> TAKE x \in V
  <2> HIDE DEF N
  <2>1. CASE upload.action = "blur"
    BY <1>1, <2>1, BlurSays DEF Blurs
  <2>2. CASE upload.action # "blur"
    BY <1>1, <2>2, SolidSays
  <2> QED BY <2>1, <2>2
<1>4. v \in V
  BY DEF Images
<1>5. \E f \in [0 .. N -> V] : f[0] = v /\ \A n \in 1 .. N : f[n] = h[<<n, f[n - 1]>>]
  <2>1. Steps(h, N, V)
    <3> HIDE DEF h, N, V
    <3> QED BY <1>2, <1>3 DEF Steps
  <2> HIDE DEF h, N, V, v
  <2> QED BY <1>1, <1>4, <2>1, RecursionExists
<1>6. PICK f \in [0 .. N -> V] : f[0] = v /\ \A n \in 1 .. N : f[n] = h[<<n, f[n - 1]>>]
  BY <1>5
<1> HIDE DEF h
<1>7. \A n \in 1 .. N : n - 1 \in 0 .. N /\ f[n - 1] \in V /\ f[n] = MaskRegion(f[n - 1], rs[n])
  <2>1. \A n \in 1 .. N : n - 1 \in 0 .. N
    BY <1>1
  <2> HIDE DEF N, V
  <2>2. \A n \in 1 .. N : f[n - 1] \in V
    BY <1>6, <2>1
  <2> QED BY <1>2, <1>6, <2>1, <2>2
<1>8. Eqn(f)
  <2>1. \A n \in 0 .. N : n = 0 \/ n \in 1 .. N
    BY <1>1
  <2>2. \A n \in 0 .. N : f[n] = IF n = 0 THEN v ELSE MaskRegion(f[n - 1], rs[n])
    <3> HIDE DEF v, N
    <3> QED BY <1>6, <1>7, <2>1
  <2> HIDE DEF V
  <2> QED BY <2>2
<1>9. Eqn(it)
  <2> HIDE DEF Eqn
  <2> QED BY <1>8
<1>10. MaskedBy(rs) = it
  BY DEF MaskedBy
<1> HIDE DEF it, v, V
<1>11. it[0] = v /\ \A n \in 1 .. N : it[n] = MaskRegion(it[n - 1], rs[n])
  <2>1. 0 \in 0 .. N /\ \A n \in 1 .. N : n \in 0 .. N /\ n # 0
    BY <1>1
  <2> QED BY <1>9, <2>1 DEF v
<1> DEFINE T == {m \in 0 .. N : it[m] \notin V}
<1> HIDE DEF Eqn
<1>12. T = {}
  <2> SUFFICES ASSUME T # {} PROVE FALSE
    OBVIOUS
  <2>1. T \subseteq Nat
    BY <1>1
  <2>2. PICK m \in T : \A j \in T : m <= j
    <3> HIDE DEF T
    <3> QED BY <2>1, LeastNat
  <2>3. m \in 1 .. N /\ m - 1 \in 0 .. N /\ ~(m <= m - 1)
    <3>1. m \in 0 .. N /\ it[m] \notin V
      OBVIOUS
    <3>2. m # 0
      BY <1>4, <1>11, <3>1
    <3> QED BY <1>1, <3>1, <3>2
  <2>4. m - 1 \notin T
    <3> HIDE DEF T
    <3> QED BY <2>2, <2>3
  <2>5. it[m - 1] \in V
    BY <2>3, <2>4
  <2>6. it[m] \in V
    BY <1>3, <1>11, <2>3, <2>5
  <2> QED BY <2>6
<1>13. \A n \in 0 .. N : it[n] \in V
  BY <1>12
<1> QED BY <1>10, <1>11, <1>13 DEF v, V

\* What the first n regions cover.
Covered(rs, n) == UNION {In(rs[k].rect) : k \in 1 .. n}

\* What a mask of the first n regions leaves.
Redacts(o, rs, n) == \A p \in Points : o[p] = IF p \in Covered(rs, n) THEN {} ELSE {p}

\* After a blur of n regions a pixel outside depends on itself alone, and one inside on pixels inside.
Smears(o, rs, n) ==
  \A p \in Points : /\ p \in o[p]
                    /\ p \notin Covered(rs, n) => o[p] = {p}
                    /\ p \in Covered(rs, n) => o[p] \subseteq Covered(rs, n)
                    /\ (\E k \in 1 .. n : p \in In(rs[k].rect) /\ In(rs[k].rect) # {p}) => o[p] # {p}

(* One more region covers its own pixels more.                                *)
LEMMA CoveredGrows ==
  ASSUME NEW rs, NEW n \in Nat, n # 0
  PROVE  /\ Covered(rs, n) = Covered(rs, n - 1) \union In(rs[n].rect)
         /\ Covered(rs, 0) = {}
<1>1. \A k : k \in 1 .. n <=> (k \in 1 .. n - 1 \/ k = n)
  OBVIOUS
<1>2. 1 .. 0 = {}
  OBVIOUS
<1> QED BY <1>1, <1>2 DEF Covered

(* A mask of one more region.                                                 *)
LEMMA RedactsMore ==
  ASSUME IsImage, upload.action # "blur", NEW rs, NEW n \in Nat, n # 0, IsRect(rs[n].rect),
         NEW o \in Images, Redacts(o, rs, n - 1)
  PROVE  Redacts(MaskRegion(o, rs[n]), rs, n)
<1>1. \A p \in Points : MaskRegion(o, rs[n])[p] = IF p \in In(rs[n].rect) THEN {} ELSE o[p]
  BY SolidSays
<1>2. Covered(rs, n) = Covered(rs, n - 1) \union In(rs[n].rect)
  BY CoveredGrows
<1> QED BY <1>1, <1>2 DEF Redacts

(* A blur of one more region keeps what Smears says.                          *)
LEMMA SmearsMore ==
  ASSUME IsImage, upload.action = "blur", upload.radius \in Int, NEW rs, NEW n \in Nat, n # 0,
         IsRect(rs[n].rect), NEW o \in Images, Smears(o, rs, n - 1)
  PROVE  Smears(MaskRegion(o, rs[n]), rs, n)
<1> DEFINE R == In(rs[n].rect)
           b == MaskRegion(o, rs[n])
           C == Covered(rs, n - 1)
           D == Covered(rs, n)
           Wide(p, m) == \E k \in 1 .. m : p \in In(rs[k].rect) /\ In(rs[k].rect) # {p}
<1>1. Blurs(b, o, R)
  BY BlurSays
<1>2. D = C \union R /\ R \subseteq Points
  BY CoveredGrows DEF In
<1>3. \A p : Wide(p, n) => Wide(p, n - 1) \/ (p \in R /\ R # {p})
  <2>1. \A k : k \in 1 .. n <=> (k \in 1 .. n - 1 \/ k = n)
    OBVIOUS
  <2> QED BY <2>1
<1>4. \A p \in Points : /\ p \in o[p]
                        /\ p \notin C => o[p] = {p}
                        /\ p \in C => o[p] \subseteq C
                        /\ Wide(p, n - 1) => o[p] # {p}
  BY DEF Smears
<1> HIDE DEF R, b, C, D, Wide
<1>5. ASSUME NEW p \in Points
      PROVE  /\ p \in b[p]
             /\ p \notin D => b[p] = {p}
             /\ p \in D => b[p] \subseteq D
             /\ Wide(p, n) => b[p] # {p}
  <2>1. CASE p \notin R
    <3>1. b[p] = o[p]
      BY <1>1, <2>1 DEF Blurs
    <3> QED BY <1>2, <1>3, <1>4, <2>1, <3>1
  <2>2. CASE p \in R
    <3>1. /\ o[p] \subseteq b[p] /\ b[p] \subseteq UNION {o[q] : q \in R}
          /\ R # {p} => \E q \in R \ {p} : o[q] \subseteq b[p]
      BY <1>1, <2>2 DEF Blurs
    <3>2. p \in b[p] /\ p \in D
      BY <1>2, <1>4, <2>2, <3>1
    <3>3. b[p] \subseteq D
      <4>1. \A q \in R : o[q] \subseteq D
        BY <1>2, <1>4
      <4> QED BY <3>1, <4>1
    <3>4. ASSUME Wide(p, n - 1) PROVE b[p] # {p}
      BY <1>4, <3>1, <3>4
    <3>5. ASSUME R # {p} PROVE b[p] # {p}
      <4>1. PICK q \in R \ {p} : o[q] \subseteq b[p]
        BY <3>1, <3>5
      <4>2. q \in o[q]
        BY <1>2, <1>4, <4>1
      <4> QED BY <4>1, <4>2
    <3> QED BY <1>3, <3>2, <3>3, <3>4, <3>5
  <2> QED BY <2>1, <2>2
<1> QED BY <1>5 DEF Smears, b, D, Wide

(* What Mask leaves of an image, by induction over the regions.               *)
LEMMA MaskedAll ==
  ASSUME IsImage, NEW rs, RegionList(rs), upload.radius \in Int
  PROVE  IF upload.action = "blur" THEN Smears(MaskedBy(rs)[Len(rs)], rs, Len(rs))
         ELSE Redacts(MaskedBy(rs)[Len(rs)], rs, Len(rs))
<1> DEFINE N == Len(rs)
           F == MaskedBy(rs)
           Done(n) == IF upload.action = "blur" THEN Smears(F[n], rs, n) ELSE Redacts(F[n], rs, n)
           T == {m \in 0 .. N : ~Done(m)}
<1>1. /\ N \in Nat /\ \A n \in 1 .. N : IsRect(rs[n].rect)
      /\ F[0] = [p \in Points |-> {p}]
      /\ \A n \in 1 .. N : F[n] = MaskRegion(F[n - 1], rs[n])
      /\ \A n \in 0 .. N : F[n] \in Images
  BY MaskedUnfolds DEF RegionList
<1> HIDE DEF N, F
<1>2. Done(0)
  <2>1. Covered(rs, 0) = {} /\ 1 .. 0 = {}
    BY CoveredGrows DEF Covered
  <2>2. \A p \in Points : F[0][p] = {p}
    BY <1>1
  <2> QED BY <2>1, <2>2 DEF Smears, Redacts
<1>3. T = {}
  <2> SUFFICES ASSUME T # {} PROVE FALSE
    OBVIOUS
  <2>1. T \subseteq Nat
    BY <1>1
  <2>2. PICK m \in T : \A j \in T : m <= j
    <3> HIDE DEF T
    <3> QED BY <2>1, LeastNat
  <2>3. m \in 0 .. N /\ ~Done(m)
    OBVIOUS
  <2> HIDE DEF Done
  <2>4. /\ m \in 1 .. N /\ m - 1 \in 0 .. N /\ m \in Nat /\ m # 0 /\ ~(m <= m - 1)
    BY <1>1, <1>2, <2>3
  <2>5. m - 1 \notin T
    <3> HIDE DEF T
    <3> QED BY <2>2, <2>4
  <2>6. Done(m - 1)
    BY <2>4, <2>5
  <2>7. F[m] = MaskRegion(F[m - 1], rs[m]) /\ F[m - 1] \in Images /\ IsRect(rs[m].rect)
    BY <1>1, <2>4
  <2>8. Done(m)
    <3>1. CASE upload.action = "blur"
      BY <2>4, <2>6, <2>7, <3>1, SmearsMore DEF Done
    <3>2. CASE upload.action # "blur"
      BY <2>4, <2>6, <2>7, <3>2, RedactsMore DEF Done
    <3> QED BY <3>1, <3>2
  <2> QED BY <2>3, <2>8
<1>4. Done(N)
  <2>1. N \in 0 .. N
    BY <1>1
  <2> HIDE DEF Done
  <2> QED BY <1>3, <2>1
<1> QED BY <1>4 DEF N, F

-----------------------------------------------------------------------------
(* The union-find. Rooted is its invariant: every path leads over ever        *)
(* greater ranks to the root of its class, so that find ends before it has    *)
(* taken as many turns as there are pixels.                                   *)

\* The number of pixels.
Size == Width * Height

\* The paths of a union-find lead to the roots in c, over ever greater ranks.
Rooted(parent, rank, c) ==
  /\ parent \in [1 .. Size -> 1 .. Size]
  /\ rank \in [1 .. Size -> Nat]
  /\ c \in [1 .. Size -> 1 .. Size]
  /\ \A i \in 1 .. Size : /\ c[parent[i]] = c[i]
                          /\ c[c[i]] = c[i]
                          /\ parent[i] = i <=> c[i] = i
                          /\ parent[i] # i => rank[i] < rank[parent[i]]

\* How far up the ranks an element may still have to go.
Above(rank, i) == {j \in 1 .. Size : rank[j] > rank[i]}

(* A turn of find keeps the roots and moves up, but for the root itself.      *)
LEMMA HalveClimbs ==
  ASSUME IsImage, NEW rank, NEW c, NEW at, Rooted(at.parent, rank, c), NEW i \in 1 .. Size, at.i = i
  PROVE  LET to == Halve(at)
         IN /\ Rooted(to.parent, rank, c)
            /\ to.i \in 1 .. Size
            /\ c[to.i] = c[i]
            /\ at.parent[i] = i => to = at
            /\ at.parent[i] # i => rank[to.i] > rank[i]
<1> DEFINE P == at.parent
           grand == P[P[i]]
           Q == [P EXCEPT ![i] = grand]
           to == Halve(at)
<1>1. to = IF P[i] = i THEN at ELSE [parent |-> Q, i |-> grand]
  BY DEF Halve
<1>2. /\ P \in [1 .. Size -> 1 .. Size]
      /\ rank \in [1 .. Size -> Nat]
      /\ c \in [1 .. Size -> 1 .. Size]
      /\ \A j \in 1 .. Size : /\ c[P[j]] = c[j]
                              /\ c[c[j]] = c[j]
                              /\ P[j] = j <=> c[j] = j
                              /\ P[j] # j => rank[j] < rank[P[j]]
  BY DEF Rooted
<1> HIDE DEF P, to
<1>3. CASE P[i] = i
  <2>1. to = at /\ P = at.parent
    BY <1>1, <1>3 DEF P
  <2> QED BY <1>3, <2>1 DEF to
<1>4. CASE P[i] # i
  <2>1. /\ to.parent = Q /\ to.i = grand
    BY <1>1, <1>4
  <2>2. /\ P[i] \in 1 .. Size /\ grand \in 1 .. Size
        /\ c[grand] = c[i] /\ rank[i] < rank[grand] /\ grand # i /\ c[i] # i
    BY <1>2, <1>4
  <2> HIDE DEF grand
  <2>3. Q \in [1 .. Size -> 1 .. Size]
    BY <1>2, <2>2
  <2>4. \A j \in 1 .. Size : Q[j] = IF j = i THEN grand ELSE P[j]
    BY <1>2
  <2> HIDE DEF Q
  <2>5. \A j \in 1 .. Size : /\ c[Q[j]] = c[j]
                             /\ c[c[j]] = c[j]
                             /\ Q[j] = j <=> c[j] = j
                             /\ Q[j] # j => rank[j] < rank[Q[j]]
    BY <1>2, <2>2, <2>4
  <2>6. Rooted(to.parent, rank, c)
    BY <1>2, <2>1, <2>3, <2>5 DEF Rooted
  <2>7. rank[to.i] > rank[i]
    BY <1>2, <2>1, <2>2
  <2> QED BY <1>4, <2>1, <2>2, <2>6, <2>7 DEF P, to
<1> QED BY <1>3, <1>4 DEF P, to

(* Further up, fewer elements are above.                                      *)
LEMMA AboveShrinks ==
  ASSUME IsImage, NEW rank \in [1 .. Size -> Nat], NEW i \in 1 .. Size
  PROVE  /\ Cardinality(Above(rank, i)) \in Nat
         /\ Cardinality(Above(rank, i)) < Size
         /\ \A j \in 1 .. Size : rank[j] > rank[i] =>
              Cardinality(Above(rank, j)) < Cardinality(Above(rank, i))
<1>1. Size \in Nat
  BY DEF IsImage, Size
<1>2. IsFiniteSet(1 .. Size) /\ Cardinality(1 .. Size) = Size
  <2> HIDE DEF Size
  <2>1. Size \in Int /\ 1 \in Int /\ (1 > Size => Size = 0)
    BY <1>1
  <2> QED BY <1>1, <2>1, FS_Interval
<1> HIDE DEF Size
<1>3. \A A, B : IsFiniteSet(A) /\ B \subseteq A /\ B # A =>
        Cardinality(B) \in Nat /\ Cardinality(A) \in Nat /\ Cardinality(B) < Cardinality(A) /\ IsFiniteSet(B)
  <2> TAKE A, B
  <2> HAVE IsFiniteSet(A) /\ B \subseteq A /\ B # A
  <2>1. B \in SUBSET A
    OBVIOUS
  <2>2. IsFiniteSet(B) /\ Cardinality(B) <= Cardinality(A) /\ Cardinality(B) # Cardinality(A)
    BY <2>1, FS_Subset
  <2>3. Cardinality(A) \in Nat /\ Cardinality(B) \in Nat
    BY <2>2, FS_CardinalityType
  <2> QED BY <2>2, <2>3
<1>4. \A k \in 1 .. Size : Above(rank, k) \subseteq 1 .. Size /\ k \notin Above(rank, k)
  BY DEF Above
<1>5. \A k \in 1 .. Size : /\ Cardinality(Above(rank, k)) \in Nat
                           /\ Cardinality(Above(rank, k)) < Size
                           /\ IsFiniteSet(Above(rank, k))
  <2> TAKE k \in 1 .. Size
  <2>1. Above(rank, k) # 1 .. Size
    BY <1>4
  <2> DEFINE A == 1 .. Size
             B == Above(rank, k)
  <2>2. IsFiniteSet(A) /\ B \subseteq A /\ B # A /\ Cardinality(A) = Size
    BY <1>2, <1>4, <2>1
  <2> HIDE DEF A, B
  <2>3. Cardinality(B) \in Nat /\ Cardinality(B) < Size /\ IsFiniteSet(B)
    BY <1>3, <2>2
  <2> QED BY <2>3 DEF B
<1>6. \A j \in 1 .. Size : rank[j] > rank[i] =>
              Cardinality(Above(rank, j)) < Cardinality(Above(rank, i))
  <2> TAKE j \in 1 .. Size
  <2> HAVE rank[j] > rank[i]
  <2>1. Above(rank, j) \subseteq Above(rank, i)
    <3>1. rank[i] \in Nat /\ rank[j] \in Nat /\ \A k \in 1 .. Size : rank[k] \in Nat
      OBVIOUS
    <3> QED BY <3>1 DEF Above
  <2>2. j \in Above(rank, i) /\ j \notin Above(rank, j)
    BY <1>4 DEF Above
  <2> QED BY <1>3, <1>5, <2>1, <2>2
<1> QED BY <1>5, <1>6

\* Where the turns of find have led from i.
Climbing(at, n, rank, c, i) ==
  /\ Rooted(at.parent, rank, c)
  /\ at.i \in 1 .. Size
  /\ c[at.i] = c[i]
  /\ at.parent[at.i] = at.i \/ Cardinality(Above(rank, at.i)) + n < Size

(* A turn keeps what the turns before it did.                                 *)
LEMMA ClimbingOn ==
  ASSUME IsImage, NEW rank, NEW c, NEW i, NEW n \in Nat, NEW at, Climbing(at, n, rank, c, i)
  PROVE  Climbing(Halve(at), n + 1, rank, c, i)
<1> DEFINE k == at.i
           to == Halve(at)
<1>1. /\ Rooted(at.parent, rank, c)
      /\ k \in 1 .. Size
      /\ c[k] = c[i]
      /\ at.parent[k] = k \/ Cardinality(Above(rank, k)) + n < Size
  BY DEF Climbing
<1> HIDE DEF k
<1>2. /\ Rooted(to.parent, rank, c)
      /\ to.i \in 1 .. Size
      /\ c[to.i] = c[k]
      /\ at.parent[k] = k => to = at
      /\ at.parent[k] # k => rank[to.i] > rank[k]
  BY <1>1, HalveClimbs DEF k
<1> HIDE DEF to
<1>3. rank \in [1 .. Size -> Nat]
  BY <1>1 DEF Rooted
<1>4. CASE at.parent[k] = k
  <2>1. to = at
    BY <1>2, <1>4
  <2> QED BY <1>1, <1>4, <2>1 DEF Climbing, to, k
<1>5. CASE at.parent[k] # k
  <2>1. rank[to.i] > rank[k] /\ to.i \in 1 .. Size
    BY <1>2, <1>5
  <2>2. /\ Cardinality(Above(rank, k)) \in Nat
        /\ Cardinality(Above(rank, to.i)) < Cardinality(Above(rank, k))
    BY <1>1, <1>3, <2>1, AboveShrinks
  <2>3. Cardinality(Above(rank, to.i)) \in Nat
    BY <1>3, <2>1, AboveShrinks
  <2>4. Size \in Nat
    BY DEF IsImage, Size
  <2>5. Cardinality(Above(rank, to.i)) + (n + 1) < Size
    <3> HIDE DEF Size
    <3> QED BY <1>1, <1>5, <2>2, <2>3, <2>4
  <2> QED BY <1>1, <1>2, <2>5 DEF Climbing, to
<1> QED BY <1>4, <1>5

(* find ends at the root.                                                     *)
LEMMA ClimbEnds ==
  ASSUME IsImage, NEW parent, NEW rank, NEW c, Rooted(parent, rank, c), NEW i \in 1 .. Size
  PROVE  LET top == Climb(parent, i) IN Rooted(top.parent, rank, c) /\ top.i = c[i]
<1> DEFINE N == Len(parent)
           V == [parent : [1 .. Size -> 1 .. Size], i : 1 .. Size]
           v == [parent |-> parent, i |-> i]
           h == [x \in (1 .. N) \X V |-> Halve(x[2])]
           Eqn(f) == f = [n \in 0 .. Len(parent) |-> IF n = 0 THEN [parent |-> parent, i |-> i]
                                                     ELSE Halve(f[n - 1])]
           it == CHOOSE f : Eqn(f)
<1>1. N = Size /\ N \in Nat
  <2>1. Size \in Nat
    BY DEF IsImage, Size
  <2>2. parent \in [1 .. Size -> 1 .. Size]
    BY DEF Rooted
  <2> HIDE DEF Size
  <2> QED BY <2>1, <2>2, Tuple
<1> HIDE DEF N
<1>2. \A n \in 1 .. N : \A x \in V : h[<<n, x>>] = Halve(x)
  OBVIOUS
<1>3. \A x \in V : Halve(x) \in V
  <2> TAKE x \in V
  <2> DEFINE P == x.parent
             k == x.i
  <2>1. P \in [1 .. Size -> 1 .. Size] /\ k \in 1 .. Size
    OBVIOUS
  <2>2. Halve(x) = IF P[k] = k THEN x ELSE [parent |-> [P EXCEPT ![k] = P[P[k]]], i |-> P[P[k]]]
    BY DEF Halve
  <2> HIDE DEF P, k
  <2>3. P[P[k]] \in 1 .. Size
    BY <2>1
  <2>4. [P EXCEPT ![k] = P[P[k]]] \in [1 .. Size -> 1 .. Size]
    BY <2>1, <2>3
  <2> QED BY <2>2, <2>3, <2>4
<1>4. v \in V
  BY DEF Rooted
<1>5. \E f \in [0 .. N -> V] : f[0] = v /\ \A n \in 1 .. N : f[n] = h[<<n, f[n - 1]>>]
  <2>1. Steps(h, N, V)
    <3> HIDE DEF h, V
    <3> QED BY <1>2, <1>3 DEF Steps
  <2> HIDE DEF h, V, v
  <2> QED BY <1>1, <1>4, <2>1, RecursionExists
<1>6. PICK f \in [0 .. N -> V] : f[0] = v /\ \A n \in 1 .. N : f[n] = h[<<n, f[n - 1]>>]
  BY <1>5
<1> HIDE DEF h, V, v
<1>7. \A n \in 1 .. N : f[n] = Halve(f[n - 1])
  <2>1. \A n \in 1 .. N : n - 1 \in 0 .. N
    BY <1>1
  <2> QED BY <1>2, <1>6, <2>1
<1>8. Eqn(f)
  <2>1. \A n \in 0 .. N : n = 0 \/ n \in 1 .. N
    BY <1>1
  <2>2. \A n \in 0 .. N : f[n] = IF n = 0 THEN v ELSE Halve(f[n - 1])
    BY <1>6, <1>7, <2>1
  <2> QED BY <1>6, <2>2 DEF N, v
<1>9. Eqn(it)
  <2> HIDE DEF Eqn
  <2> QED BY <1>8
<1>10. Climb(parent, i) = it[N]
  BY DEF Climb, N
<1> HIDE DEF it
<1>11. it[0] = v /\ \A n \in 1 .. N : it[n] = Halve(it[n - 1])
  <2>1. 0 \in 0 .. N /\ \A n \in 1 .. N : n \in 0 .. N /\ n # 0
    BY <1>1
  <2> QED BY <1>9, <2>1 DEF v, N
<1> HIDE DEF Eqn
<1> DEFINE Good(n) == Climbing(it[n], n, rank, c, i)
           T == {m \in 0 .. N : ~Good(m)}
<1>12. Good(0)
  <2>1. rank \in [1 .. Size -> Nat]
    BY DEF Rooted
  <2>2. Cardinality(Above(rank, i)) \in Nat /\ Cardinality(Above(rank, i)) < Size
    BY <2>1, AboveShrinks
  <2>3. v.parent = parent /\ v.i = i
    BY DEF v
  <2>4. Cardinality(Above(rank, i)) + 0 < Size
    BY <2>2
  <2> QED BY <1>11, <2>3, <2>4 DEF Climbing
<1>13. T = {}
  <2> SUFFICES ASSUME T # {} PROVE FALSE
    OBVIOUS
  <2>1. T \subseteq Nat
    BY <1>1
  <2>2. PICK m \in T : \A j \in T : m <= j
    <3> HIDE DEF T
    <3> QED BY <2>1, LeastNat
  <2>3. m \in 0 .. N /\ ~Good(m)
    OBVIOUS
  <2> HIDE DEF Good
  <2>4. m \in 1 .. N /\ m - 1 \in 0 .. N /\ m - 1 \in Nat /\ (m - 1) + 1 = m /\ ~(m <= m - 1)
    BY <1>1, <1>12, <2>3
  <2>5. m - 1 \notin T
    <3> HIDE DEF T
    <3> QED BY <2>2, <2>4
  <2>6. Good(m - 1)
    BY <2>4, <2>5
  <2>7. it[m] = Halve(it[m - 1])
    BY <1>11, <2>4
  <2>8. Climbing(Halve(it[m - 1]), (m - 1) + 1, rank, c, i)
    BY <2>4, <2>6, ClimbingOn DEF Good
  <2>9. Good(m)
    BY <2>4, <2>7, <2>8 DEF Good
  <2> QED BY <2>3, <2>9
<1>14. Good(N)
  <2>1. N \in 0 .. N
    BY <1>1
  <2> HIDE DEF Good
  <2> QED BY <1>13, <2>1
<1> DEFINE top == it[N]
<1>15. /\ Rooted(top.parent, rank, c) /\ top.i \in 1 .. Size /\ c[top.i] = c[i]
       /\ top.parent[top.i] = top.i \/ Cardinality(Above(rank, top.i)) + N < Size
  BY <1>14 DEF Climbing
<1> HIDE DEF top
<1>16. top.parent[top.i] = top.i
  <2>1. Cardinality(Above(rank, top.i)) \in Nat
    BY <1>15, AboveShrinks DEF Rooted
  <2> HIDE DEF Size
  <2> QED BY <1>1, <1>15, <2>1
<1>17. top.i = c[i]
  BY <1>15, <1>16 DEF Rooted
<1> QED BY <1>10, <1>15, <1>17 DEF top

\* Forests over the pixels.
UnionFinds == [parent : [1 .. Size -> 1 .. Size], rank : [1 .. Size -> Nat]]

(* Find returns the root of the element and changes no root.                  *)
LEMMA FindEnds ==
  ASSUME IsImage, NEW uf \in UnionFinds, NEW c, Rooted(uf.parent, uf.rank, c), NEW i \in 1 .. Size
  PROVE  LET f == Find(uf, i)
         IN  /\ f.uf \in UnionFinds /\ f.uf.rank = uf.rank
             /\ Rooted(f.uf.parent, uf.rank, c)
             /\ f.root = c[i]
<1> DEFINE top == Climb(uf.parent, i)
           next == [uf EXCEPT !.parent = top.parent]
<1>1. Rooted(top.parent, uf.rank, c) /\ top.i = c[i]
  BY ClimbEnds
<1> HIDE DEF top
<1>2. Find(uf, i) = [uf |-> next, root |-> top.i]
  BY DEF Find, top
<1>3. next.parent = top.parent /\ next.rank = uf.rank /\ next \in UnionFinds
  BY <1>1 DEF UnionFinds, Rooted
<1> HIDE DEF next
<1> QED BY <1>1, <1>2, <1>3

(* union joins two classes and no others.                                     *)
Merged(c, low, high) == [i \in 1 .. Size |-> IF c[i] = low THEN high ELSE c[i]]

(* Union joins the classes of the two elements and no others.                 *)
LEMMA UnionJoins ==
  ASSUME IsImage, NEW uf \in UnionFinds, NEW c, Rooted(uf.parent, uf.rank, c),
         NEW a \in 1 .. Size, NEW b \in 1 .. Size
  PROVE  LET to == Union(uf, a, b)
         IN  \E d : /\ to \in UnionFinds
                    /\ Rooted(to.parent, to.rank, d)
                    /\ d[a] = d[b]
                    /\ \A i, j \in 1 .. Size : c[i] = c[j] => d[i] = d[j]
                    /\ \A i, j \in 1 .. Size : d[i] = d[j] =>
                         \/ c[i] = c[j]
                         \/ c[i] \in {c[a], c[b]} /\ c[j] \in {c[a], c[b]}
<1> DEFINE fa == Find(uf, a)
           fb == Find(fa.uf, b)
           rank == uf.rank
           low == IF rank[fa.root] < rank[fb.root] THEN fa.root ELSE fb.root
           high == IF rank[fa.root] < rank[fb.root] THEN fb.root ELSE fa.root
           to == Union(uf, a, b)
           P == fb.uf.parent
           Q == [P EXCEPT ![low] = high]
           S == [rank EXCEPT ![high] = IF rank[low] = @ THEN @ + 1 ELSE @]
           Says(d) == /\ d[a] = d[b]
                      /\ \A i, j \in 1 .. Size : c[i] = c[j] => d[i] = d[j]
                      /\ \A i, j \in 1 .. Size : d[i] = d[j] =>
                         \/ c[i] = c[j]
                         \/ c[i] \in {c[a], c[b]} /\ c[j] \in {c[a], c[b]}
<1>1. to = IF fa.root = fb.root THEN fb.uf ELSE [parent |-> Q, rank |-> S]
  BY DEF Union
<1>2. /\ fa.uf \in UnionFinds /\ fa.uf.rank = uf.rank
      /\ Rooted(fa.uf.parent, fa.uf.rank, c) /\ fa.root = c[a]
  BY FindEnds
<1> HIDE DEF fa
<1>3. Rooted(P, rank, c) /\ fb.uf.rank = rank /\ fb.root = c[b] /\ fb.uf \in UnionFinds
  BY <1>2, FindEnds
<1> HIDE DEF to, fb, P, rank
<1>4. /\ P \in [1 .. Size -> 1 .. Size]
      /\ rank \in [1 .. Size -> Nat]
      /\ c \in [1 .. Size -> 1 .. Size]
      /\ \A i \in 1 .. Size : /\ c[P[i]] = c[i]
                              /\ c[c[i]] = c[i]
                              /\ P[i] = i <=> c[i] = i
                              /\ P[i] # i => rank[i] < rank[P[i]]
  BY <1>3 DEF Rooted
<1>5. CASE fa.root = fb.root
  <2>1. c[a] = c[b]
    BY <1>2, <1>3, <1>5
  <2>2. to.parent = P /\ to.rank = rank /\ to \in UnionFinds
    BY <1>1, <1>3, <1>5 DEF P
  <2>3. Rooted(to.parent, to.rank, c)
    BY <1>3, <2>2
  <2>4. Says(c)
    BY <2>1
  <2> QED BY <2>2, <2>3, <2>4 DEF to
<1>6. CASE fa.root # fb.root
  <2>1. to.parent = Q /\ to.rank = S
    BY <1>1, <1>6
  <2>2. /\ low \in {c[a], c[b]} /\ high \in {c[a], c[b]} /\ low # high /\ {low, high} = {c[a], c[b]}
        /\ rank[low] <= rank[high]
    <3>1. c[a] \in 1 .. Size /\ c[b] \in 1 .. Size
      BY <1>4
    <3>2. rank[c[a]] \in Nat /\ rank[c[b]] \in Nat
      BY <1>4, <3>1
    <3> QED BY <1>2, <1>3, <1>6, <3>2
  <2> HIDE DEF low, high
  <2>3. /\ low \in 1 .. Size /\ high \in 1 .. Size /\ c[low] = low /\ c[high] = high
        /\ P[low] = low /\ P[high] = high
    <3>1. c[a] \in 1 .. Size /\ c[b] \in 1 .. Size /\ c[c[a]] = c[a] /\ c[c[b]] = c[b]
      BY <1>4
    <3>2. P[c[a]] = c[a] /\ P[c[b]] = c[b]
      BY <1>4, <3>1
    <3> QED BY <2>2, <3>1, <3>2
  <2> DEFINE d == Merged(c, low, high)
  <2>4. \A i \in 1 .. Size : d[i] = IF c[i] = low THEN high ELSE c[i]
    BY DEF Merged
  <2>5. d \in [1 .. Size -> 1 .. Size]
    BY <1>4, <2>3 DEF Merged
  <2> HIDE DEF d
  <2>6. Q \in [1 .. Size -> 1 .. Size] /\ \A i \in 1 .. Size : Q[i] = IF i = low THEN high ELSE P[i]
    BY <1>4, <2>3
  <2>7. /\ S \in [1 .. Size -> Nat]
        /\ \A i \in 1 .. Size : i # high => S[i] = rank[i]
        /\ S[high] >= rank[high] /\ S[high] > rank[low]
    <3>1. rank[low] \in Nat /\ rank[high] \in Nat
      BY <1>4, <2>3
    <3> QED BY <1>4, <2>2, <2>3, <3>1
  <2> HIDE DEF Q, S
  <2>8. ASSUME NEW i \in 1 .. Size
        PROVE  /\ d[Q[i]] = d[i]
               /\ d[d[i]] = d[i]
               /\ Q[i] = i <=> d[i] = i
               /\ Q[i] # i => S[i] < S[Q[i]]
    <3>1. P[i] \in 1 .. Size /\ c[i] \in 1 .. Size
      BY <1>4
    <3>2. d[d[i]] = d[i]
      BY <1>4, <2>2, <2>3, <2>4, <3>1
    <3>3. CASE i = low
      <4>1. Q[i] = high /\ d[i] = high /\ d[high] = high /\ i # high
        BY <2>2, <2>3, <2>4, <2>6, <3>3
      <4>2. S[i] < S[high]
        BY <2>2, <2>7, <3>3, <1>4
      <4> QED BY <3>2, <4>1, <4>2
    <3>4. CASE i # low
      <4>1. Q[i] = P[i]
        BY <2>6, <3>4
      <4>2. d[P[i]] = d[i]
        BY <1>4, <2>4, <3>1
      <4>3. P[i] = i <=> d[i] = i
        BY <1>4, <2>2, <2>3, <2>4, <3>1, <3>4
      <4>4. P[i] # i => S[i] < S[P[i]]
        <5> HAVE P[i] # i
        <5>1. i # high /\ S[i] = rank[i] /\ rank[i] < rank[P[i]]
          BY <1>4, <2>3, <2>7
        <5>2. rank[i] \in Nat /\ rank[P[i]] \in Nat /\ S[P[i]] \in Nat /\ rank[high] \in Nat
          BY <1>4, <2>3, <2>7, <3>1
        <5>3. S[P[i]] >= rank[P[i]]
          BY <2>7, <3>1, <5>2
        <5> QED BY <5>1, <5>2, <5>3
      <4> QED BY <3>2, <4>1, <4>2, <4>3, <4>4
    <3> QED BY <3>3, <3>4
  <2>9. Rooted(to.parent, to.rank, d)
    BY <2>1, <2>5, <2>6, <2>7, <2>8 DEF Rooted
  <2>11. to \in UnionFinds
    BY <1>1, <1>6, <2>6, <2>7 DEF UnionFinds
  <2>10. Says(d)
    BY <2>2, <2>4
  <2> QED BY <2>9, <2>10, <2>11 DEF to
<1> QED BY <1>5, <1>6

(* The numbers of the pixels.                                                 *)
LEMMA PixelNumbers ==
  ASSUME IsImage
  PROVE  /\ Size \in Nat
         /\ \A n \in 1 .. Size : InScanOrder[n] \in Points /\ Flat(InScanOrder[n]) = n
         /\ \A p \in Points : Flat(p) \in 1 .. Size /\ InScanOrder[Flat(p)] = p
<1>1. Width \in Nat /\ Height \in Nat /\ Size \in Nat
  BY DEF IsImage, Size
<1>2. ASSUME NEW n \in 1 .. Size PROVE InScanOrder[n] \in Points /\ Flat(InScanOrder[n]) = n
  <2> DEFINE x == (n - 1) % Width
             y == (n - 1) \div Width
  <2>1. Width > 0
    BY <1>1 DEF Size
  <2>2. x \in 0 .. Width - 1 /\ y \in Int /\ n - 1 = y * Width + x
    <3>1. n - 1 \in Int
      OBVIOUS
    <3> QED BY <1>1, <2>1, <3>1, Z3
  <2>3. InScanOrder[n] = <<x, y>>
    BY DEF InScanOrder, Size
  <2> HIDE DEF x, y
  <2>4. y >= 0
    <3> SUFFICES ASSUME y <= -1 PROVE FALSE
      BY <2>2
    <3>1. -1 - y \in Nat
      BY <2>2
    <3>2. (-1 - y) * Width \in Nat /\ (-1 - y) * Width = -Width - y * Width
      BY <1>1, <2>2, <3>1
    <3> QED BY <1>1, <2>1, <2>2, <3>2
  <2>5. y < Height
    <3> SUFFICES ASSUME y >= Height PROVE FALSE
      BY <1>1, <2>2
    <3>1. y - Height \in Nat
      BY <1>1, <2>2
    <3>2. (y - Height) * Width \in Nat /\ (y - Height) * Width = y * Width - Size
      BY <1>1, <2>2, <3>1 DEF Size
    <3> QED BY <1>1, <2>1, <2>2, <3>2
  <2>6. <<x, y>> \in Points
    BY <1>1, <2>2, <2>4, <2>5 DEF Points
  <2>7. Flat(<<x, y>>) = n
    BY <2>2 DEF Flat
  <2> QED BY <2>3, <2>6, <2>7
<1>3. ASSUME NEW p \in Points PROVE Flat(p) \in 1 .. Size /\ InScanOrder[Flat(p)] = p
  <2> DEFINE x == p[1]
             y == p[2]
             n == Flat(p)
  <2>1. x \in 0 .. Width - 1 /\ y \in 0 .. Height - 1 /\ p = <<x, y>>
    BY DEF Points
  <2>2. n = y * Width + x + 1
    BY DEF Flat
  <2> HIDE DEF x, y, n
  <2>3. y * Width \in Nat /\ y \in Nat /\ x \in Nat
    BY <1>1, <2>1
  <2>4. n \in 1 .. Size
    <3>1. Height - 1 - y \in Nat
      BY <1>1, <2>1
    <3>2. (Height - 1 - y) * Width \in Nat /\ (Height - 1 - y) * Width = Size - Width - y * Width
      BY <1>1, <2>1, <3>1 DEF Size
    <3> QED BY <1>1, <2>1, <2>2, <2>3, <3>2
  <2>5. n - 1 = y * Width + x
    BY <1>1, <2>2, <2>3
  <2>6. (n - 1) % Width = x /\ (n - 1) \div Width = y
    BY <1>1, <2>1, <2>3, <2>5, RowAndColumn
  <2>7. InScanOrder[n] = <<(n - 1) % Width, (n - 1) \div Width>>
    BY <2>4 DEF InScanOrder, Size
  <2> QED BY <2>1, <2>4, <2>6, <2>7 DEF n
<1> QED BY <1>1, <1>2, <1>3

-----------------------------------------------------------------------------
(* What the loop over the pixels joins: whatever is next to each other        *)
(* (ComponentsJoined), and nothing that another grouping of the pixels keeps  *)
(* apart (Within). A blob is the least set that holds its pixel and is closed *)
(* under neighbours, so it is such a group and a class of the union-find as   *)
(* well.                                                                      *)

\* q is the right or the lower neighbour of p, and both are marked.
Beside(p, q) == /\ Marked(p) /\ Marked(q) /\ q \in Points
                /\ q = <<p[1] + 1, p[2]>> \/ q = <<p[1], p[2] + 1>>

\* Elements of one class are in one group.
Within(c, g) == \A i, j \in 1 .. Size : c[i] = c[j] => g[i] = g[j]

\* Classes that were one stay one.
Coarser(d, c) == \A i, j \in 1 .. Size : c[i] = c[j] => d[i] = d[j]

\* c are the roots of uf, and no class is larger than its group.
Classes(uf, c, g) == uf \in UnionFinds /\ Rooted(uf.parent, uf.rank, c) /\ Within(c, g)

(* A union of two elements of a group stays within the grouping.              *)
LEMMA UnionWithin ==
  ASSUME IsImage, NEW uf, NEW c, NEW g, Classes(uf, c, g),
         NEW a \in 1 .. Size, NEW b \in 1 .. Size, g[a] = g[b]
  PROVE  \E d : Classes(Union(uf, a, b), d, g) /\ Coarser(d, c) /\ d[a] = d[b]
<1> DEFINE to == Union(uf, a, b)
<1>1. uf \in UnionFinds /\ Rooted(uf.parent, uf.rank, c) /\ Within(c, g)
  BY DEF Classes
<1>2. PICK d : /\ to \in UnionFinds
               /\ Rooted(to.parent, to.rank, d)
               /\ d[a] = d[b]
               /\ \A i, j \in 1 .. Size : c[i] = c[j] => d[i] = d[j]
               /\ \A i, j \in 1 .. Size : d[i] = d[j] =>
                    \/ c[i] = c[j]
                    \/ c[i] \in {c[a], c[b]} /\ c[j] \in {c[a], c[b]}
  BY <1>1, UnionJoins
<1> HIDE DEF to
<1>3. Within(d, g)
  BY <1>1, <1>2 DEF Within
<1> QED BY <1>2, <1>3 DEF Classes, Coarser, to

(* After its turn a pixel is in the class of its right and of its lower       *)
(* neighbour.                                                                 *)
LEMMA PixelJoins ==
  ASSUME IsImage, NEW uf, NEW c, NEW g, Classes(uf, c, g), NEW p \in Points,
         \A q : Beside(p, q) => g[Flat(p)] = g[Flat(q)]
  PROVE  \E d : /\ Classes(JoinPixel(uf, p), d, g) /\ Coarser(d, c)
                /\ \A q : Beside(p, q) => d[Flat(p)] = d[Flat(q)]
<1> DEFINE i == Flat(p)
           e == <<p[1] + 1, p[2]>>
           s == <<p[1], p[2] + 1>>
           East == p[1] + 1 < Width /\ Marked(e)
           South == p[2] + 1 < Height /\ Marked(s)
           right == IF East THEN Union(uf, i, i + 1) ELSE uf
           to == JoinPixel(uf, p)
<1>1. to = IF ~Marked(p) THEN uf ELSE IF South THEN Union(right, i, i + Width) ELSE right
  BY DEF JoinPixel
<1>2. p[1] \in Int /\ p[2] \in Int /\ 0 <= p[1] /\ p[1] < Width /\ 0 <= p[2] /\ p[2] < Height
  BY DEF Points, IsImage
<1>3. /\ e \in Points <=> p[1] + 1 < Width
      /\ s \in Points <=> p[2] + 1 < Height
  BY <1>2 DEF Points, IsImage
<1>4. Flat(e) = i + 1 /\ Flat(s) = i + Width
  <2>1. Flat(e) = p[2] * Width + (p[1] + 1) + 1 /\ Flat(s) = (p[2] + 1) * Width + p[1] + 1
    BY DEF Flat
  <2>2. i = p[2] * Width + p[1] + 1
    BY DEF Flat
  <2> HIDE DEF i, e, s
  <2>3. Width \in Int /\ p[2] * Width \in Int /\ (p[2] + 1) * Width = p[2] * Width + Width
    BY <1>2 DEF IsImage
  <2> QED BY <1>2, <2>1, <2>2, <2>3
<1>5. \A q \in Points : Flat(q) \in 1 .. Size
  BY PixelNumbers
<1>6. \A q : Beside(p, q) <=> Marked(p) /\ ((q = e /\ East) \/ (q = s /\ South))
  BY <1>3 DEF Beside
<1> HIDE DEF to, right, i, e, s
<1>7. CASE ~Marked(p)
  BY <1>1, <1>6, <1>7 DEF Coarser, to
<1>8. CASE Marked(p)
  <2>1. i \in 1 .. Size
    BY <1>5 DEF i
  <2>2. PICK d : Classes(right, d, g) /\ Coarser(d, c) /\ (East => d[i] = d[i + 1])
    <3>1. CASE East
      <4>1. e \in Points /\ Beside(p, e)
        BY <1>3, <1>6, <1>8, <3>1
      <4>2. i + 1 \in 1 .. Size /\ g[i] = g[i + 1]
        BY <1>4, <1>5, <4>1 DEF i
      <4>3. right = Union(uf, i, i + 1)
        BY <3>1 DEF right
      <4> HIDE DEF East
      <4> QED BY <2>1, <4>2, <4>3, UnionWithin
    <3>2. CASE ~East
      <4>1. right = uf
        BY <3>2 DEF right
      <4> QED BY <3>2, <4>1 DEF Coarser
    <3> QED BY <3>1, <3>2
  <2>3. \E f : Classes(to, f, g) /\ Coarser(f, d) /\ (South => f[i] = f[i + Width])
    <3>1. CASE South
      <4>1. s \in Points /\ Beside(p, s)
        BY <1>3, <1>6, <1>8, <3>1
      <4>2. i + Width \in 1 .. Size /\ g[i] = g[i + Width]
        BY <1>4, <1>5, <4>1 DEF i
      <4>3. to = Union(right, i, i + Width)
        BY <1>1, <1>8, <3>1
      <4> HIDE DEF South
      <4> QED BY <2>1, <2>2, <4>2, <4>3, UnionWithin
    <3>2. CASE ~South
      <4>1. to = right
        BY <1>1, <1>8, <3>2
      <4> QED BY <2>2, <3>2, <4>1 DEF Coarser
    <3> QED BY <3>1, <3>2
  <2>4. PICK f : Classes(to, f, g) /\ Coarser(f, d) /\ (South => f[i] = f[i + Width])
    BY <2>3
  <2>5. Coarser(f, c)
    BY <2>2, <2>4 DEF Coarser
  <2>6. \A q : Beside(p, q) => f[i] = f[Flat(q)]
    <3>1. East => f[i] = f[i + 1]
      <4> HAVE East
      <4>1. e \in Points
        BY <1>3
      <4>2. i + 1 \in 1 .. Size
        BY <1>4, <1>5, <4>1
      <4> QED BY <2>1, <2>2, <2>4, <4>2 DEF Coarser
    <3> QED BY <1>4, <1>6, <2>4, <3>1
  <2> QED BY <2>4, <2>5, <2>6 DEF to, i
<1> QED BY <1>7, <1>8

\* After the first n pixels.
JoinedSoFar(uf, n, g) ==
  \E c : /\ Classes(uf, c, g)
         /\ \A k \in 1 .. n : \A q : Beside(InScanOrder[k], q) => c[k] = c[Flat(q)]

\* Neighbours are in one group.
Grouped(g) == \A p \in Points : \A q : Beside(p, q) => g[Flat(p)] = g[Flat(q)]

(* A turn of the loop joins what its pixel asks for and parts nothing.        *)
LEMMA JoinedMore ==
  ASSUME IsImage, NEW g, Grouped(g), NEW n \in 1 .. Size, NEW uf, JoinedSoFar(uf, n - 1, g)
  PROVE  JoinedSoFar(JoinPixel(uf, InScanOrder[n]), n, g)
<1> DEFINE p == InScanOrder[n]
           to == JoinPixel(uf, p)
<1>1. p \in Points /\ Flat(p) = n
  BY PixelNumbers
<1>2. PICK c : /\ Classes(uf, c, g)
               /\ \A k \in 1 .. n - 1 : \A q : Beside(InScanOrder[k], q) => c[k] = c[Flat(q)]
  BY DEF JoinedSoFar
<1>3. \A q : Beside(p, q) => g[Flat(p)] = g[Flat(q)]
  BY <1>1 DEF Grouped
<1> HIDE DEF p
<1>4. PICK d : /\ Classes(to, d, g) /\ Coarser(d, c)
               /\ \A q : Beside(p, q) => d[Flat(p)] = d[Flat(q)]
  BY <1>1, <1>2, <1>3, PixelJoins
<1> HIDE DEF to
<1>5. ASSUME NEW k \in 1 .. n, NEW q, Beside(InScanOrder[k], q) PROVE d[k] = d[Flat(q)]
  <2>1. CASE k = n
    BY <1>1, <1>4, <1>5, <2>1 DEF p
  <2>2. CASE k # n
    <3>1. k \in 1 .. n - 1 /\ k \in 1 .. Size
      BY <2>2, PixelNumbers
    <3>2. q \in Points
      BY <1>5 DEF Beside
    <3>3. Flat(q) \in 1 .. Size
      BY <3>2, PixelNumbers
    <3>4. c[k] = c[Flat(q)]
      BY <1>2, <1>5, <3>1
    <3> QED BY <1>4, <3>1, <3>3, <3>4 DEF Coarser
  <2> QED BY <2>1, <2>2
<1> QED BY <1>4, <1>5 DEF JoinedSoFar, to, p

(* The loop starts with a class for each pixel.                               *)
LEMMA JoinedAtFirst == ASSUME IsImage, NEW g PROVE JoinedSoFar(NewUnionFind, 0, g)
<1> DEFINE P == [i \in 1 .. Width * Height |-> i]
           R == [i \in 1 .. Width * Height |-> 0]
<1>1. Size \in Nat
  BY PixelNumbers
<1>2. P \in [1 .. Size -> 1 .. Size] /\ R \in [1 .. Size -> Nat] /\ \A i \in 1 .. Size : P[i] = i /\ R[i] = 0
  BY DEF Size
<1> HIDE DEF P, R
<1>3. P \in Seq(1 .. Size) /\ R \in Seq(Nat)
  <2> HIDE DEF Size
  <2> QED BY <1>1, <1>2, Tuple
<1>4. <<>> \o P = P /\ <<>> \o R = R
  BY <1>3, ConcatEmptySeq
<1>5. NewUnionFind = [parent |-> P, rank |-> R]
  BY <1>4 DEF NewUnionFind, P, R
<1>6. NewUnionFind \in UnionFinds
  BY <1>2, <1>5 DEF UnionFinds
<1>7. Rooted(P, R, P)
  BY <1>2 DEF Rooted
<1>8. Within(P, g)
  BY <1>2 DEF Within
<1>9. Classes(NewUnionFind, P, g)
  BY <1>5, <1>6, <1>7, <1>8 DEF Classes
<1>10. 1 .. 0 = {}
  OBVIOUS
<1> QED BY <1>9, <1>10 DEF JoinedSoFar

(* The classes that are left in the end.                                      *)
LEMMA ComponentsJoined ==
  ASSUME IsImage, NEW g, Grouped(g)
  PROVE  JoinedSoFar(Components, Size, g)
<1> DEFINE N == Size
           V == {uf \in UnionFinds : \E c : Classes(uf, c, g)}
           v == NewUnionFind
           h == [x \in (1 .. N) \X V |-> JoinPixel(x[2], InScanOrder[x[1]])]
           Eqn(f) == f = [n \in 0 .. Width * Height |-> IF n = 0 THEN NewUnionFind
                                                        ELSE JoinPixel(f[n - 1], InScanOrder[n])]
           it == CHOOSE f : Eqn(f)
<1>1. N \in Nat
  BY PixelNumbers
<1>2. \A n \in 1 .. N : \A x \in V : h[<<n, x>>] = JoinPixel(x, InScanOrder[n])
  OBVIOUS
<1>3. ASSUME NEW n \in 1 .. N, NEW x \in V PROVE JoinPixel(x, InScanOrder[n]) \in V
  <2>1. PICK c : Classes(x, c, g)
    OBVIOUS
  <2> DEFINE p == InScanOrder[n]
  <2>2. p \in Points
    BY PixelNumbers
  <2>3. \A q : Beside(p, q) => g[Flat(p)] = g[Flat(q)]
    BY <2>2 DEF Grouped
  <2> HIDE DEF p, V
  <2>4. PICK d : Classes(JoinPixel(x, p), d, g)
    BY <2>1, <2>2, <2>3, PixelJoins
  <2>5. JoinPixel(x, p) \in V
    BY <2>4 DEF V, Classes
  <2> QED BY <2>5 DEF p
<1>4. v \in V
  <2> HIDE DEF v
  <2>1. PICK c : Classes(v, c, g)
    BY JoinedAtFirst DEF JoinedSoFar, v
  <2> QED BY <2>1 DEF Classes
<1>5. \E f \in [0 .. N -> V] : f[0] = v /\ \A n \in 1 .. N : f[n] = h[<<n, f[n - 1]>>]
  <2>1. Steps(h, N, V)
    <3> HIDE DEF h, V, N
    <3> QED BY <1>2, <1>3 DEF Steps
  <2> HIDE DEF h, V, v, N
  <2> QED BY <1>1, <1>4, <2>1, RecursionExists
<1> HIDE DEF h, V, N
<1>6. PICK f \in [0 .. N -> V] : f[0] = v /\ \A n \in 1 .. N : f[n] = h[<<n, f[n - 1]>>]
  BY <1>5
<1>7. \A n \in 1 .. N : f[n] = JoinPixel(f[n - 1], InScanOrder[n])
  <2>1. \A n \in 1 .. N : n - 1 \in 0 .. N
    BY <1>1
  <2> QED BY <1>2, <1>6, <2>1
<1>8. Eqn(f)
  <2>1. \A n \in 0 .. N : n = 0 \/ n \in 1 .. N
    BY <1>1
  <2> HIDE DEF v
  <2>2. \A n \in 0 .. N : f[n] = IF n = 0 THEN v ELSE JoinPixel(f[n - 1], InScanOrder[n])
    BY <1>6, <1>7, <2>1
  <2> QED BY <1>6, <2>2 DEF N, v, Size
<1>9. Eqn(it)
  <2> HIDE DEF Eqn
  <2> QED BY <1>8
<1>10. Components = it[N]
  BY DEF Components, Joined, N, Size
<1> HIDE DEF it
<1>11. it[0] = v /\ \A n \in 1 .. N : it[n] = JoinPixel(it[n - 1], InScanOrder[n])
  <2>1. 0 \in 0 .. N /\ \A n \in 1 .. N : n \in 0 .. N /\ n # 0
    BY <1>1
  <2>2. N = Width * Height
    BY DEF N, Size
  <2> HIDE DEF v
  <2>3. it = [n \in 0 .. N |-> IF n = 0 THEN v ELSE JoinPixel(it[n - 1], InScanOrder[n])]
    BY <1>9, <2>2 DEF v
  <2> QED BY <2>1, <2>3
<1> HIDE DEF Eqn, v
<1> DEFINE T == {m \in 0 .. N : ~JoinedSoFar(it[m], m, g)}
<1>12. JoinedSoFar(it[0], 0, g)
  BY <1>11, JoinedAtFirst DEF v
<1>13. T = {}
  <2> SUFFICES ASSUME T # {} PROVE FALSE
    OBVIOUS
  <2>1. T \subseteq Nat
    BY <1>1
  <2>2. PICK m \in T : \A j \in T : m <= j
    <3> HIDE DEF T
    <3> QED BY <2>1, LeastNat
  <2>3. m \in 0 .. N /\ ~JoinedSoFar(it[m], m, g)
    OBVIOUS
  <2>4. m \in 1 .. N /\ m - 1 \in 0 .. N /\ ~(m <= m - 1)
    BY <1>1, <1>12, <2>3
  <2>5. m - 1 \notin T
    <3> HIDE DEF T
    <3> QED BY <2>2, <2>4
  <2>6. JoinedSoFar(it[m - 1], m - 1, g)
    BY <2>4, <2>5
  <2>7. JoinedSoFar(JoinPixel(it[m - 1], InScanOrder[m]), m, g)
    BY <2>4, <2>6, JoinedMore DEF N
  <2> QED BY <1>11, <2>3, <2>4, <2>7
<1>14. N \in 0 .. N
  BY <1>1
<1>15. JoinedSoFar(it[N], N, g)
  BY <1>13, <1>14
<1> QED BY <1>10, <1>15 DEF N

\* The marked pixels are pixels of the image.
IsMarked == IsImage /\ upload.marked \subseteq Points

\* No marked pixel outside touches one inside.
Closed(b) == \A r \in b : \A q \in upload.marked : Touch(q, r) => q \in b

(* An image has finitely many pixels.                                         *)
LEMMA PointsFinite == ASSUME IsImage PROVE IsFiniteSet(Points)
<1>1. Width - 1 \in Int /\ Height - 1 \in Int
  BY DEF IsImage
<1>2. IsFiniteSet(0 .. Width - 1) /\ IsFiniteSet(0 .. Height - 1)
  BY <1>1, FS_Interval
<1> QED BY <1>2, FS_Product DEF Points

(* The blob of a pixel is the least set of marked ones that holds it and is   *)
(* closed under neighbours.                                                   *)
LEMMA BlobIsLeast ==
  ASSUME IsMarked, NEW p \in upload.marked
  PROVE  /\ p \in Blob(p) /\ Blob(p) \subseteq upload.marked /\ Closed(Blob(p))
         /\ \A S : p \in S /\ Closed(S) => Blob(p) \subseteq S
<1> DEFINE N == Cardinality(upload.marked)
           V == SUBSET upload.marked
           v == {p}
           h == [x \in (1 .. N) \X V |-> Grown(x[2])]
           Eqn(f) == f = [n \in 0 .. Cardinality(upload.marked) |->
                            IF n = 0 THEN {p} ELSE Grown(f[n - 1])]
           it == CHOOSE f : Eqn(f)
<1>0. IsFiniteSet(upload.marked)
  <2>1. upload.marked \in SUBSET Points
    BY DEF IsMarked
  <2> QED BY <2>1, PointsFinite, FS_Subset DEF IsMarked
<1>1. N \in Nat
  BY <1>0, FS_CardinalityType
<1>2. \A n \in 1 .. N : \A x \in V : h[<<n, x>>] = Grown(x)
  OBVIOUS
<1>3. \A x \in V : Grown(x) \in V
  BY DEF Grown
<1>4. v \in V
  OBVIOUS
<1>5. \E f \in [0 .. N -> V] : f[0] = v /\ \A n \in 1 .. N : f[n] = h[<<n, f[n - 1]>>]
  <2>1. Steps(h, N, V)
    <3> HIDE DEF h, V, N
    <3> QED BY <1>2, <1>3 DEF Steps
  <2> HIDE DEF h, V, v, N
  <2> QED BY <1>1, <1>4, <2>1, RecursionExists
<1> HIDE DEF h, V, N
<1>6. PICK f \in [0 .. N -> V] : f[0] = v /\ \A n \in 1 .. N : f[n] = h[<<n, f[n - 1]>>]
  BY <1>5
<1>7. \A n \in 1 .. N : f[n] = Grown(f[n - 1])
  <2>1. \A n \in 1 .. N : n - 1 \in 0 .. N
    BY <1>1
  <2> QED BY <1>2, <1>6, <2>1
<1>8. Eqn(f)
  <2>1. \A n \in 0 .. N : n = 0 \/ n \in 1 .. N
    BY <1>1
  <2> HIDE DEF v
  <2>2. \A n \in 0 .. N : f[n] = IF n = 0 THEN v ELSE Grown(f[n - 1])
    BY <1>6, <1>7, <2>1
  <2> QED BY <1>6, <2>2 DEF N, v
<1>9. Eqn(it)
  <2> HIDE DEF Eqn
  <2> QED BY <1>8
<1>10. Blob(p) = it[N]
  BY DEF Blob, N
<1> HIDE DEF it
<1>11. it[0] = v /\ \A n \in 1 .. N : it[n] = Grown(it[n - 1])
  <2>1. 0 \in 0 .. N /\ \A n \in 1 .. N : n \in 0 .. N /\ n # 0
    BY <1>1
  <2> HIDE DEF v
  <2>2. it = [n \in 0 .. N |-> IF n = 0 THEN v ELSE Grown(it[n - 1])]
    BY <1>9 DEF v, N
  <2> QED BY <2>1, <2>2
<1> HIDE DEF Eqn
<1> DEFINE Good(n) == /\ it[n] \in V /\ p \in it[n]
                      /\ \A S : p \in S /\ Closed(S) => it[n] \subseteq S
                      /\ Grown(it[n]) = it[n] \/ Cardinality(it[n]) > n
           T == {m \in 0 .. N : ~Good(m)}
<1>12. Good(0)
  <2>0. Cardinality({p}) = 1
    BY FS_Singleton
  <2>1. Cardinality({p}) > 0
    BY <2>0
  <2> QED BY <1>4, <1>11, <2>1
<1>13. ASSUME NEW m \in 1 .. N, Good(m - 1) PROVE Good(m)
  <2> DEFINE a == it[m - 1]
             b == it[m]
  <2>1. /\ a \in V /\ p \in a
        /\ \A S : p \in S /\ Closed(S) => a \subseteq S
        /\ Grown(a) = a \/ Cardinality(a) > m - 1
    BY <1>13
  <2>2. b = Grown(a)
    BY <1>11
  <2> HIDE DEF a
  <2>3. b \in V /\ a \subseteq b /\ p \in b
    BY <1>3, <2>1, <2>2 DEF Grown
  <2>4. \A S : p \in S /\ Closed(S) => b \subseteq S
    <3> TAKE S
    <3> HAVE p \in S /\ Closed(S)
    <3>1. a \subseteq S
      BY <2>1
    <3> QED BY <2>2, <3>1 DEF Grown, Closed
  <2>5. Grown(b) = b \/ Cardinality(b) > m
    <3>1. CASE Grown(a) = a
      BY <2>2, <3>1
    <3>2. CASE Grown(a) # a
      <4>1. a # b /\ a \in SUBSET b /\ b \in SUBSET upload.marked
        BY <2>2, <2>3, <3>2 DEF V
      <4>2. IsFiniteSet(b)
        BY <1>0, <4>1, FS_Subset
      <4>3. IsFiniteSet(a) /\ Cardinality(a) <= Cardinality(b) /\ Cardinality(a) # Cardinality(b)
        BY <4>1, <4>2, FS_Subset
      <4>4. Cardinality(a) \in Nat /\ Cardinality(b) \in Nat
        BY <4>2, <4>3, FS_CardinalityType
      <4>5. m \in Int /\ Cardinality(a) > m - 1
        BY <1>1, <2>1, <3>2
      <4> HIDE DEF b
      <4> QED BY <4>3, <4>4, <4>5
    <3> QED BY <3>1, <3>2
  <2> QED BY <2>3, <2>4, <2>5
<1> HIDE DEF Good
<1>14. T = {}
  <2> SUFFICES ASSUME T # {} PROVE FALSE
    OBVIOUS
  <2>1. T \subseteq Nat
    BY <1>1
  <2>2. PICK m \in T : \A j \in T : m <= j
    <3> HIDE DEF T
    <3> QED BY <2>1, LeastNat
  <2>3. m \in 0 .. N /\ ~Good(m)
    OBVIOUS
  <2>4. m \in 1 .. N /\ m - 1 \in 0 .. N /\ ~(m <= m - 1)
    BY <1>1, <1>12, <2>3
  <2>5. m - 1 \notin T
    <3> HIDE DEF T
    <3> QED BY <2>2, <2>4
  <2>6. Good(m - 1)
    BY <2>4, <2>5
  <2> QED BY <1>13, <2>3, <2>4, <2>6
<1>15. Good(N)
  <2>1. N \in 0 .. N
    BY <1>1
  <2> QED BY <1>14, <2>1
<1> DEFINE b == it[N]
<1>16. /\ b \in SUBSET upload.marked /\ p \in b
       /\ \A S : p \in S /\ Closed(S) => b \subseteq S
       /\ Grown(b) = b \/ Cardinality(b) > N
  BY <1>15 DEF Good, V
<1> HIDE DEF b
<1>17. Grown(b) = b
  <2>1. Cardinality(b) <= N /\ IsFiniteSet(b)
    BY <1>0, <1>16, FS_Subset DEF N
  <2>2. Cardinality(b) \in Nat
    BY <2>1, FS_CardinalityType
  <2> QED BY <1>1, <1>16, <2>1, <2>2
<1>18. Closed(b)
  BY <1>17 DEF Closed, Grown
<1> QED BY <1>10, <1>16, <1>18 DEF b

(* Pixels touch each other.                                                   *)
LEMMA TouchBothWays ==
  ASSUME IsImage, NEW p \in Points, NEW q \in Points, Touch(p, q) PROVE Touch(q, p)
BY DEF IsImage, Points, Touch

(* Blobs are the same or have nothing in common.                              *)
LEMMA BlobsApart ==
  ASSUME IsMarked, NEW p \in upload.marked, NEW q \in Blob(p)
  PROVE  Blob(q) = Blob(p)
<1>1. \A r \in upload.marked :
        /\ r \in Blob(r) /\ Blob(r) \subseteq upload.marked /\ Closed(Blob(r))
        /\ \A S : r \in S /\ Closed(S) => Blob(r) \subseteq S
  BY BlobIsLeast
<1>2. \A r \in upload.marked : \A s \in Blob(r) : Blob(s) \subseteq Blob(r)
  BY <1>1
<1> DEFINE S == {r \in upload.marked : p \in Blob(r)}
<1>3. p \in S
  BY <1>1
<1>4. Closed(S)
  <2> SUFFICES ASSUME NEW r \in S, NEW s \in upload.marked, Touch(s, r) PROVE s \in S
    BY DEF Closed
  <2>1. Touch(r, s)
    BY TouchBothWays DEF IsMarked
  <2>2. r \in Blob(s)
    BY <1>1, <2>1 DEF Closed
  <2> QED BY <1>2, <2>2
<1>5. Blob(p) \subseteq S
  BY <1>1, <1>3, <1>4
<1>6. q \in upload.marked /\ p \in Blob(q)
  BY <1>5
<1> QED BY <1>2, <1>6

(* What detect gathers under one root is one blob.                            *)
LEMMA RootsTellBlobs ==
  ASSUME IsMarked
  PROVE  \E c : /\ Components \in UnionFinds
                /\ Rooted(Components.parent, Components.rank, c)
                /\ \A p, q \in upload.marked : c[Flat(p)] = c[Flat(q)] <=> q \in Blob(p)
<1> DEFINE g == [i \in 1 .. Size |-> IF Marked(InScanOrder[i]) THEN Blob(InScanOrder[i]) ELSE {}]
           marked == upload.marked
<1>1. /\ IsImage /\ marked \subseteq Points
      /\ \A p \in Points : Flat(p) \in 1 .. Size /\ InScanOrder[Flat(p)] = p
  BY PixelNumbers DEF IsMarked
<1>2. \A p \in marked : g[Flat(p)] = Blob(p)
  BY <1>1 DEF Marked
<1>3. \A p \in marked : /\ p \in Blob(p) /\ Blob(p) \subseteq marked /\ Closed(Blob(p))
                        /\ \A q \in Blob(p) : Blob(q) = Blob(p)
                        /\ \A S : p \in S /\ Closed(S) => Blob(p) \subseteq S
  BY BlobIsLeast, BlobsApart
<1> HIDE DEF g
<1>4. \A p, q : Beside(p, q) => p \in marked /\ q \in marked /\ (p \in Points => Touch(q, p))
  BY <1>1 DEF Beside, Marked, Touch, Points, IsImage
<1>5. Grouped(g)
  <2> SUFFICES ASSUME NEW p \in Points, NEW q, Beside(p, q) PROVE g[Flat(p)] = g[Flat(q)]
    BY DEF Grouped
  <2>1. p \in marked /\ q \in marked /\ Touch(q, p)
    BY <1>4
  <2>2. q \in Blob(p)
    BY <1>3, <2>1 DEF Closed
  <2> QED BY <1>2, <1>3, <2>1, <2>2
<1>6. PICK c : /\ Classes(Components, c, g)
               /\ \A k \in 1 .. Size : \A q : Beside(InScanOrder[k], q) => c[k] = c[Flat(q)]
  BY <1>1, <1>5, ComponentsJoined DEF JoinedSoFar
<1>7. \A p \in Points : \A q : Beside(p, q) => c[Flat(p)] = c[Flat(q)]
  BY <1>1, <1>6
<1>8. \A p, q \in marked : Touch(q, p) => c[Flat(p)] = c[Flat(q)]
  <2> TAKE p, q \in marked
  <2> HAVE Touch(q, p)
  <2>1. Beside(p, q) \/ Beside(q, p)
    <3>1. p = <<p[1], p[2]>> /\ q = <<q[1], q[2]>> /\ p \in Points /\ q \in Points
      BY <1>1 DEF Points
    <3>2. p[1] \in Int /\ p[2] \in Int /\ q[1] \in Int /\ q[2] \in Int
      BY <3>1 DEF Points, IsImage
    <3>3. \/ q[1] = p[1] + 1 /\ q[2] = p[2]
          \/ q[1] = p[1] /\ q[2] = p[2] + 1
          \/ p[1] = q[1] + 1 /\ p[2] = q[2]
          \/ p[1] = q[1] /\ p[2] = q[2] + 1
      BY <3>2 DEF Touch
    <3>4. \/ q = <<p[1] + 1, p[2]>>
          \/ q = <<p[1], p[2] + 1>>
          \/ p = <<q[1] + 1, q[2]>>
          \/ p = <<q[1], q[2] + 1>>
      BY <3>1, <3>3
    <3> QED BY <3>1, <3>4 DEF Beside, Marked
  <2> QED BY <1>1, <1>7, <2>1
<1>9. ASSUME NEW p \in marked, NEW q \in marked, c[Flat(p)] = c[Flat(q)] PROVE q \in Blob(p)
  <2>1. Flat(p) \in 1 .. Size /\ Flat(q) \in 1 .. Size
    BY <1>1
  <2>2. g[Flat(p)] = g[Flat(q)]
    BY <1>6, <1>9, <2>1 DEF Classes, Within
  <2> QED BY <1>2, <1>3, <2>2
<1>10. ASSUME NEW p \in marked, NEW q \in Blob(p) PROVE c[Flat(p)] = c[Flat(q)]
  <2> DEFINE S == {r \in marked : c[Flat(p)] = c[Flat(r)]}
  <2>1. p \in S /\ Closed(S)
    BY <1>8 DEF Closed
  <2>2. Blob(p) \subseteq S
    <3> HIDE DEF S
    <3> QED BY <1>3, <2>1
  <2> QED BY <2>2
<1> QED BY <1>6, <1>9, <1>10 DEF Classes

-----------------------------------------------------------------------------
(* Boxes, sorted.                                                             *)

\* A box that is not empty and within the image.
IsBox(r) == /\ IsRect(r)
            /\ 0 <= r.x0 /\ r.x0 < r.x1 /\ r.x1 <= Width
            /\ 0 <= r.y0 /\ r.y0 < r.y1 /\ r.y1 <= Height

(* A box has as many pixels as its area says.                                 *)
LEMMA BoxArea == ASSUME IsImage, NEW r, IsBox(r) PROVE Cardinality(In(r)) = Area(r)
<1>1. /\ r.x0 \in Nat /\ r.y0 \in Nat /\ r.x1 \in Nat /\ r.y1 \in Nat
      /\ r.x0 < r.x1 /\ r.y0 < r.y1 /\ r.x1 <= Width /\ r.y1 <= Height
      /\ Width \in Nat /\ Height \in Nat
  BY DEF IsBox, IsRect, IsImage
<1> DEFINE X == r.x0 .. r.x1 - 1
           Y == r.y0 .. r.y1 - 1
<1>2. In(r) = X \X Y
  BY <1>1 DEF In, Points
<1>3. IsFiniteSet(X) /\ Cardinality(X) = r.x1 - r.x0
  <2>1. r.x0 \in Int /\ r.x1 - 1 \in Int /\ ~(r.x0 > r.x1 - 1) /\ (r.x1 - 1) - r.x0 + 1 = r.x1 - r.x0
    BY <1>1
  <2> QED BY <2>1, FS_Interval
<1>4. IsFiniteSet(Y) /\ Cardinality(Y) = r.y1 - r.y0
  <2>1. r.y0 \in Int /\ r.y1 - 1 \in Int /\ ~(r.y0 > r.y1 - 1) /\ (r.y1 - 1) - r.y0 + 1 = r.y1 - r.y0
    BY <1>1
  <2> QED BY <2>1, FS_Interval
<1> HIDE DEF X, Y
<1>5. Cardinality(X \X Y) = Cardinality(X) * Cardinality(Y)
  BY <1>3, <1>4, FS_Product
<1> QED BY <1>2, <1>3, <1>4, <1>5 DEF Area

(* The bounding box of pixels.                                                *)
LEMMA BoxIsHull ==
  ASSUME IsImage, NEW ps, ps \subseteq Points, ps # {}
  PROVE  /\ IsBox(BoundingRect(ps)) /\ In(BoundingRect(ps)) = Hull(ps)
         /\ Cardinality(Hull(ps)) = Area(BoundingRect(ps))
<1> DEFINE X == {p[1] : p \in ps}
           Y == {p[2] : p \in ps}
           r == BoundingRect(ps)
<1>1. Width \in Nat /\ Height \in Nat
  BY DEF IsImage
<1>2. \A p \in Points : p[1] \in 0 .. Width - 1 /\ p[2] \in 0 .. Height - 1
  BY DEF Points
<1>3. X \subseteq 0 .. Width - 1 /\ Y \subseteq 0 .. Height - 1 /\ X # {} /\ Y # {}
  BY <1>2
<1>4. r.x0 = Min(X) /\ r.y0 = Min(Y) /\ r.x1 = Max(X) + 1 /\ r.y1 = Max(Y) + 1
  BY DEF BoundingRect, Rect
<1>5. \A x : x \in X <=> \E p \in ps : p[1] = x
  OBVIOUS
<1>6. \A y : y \in Y <=> \E p \in ps : p[2] = y
  OBVIOUS
<1> HIDE DEF X, Y, r
<1>7. Width - 1 \in Nat /\ Height - 1 \in Nat
  <2>1. PICK x \in X : x \in 0 .. Width - 1
    BY <1>3
  <2>2. PICK y \in Y : y \in 0 .. Height - 1
    BY <1>3
  <2> QED BY <1>1, <2>1, <2>2
<1>8. /\ Min(X) \in X /\ Max(X) \in X
      /\ \A x \in X : Min(X) <= x /\ x <= Max(X)
  BY <1>3, <1>7, Extremes
<1>9. /\ Min(Y) \in Y /\ Max(Y) \in Y
      /\ \A y \in Y : Min(Y) <= y /\ y <= Max(Y)
  BY <1>3, <1>7, Extremes
<1>10. /\ Min(X) \in Nat /\ Max(X) \in Nat /\ Min(X) <= Max(X) /\ Max(X) < Width
       /\ Min(Y) \in Nat /\ Max(Y) \in Nat /\ Min(Y) <= Max(Y) /\ Max(Y) < Height
  <2>1. /\ Min(X) \in 0 .. Width - 1 /\ Max(X) \in 0 .. Width - 1
        /\ Min(Y) \in 0 .. Height - 1 /\ Max(Y) \in 0 .. Height - 1
    BY <1>3, <1>8, <1>9
  <2>2. Min(X) <= Max(X) /\ Min(Y) <= Max(Y)
    BY <1>8, <1>9
  <2> QED BY <1>1, <2>1, <2>2
<1>11. IsBox(r)
  BY <1>1, <1>4, <1>10 DEF IsBox, IsRect
<1>12. ASSUME NEW q \in Points
       PROVE  q \in In(r) <=> q \in Hull(ps)
  <2>1. q[1] \in Nat /\ q[2] \in Nat
    BY <1>2
  <2>2. q \in In(r) <=> Min(X) <= q[1] /\ q[1] <= Max(X) /\ Min(Y) <= q[2] /\ q[2] <= Max(Y)
    BY <1>4, <1>10, <2>1 DEF In
  <2>3. \A p \in ps : p[1] \in Nat /\ p[2] \in Nat /\ p[1] \in X /\ p[2] \in Y
    BY <1>2, <1>5, <1>6
  <2>4. (\E a, b \in ps : a[1] <= q[1] /\ q[1] <= b[1]) <=> Min(X) <= q[1] /\ q[1] <= Max(X)
    <3>1. ASSUME NEW a \in ps, NEW b \in ps, a[1] <= q[1], q[1] <= b[1]
          PROVE  Min(X) <= q[1] /\ q[1] <= Max(X)
      <4>1. Min(X) <= a[1] /\ b[1] <= Max(X)
        BY <1>8, <2>3
      <4> QED BY <1>10, <2>1, <2>3, <3>1, <4>1
    <3>2. \E a, b \in ps : a[1] = Min(X) /\ b[1] = Max(X)
      BY <1>5, <1>8
    <3> QED BY <3>1, <3>2
  <2>5. (\E a, b \in ps : a[2] <= q[2] /\ q[2] <= b[2]) <=> Min(Y) <= q[2] /\ q[2] <= Max(Y)
    <3>1. ASSUME NEW a \in ps, NEW b \in ps, a[2] <= q[2], q[2] <= b[2]
          PROVE  Min(Y) <= q[2] /\ q[2] <= Max(Y)
      <4>1. Min(Y) <= a[2] /\ b[2] <= Max(Y)
        BY <1>9, <2>3
      <4> QED BY <1>10, <2>1, <2>3, <3>1, <4>1
    <3>2. \E a, b \in ps : a[2] = Min(Y) /\ b[2] = Max(Y)
      BY <1>6, <1>9
    <3> QED BY <3>1, <3>2
  <2> QED BY <2>2, <2>4, <2>5 DEF Hull
<1>13. In(r) = Hull(ps)
  BY <1>12 DEF In, Hull
<1> QED BY <1>11, <1>13, BoxArea DEF r

-----------------------------------------------------------------------------
(* Two blobs cannot have the same box: one has a path from the left side to   *)
(* the right, the other one from the top to the bottom, and such paths meet.  *)
(* Of a pixel that is not on the first path counts whether the path passes    *)
(* above it an odd number of times: at the top it does not, at the bottom it  *)
(* does, and between neighbours that does not change.                         *)

\* The step from u to v passes above q, between its column and the next.
Passes(q, u, v) == /\ u[2] = v[2] /\ u[2] < q[2]
                   /\ (u[1] = q[1] /\ v[1] = q[1] + 1) \/ (u[1] = q[1] + 1 /\ v[1] = q[1])

\* Whether the steps up to each place do so an odd number of times.
Parity(f, a, N, q) ==
  /\ f \in [0 .. N -> BOOLEAN]
  /\ f[0] = FALSE
  /\ \A n \in 1 .. N : f[n] = (f[n - 1] # Passes(q, a[n - 1], a[n]))

\* A way from the left side of a box to the column behind its right side.
Way(a, N, r) ==
  /\ N \in Nat
  /\ \A n \in 0 .. N : a[n][1] \in Int /\ a[n][2] \in Int /\ r.y0 <= a[n][2] /\ a[n][2] < r.y1
  /\ \A n \in 1 .. N : Touch(a[n], a[n - 1])
  /\ a[0][1] = r.x0 /\ a[N][1] = r.x1

\* A place in the box that is not on the way.
OffWay(q, a, N, r) ==
  /\ q[1] \in Int /\ q[2] \in Int
  /\ r.x0 <= q[1] /\ q[1] < r.x1 /\ r.y0 <= q[2] /\ q[2] < r.y1
  /\ \A n \in 0 .. N : ~(a[n][1] = q[1] /\ a[n][2] = q[2])

(* The steps can be counted.                                                  *)
LEMMA ParityExists == ASSUME NEW a, NEW N \in Nat, NEW q PROVE \E f : Parity(f, a, N, q)
<1> DEFINE V == BOOLEAN
           v == FALSE
           h == [x \in (1 .. N) \X V |-> x[2] # Passes(q, a[x[1] - 1], a[x[1]])]
<1>1. \A n \in 1 .. N : \A x \in V : h[<<n, x>>] = (x # Passes(q, a[n - 1], a[n]))
  OBVIOUS
<1>2. \A n \in 1 .. N : \A x \in V : h[<<n, x>>] \in V
  BY <1>1
<1> HIDE DEF h
<1>3. Steps(h, N, V)
  BY <1>2 DEF Steps
<1>4. v \in V
  OBVIOUS
<1> HIDE DEF V, v
<1>5. PICK f \in [0 .. N -> V] : f[0] = v /\ \A n \in 1 .. N : f[n] = h[<<n, f[n - 1]>>]
  BY <1>3, <1>4, RecursionExists
<1>6. \A n \in 1 .. N : f[n] = (f[n - 1] # Passes(q, a[n - 1], a[n]))
  <2> TAKE n \in 1 .. N
  <2>1. n - 1 \in 0 .. N
    OBVIOUS
  <2>2. f[n - 1] \in V
    BY <1>5, <2>1
  <2> QED BY <1>1, <1>5, <2>2
<1> QED BY <1>5, <1>6 DEF Parity, V, v

(* Two counts that begin alike and change alike are alike.                    *)
LEMMA SameParity ==
  ASSUME NEW a, NEW N \in Nat, NEW q, NEW s, NEW f, NEW g,
         Parity(f, a, N, q), Parity(g, a, N, s),
         \A n \in 1 .. N : Passes(q, a[n - 1], a[n]) = Passes(s, a[n - 1], a[n])
  PROVE  f[N] = g[N]
<1> DEFINE T == {n \in 0 .. N : f[n] # g[n]}
<1>1. 0 \notin T
  BY DEF Parity
<1>2. \A m \in 1 .. N : m \in T => m - 1 \in T
  <2> TAKE m \in 1 .. N
  <2>1. m - 1 \in 0 .. N /\ m \in 0 .. N
    OBVIOUS
  <2>2. f[m] = (f[m - 1] # Passes(q, a[m - 1], a[m])) /\ g[m] = (g[m - 1] # Passes(s, a[m - 1], a[m]))
    BY DEF Parity
  <2> QED BY <2>1, <2>2
<1>3. T = {}
  <2> HIDE DEF T
  <2>1. T \subseteq 0 .. N
    BY DEF T
  <2> QED BY <1>1, <1>2, <2>1, NoFirst
<1>4. N \in 0 .. N
  OBVIOUS
<1> QED BY <1>3, <1>4

(* Of neighbours in a row: which of the two counts a step changes is told by  *)
(* whether it comes to, or leaves, the part of the right one's column above.  *)
LEMMA StepTells ==
  ASSUME NEW u, NEW v, NEW q, NEW s, Touch(v, u),
         u[1] \in Int, u[2] \in Int, v[1] \in Int, v[2] \in Int, q[1] \in Int, q[2] \in Int,
         s[1] = q[1] + 1, s[2] = q[2],
         ~(u[1] = s[1] /\ u[2] = s[2]), ~(v[1] = s[1] /\ v[2] = s[2])
  PROVE  (Passes(q, u, v) # Passes(s, u, v)) <=>
           ((u[1] = s[1] /\ u[2] < s[2]) # (v[1] = s[1] /\ v[2] < s[2]))
BY DEF Passes, Touch

(* So the counts of neighbours in a row are alike at the end of the way.      *)
LEMMA RowAlike ==
  ASSUME NEW a, NEW N, NEW r, IsRect(r), Way(a, N, r), NEW q, NEW s, NEW f, NEW g,
         OffWay(q, a, N, r), OffWay(s, a, N, r), s[1] = q[1] + 1, s[2] = q[2],
         Parity(f, a, N, q), Parity(g, a, N, s)
  PROVE  f[N] = g[N]
<1> DEFINE OnTop(n) == a[n][1] = s[1] /\ a[n][2] < s[2]
           T == {n \in 0 .. N : ~((f[n] # g[n]) <=> OnTop(n))}
<1>1. /\ N \in Nat /\ \A n \in 0 .. N : a[n][1] \in Int /\ a[n][2] \in Int
      /\ \A n \in 1 .. N : Touch(a[n], a[n - 1])
      /\ q[1] \in Int /\ q[2] \in Int
      /\ \A n \in 0 .. N : ~(a[n][1] = s[1] /\ a[n][2] = s[2])
  BY DEF Way, OffWay
<1>2. ~OnTop(0) /\ ~OnTop(N)
  BY <1>1 DEF Way, OffWay, IsRect
<1>3. 0 \notin T
  BY <1>2 DEF Parity
<1>4. \A m \in 1 .. N : m \in T => m - 1 \in T
  <2> TAKE m \in 1 .. N
  <2>1. m - 1 \in 0 .. N /\ m \in 0 .. N
    BY <1>1
  <2>2. /\ f[m] = (f[m - 1] # Passes(q, a[m - 1], a[m])) /\ g[m] = (g[m - 1] # Passes(s, a[m - 1], a[m]))
        /\ f[m] \in BOOLEAN /\ g[m] \in BOOLEAN /\ f[m - 1] \in BOOLEAN /\ g[m - 1] \in BOOLEAN
    BY <2>1 DEF Parity
  <2>3. (Passes(q, a[m - 1], a[m]) # Passes(s, a[m - 1], a[m])) <=> (OnTop(m - 1) # OnTop(m))
    BY <1>1, <2>1, StepTells
  <2>4. Passes(q, a[m - 1], a[m]) \in BOOLEAN /\ Passes(s, a[m - 1], a[m]) \in BOOLEAN
    BY DEF Passes
  <2>5. OnTop(m) \in BOOLEAN /\ OnTop(m - 1) \in BOOLEAN
    OBVIOUS
  <2> HIDE DEF OnTop
  <2> QED BY <2>1, <2>2, <2>3, <2>4, <2>5
<1>5. T = {}
  <2> HIDE DEF T
  <2>1. T \subseteq 0 .. N
    BY DEF T
  <2> QED BY <1>1, <1>3, <1>4, <2>1, NoFirst
<1>6. N \in 0 .. N /\ f[N] \in BOOLEAN /\ g[N] \in BOOLEAN
  BY <1>1 DEF Parity
<1> QED BY <1>2, <1>5, <1>6

(* And those of neighbours in a column.                                       *)
LEMMA ColumnAlike ==
  ASSUME NEW a, NEW N, NEW r, IsRect(r), Way(a, N, r), NEW q, NEW s, NEW f, NEW g,
         OffWay(q, a, N, r), OffWay(s, a, N, r), s[1] = q[1], s[2] = q[2] + 1,
         Parity(f, a, N, q), Parity(g, a, N, s)
  PROVE  f[N] = g[N]
<1>1. N \in Nat
  BY DEF Way
<1>2. \A n \in 1 .. N : Passes(q, a[n - 1], a[n]) = Passes(s, a[n - 1], a[n])
  <2> TAKE n \in 1 .. N
  <2>1. n - 1 \in 0 .. N /\ n \in 0 .. N
    BY <1>1
  <2> DEFINE u == a[n - 1]
             v == a[n]
  <2>2. /\ u[1] \in Int /\ u[2] \in Int /\ v[1] \in Int /\ v[2] \in Int /\ q[1] \in Int /\ q[2] \in Int
        /\ ~(u[1] = q[1] /\ u[2] = q[2]) /\ ~(v[1] = q[1] /\ v[2] = q[2])
    BY <2>1 DEF Way, OffWay
  <2> HIDE DEF u, v
  <2>3. Passes(q, u, v) <=> Passes(s, u, v)
    BY <2>2 DEF Passes
  <2>4. Passes(q, u, v) \in BOOLEAN /\ Passes(s, u, v) \in BOOLEAN
    BY DEF Passes
  <2>5. Passes(q, u, v) = Passes(s, u, v)
    BY <2>3, <2>4
  <2> QED BY <2>5 DEF u, v
<1> QED BY <1>1, <1>2, SameParity

(* In the top row the way does not pass above.                                *)
LEMMA TopNever ==
  ASSUME NEW a, NEW N, NEW r, IsRect(r), Way(a, N, r), NEW q, NEW f, q[2] = r.y0,
         Parity(f, a, N, q)
  PROVE  f[N] = FALSE
<1> DEFINE T == {n \in 0 .. N : f[n] # FALSE}
<1>1. N \in Nat
  BY DEF Way
<1>2. 0 \notin T
  BY DEF Parity
<1>3. \A m \in 1 .. N : m \in T => m - 1 \in T
  <2> TAKE m \in 1 .. N
  <2>1. m - 1 \in 0 .. N /\ m \in 0 .. N
    BY <1>1
  <2>2. ~Passes(q, a[m - 1], a[m])
    BY <2>1 DEF Way, Passes, IsRect
  <2>3. f[m] = (f[m - 1] # Passes(q, a[m - 1], a[m])) /\ f[m - 1] \in BOOLEAN /\ f[m] \in BOOLEAN
    BY <2>1 DEF Parity
  <2>4. Passes(q, a[m - 1], a[m]) = FALSE
    BY <2>2 DEF Passes
  <2>5. f[m] = f[m - 1]
    BY <2>3, <2>4
  <2> QED BY <2>1, <2>5
<1>4. T = {}
  <2> HIDE DEF T
  <2>1. T \subseteq 0 .. N
    BY DEF T
  <2> QED BY <1>1, <1>2, <1>3, <2>1, NoFirst
<1>5. N \in 0 .. N /\ f[N] \in BOOLEAN
  BY <1>1 DEF Parity
<1> QED BY <1>4, <1>5

(* In the bottom row it does, as often as it has to go to the other side.     *)
LEMMA BottomOnce ==
  ASSUME NEW a, NEW N, NEW r, IsRect(r), Way(a, N, r), NEW q, NEW f, OffWay(q, a, N, r),
         q[2] = r.y1 - 1, Parity(f, a, N, q)
  PROVE  f[N] = TRUE
<1> DEFINE Past(n) == a[n][1] > q[1]
           T == {n \in 0 .. N : ~(f[n] <=> Past(n))}
<1>1. N \in Nat
  BY DEF Way
<1>2. ~Past(0) /\ Past(N)
  BY DEF Way, OffWay, IsRect
<1>3. 0 \notin T
  BY <1>2 DEF Parity
<1>4. \A m \in 1 .. N : m \in T => m - 1 \in T
  <2> TAKE m \in 1 .. N
  <2>1. m - 1 \in 0 .. N /\ m \in 0 .. N
    BY <1>1
  <2> DEFINE u == a[m - 1]
             v == a[m]
  <2>2. /\ u[1] \in Int /\ u[2] \in Int /\ v[1] \in Int /\ v[2] \in Int /\ q[1] \in Int /\ q[2] \in Int
        /\ ~(u[1] = q[1] /\ u[2] = q[2]) /\ ~(v[1] = q[1] /\ v[2] = q[2])
        /\ Touch(v, u) /\ u[2] <= q[2] /\ v[2] <= q[2]
    BY <2>1 DEF Way, OffWay, IsRect
  <2>3. f[m] = (f[m - 1] # Passes(q, u, v)) /\ f[m - 1] \in BOOLEAN /\ f[m] \in BOOLEAN
    BY <2>1 DEF Parity
  <2> HIDE DEF u, v
  <2>4. Passes(q, u, v) <=> ((u[1] > q[1]) # (v[1] > q[1]))
    BY <2>2 DEF Passes, Touch
  <2>5. Passes(q, u, v) \in BOOLEAN /\ (u[1] > q[1]) \in BOOLEAN /\ (v[1] > q[1]) \in BOOLEAN
    BY DEF Passes
  <2>6. (Past(m - 1) <=> u[1] > q[1]) /\ (Past(m) <=> v[1] > q[1])
    BY DEF u, v
  <2> HIDE DEF Past
  <2>7. ~(f[m] <=> Past(m)) => ~(f[m - 1] <=> Past(m - 1))
    BY <2>3, <2>4, <2>5, <2>6
  <2> QED BY <2>1, <2>7
<1>5. T = {}
  <2> HIDE DEF T
  <2>1. T \subseteq 0 .. N
    BY DEF T
  <2> QED BY <1>1, <1>3, <1>4, <2>1, NoFirst
<1>6. N \in 0 .. N /\ f[N] \in BOOLEAN
  BY <1>1 DEF Parity
<1> QED BY <1>2, <1>5, <1>6

\* A trail from p to q within A.
Trail(a, N, A, p, q) == /\ N \in Nat /\ a \in [0 .. N -> A] /\ a[0] = p /\ a[N] = q
                        /\ \A n \in 1 .. N : Touch(a[n], a[n - 1])

(* A trail goes one pixel further.                                            *)
LEMMA TrailOn ==
  ASSUME NEW a, NEW N, NEW A, NEW p, NEW q, Trail(a, N, A, p, q), NEW B, A \subseteq B,
         NEW t \in B, Touch(t, q)
  PROVE  \E b : Trail(b, N + 1, B, p, t)
<1> DEFINE M == N + 1
           b == [n \in 0 .. M |-> IF n = M THEN t ELSE a[n]]
<1>1. /\ N \in Nat /\ a \in [0 .. N -> A] /\ a[0] = p /\ a[N] = q
      /\ \A n \in 1 .. N : Touch(a[n], a[n - 1])
  BY DEF Trail
<1>2. /\ M \in Nat /\ M \in 0 .. M /\ 0 \in 0 .. M /\ 0 # M
      /\ \A n \in 0 .. M : n = M \/ n \in 0 .. N
      /\ \A n \in 0 .. N : n \in 0 .. M /\ n # M
      /\ \A n \in 1 .. M : n = M \/ n \in 1 .. N
      /\ \A n \in 1 .. M : n - 1 \in 0 .. N
      /\ M - 1 = N
  BY <1>1
<1> HIDE DEF M
<1>3. b \in [0 .. M -> B]
  BY <1>1, <1>2
<1>4. b[0] = p /\ b[M] = t /\ \A n \in 0 .. N : b[n] = a[n]
  BY <1>1, <1>2
<1> HIDE DEF b
<1>5. \A n \in 1 .. M : Touch(b[n], b[n - 1])
  <2> TAKE n \in 1 .. M
  <2>1. CASE n = M
    BY <1>1, <1>2, <1>4, <2>1
  <2>2. CASE n # M
    <3>1. n \in 1 .. N /\ n \in 0 .. N /\ n - 1 \in 0 .. N
      BY <1>2, <2>2, <1>1
    <3> QED BY <1>1, <1>4, <3>1
  <2> QED BY <2>1, <2>2
<1> QED BY <1>2, <1>3, <1>4, <1>5 DEF Trail, M

(* Within a blob there is a trail to every pixel.                             *)
LEMMA Trails ==
  ASSUME IsMarked, NEW p \in upload.marked
  PROVE  \A q \in Blob(p) : \E a, N : Trail(a, N, Blob(p), p, q)
<1> DEFINE A == Blob(p)
           S == {q \in A : \E a, N : Trail(a, N, A, p, q)}
<1>1. p \in A /\ A \subseteq upload.marked /\ Closed(A) /\ \A R : p \in R /\ Closed(R) => A \subseteq R
  BY BlobIsLeast
<1> HIDE DEF A
<1>2. p \in S
  <2> DEFINE a == [n \in 0 .. 0 |-> p]
  <2>1. a \in [0 .. 0 -> A] /\ a[0] = p /\ \A n \in 1 .. 0 : FALSE
    BY <1>1
  <2>2. Trail(a, 0, A, p, p)
    <3> HIDE DEF a
    <3> QED BY <2>1 DEF Trail
  <2> QED BY <1>1, <2>2
<1>3. Closed(S)
  <2> SUFFICES ASSUME NEW r \in S, NEW t \in upload.marked, Touch(t, r) PROVE t \in S
    BY DEF Closed
  <2>1. r \in A /\ t \in A
    BY <1>1 DEF Closed
  <2>2. PICK a, N : Trail(a, N, A, p, r)
    OBVIOUS
  <2>3. \E b : Trail(b, N + 1, A, p, t)
    BY <2>1, <2>2, TrailOn
  <2> QED BY <2>1, <2>3
<1>4. A \subseteq S
  <2> HIDE DEF S
  <2> QED BY <1>1, <1>2, <1>3
<1> QED BY <1>4 DEF A

(* A blob touches all four sides of its box.                                  *)
LEMMA SidesTouched ==
  ASSUME IsImage, NEW ps, ps \subseteq Points, ps # {}, NEW r, r = BoundingRect(ps)
  PROVE  /\ \E p \in ps : p[1] = r.x0
         /\ \E p \in ps : p[1] = r.x1 - 1
         /\ \E p \in ps : p[2] = r.y0
         /\ \E p \in ps : p[2] = r.y1 - 1
<1> DEFINE X == {p[1] : p \in ps}
           Y == {p[2] : p \in ps}
<1>1. \A p \in Points : p[1] \in 0 .. Width - 1 /\ p[2] \in 0 .. Height - 1
  BY DEF Points
<1>2. X \subseteq 0 .. Width - 1 /\ Y \subseteq 0 .. Height - 1 /\ X # {} /\ Y # {}
  BY <1>1
<1>3. r.x0 = Min(X) /\ r.y0 = Min(Y) /\ r.x1 = Max(X) + 1 /\ r.y1 = Max(Y) + 1
  BY DEF BoundingRect, Rect
<1>4. \A x : x \in X <=> \E p \in ps : p[1] = x
  OBVIOUS
<1>5. \A y : y \in Y <=> \E p \in ps : p[2] = y
  OBVIOUS
<1> HIDE DEF X, Y
<1>6. Width - 1 \in Nat /\ Height - 1 \in Nat
  <2>1. PICK x \in X : x \in 0 .. Width - 1
    BY <1>2
  <2>2. PICK y \in Y : y \in 0 .. Height - 1
    BY <1>2
  <2> QED BY <2>1, <2>2 DEF IsImage
<1>7. Min(X) \in X /\ Max(X) \in X /\ Min(Y) \in Y /\ Max(Y) \in Y
  BY <1>2, <1>6, Extremes
<1>8. r.x1 - 1 = Max(X) /\ r.y1 - 1 = Max(Y)
  <2>1. \A x \in X : x \in Int
    BY <1>2
  <2>2. \A y \in Y : y \in Int
    BY <1>2
  <2> QED BY <1>3, <1>7, <2>1, <2>2
<1> QED BY <1>3, <1>4, <1>5, <1>7, <1>8

(* From one side of a blob's box to the other there is a way within the blob. *)
LEMMA BlobHasWay ==
  ASSUME IsMarked, NEW p \in upload.marked, NEW r, r = BoundingRect(Blob(p))
  PROVE  \E a, N : /\ Way(a, N, r)
                   /\ \A n \in 0 .. N : a[n] \in Blob(p) \/ a[n][1] = r.x1
<1> DEFINE A == Blob(p)
<1>1. IsImage /\ upload.marked \subseteq Points
  BY DEF IsMarked
<1>2. p \in A /\ A \subseteq Points
  BY <1>1, BlobIsLeast
<1>3. IsBox(r) /\ In(r) = Hull(A)
  BY <1>1, <1>2, BoxIsHull
<1>4. PICK l \in A : l[1] = r.x0
  BY <1>1, <1>2, SidesTouched
<1>5. PICK e \in A : e[1] = r.x1 - 1
  BY <1>1, <1>2, SidesTouched
<1>6. l \in upload.marked /\ Blob(l) = A
  BY BlobIsLeast, BlobsApart
<1>7. PICK b, M : Trail(b, M, A, l, e)
  BY <1>5, <1>6, Trails
<1> HIDE DEF A
<1> DEFINE t == <<e[1] + 1, e[2]>>
           B == A \union {t}
<1>8. /\ \A q \in A : q[1] \in Int /\ q[2] \in Int /\ r.y0 <= q[2] /\ q[2] < r.y1
      /\ r.x1 \in Int
  <2> SUFFICES ASSUME NEW q \in A
               PROVE  q[1] \in Int /\ q[2] \in Int /\ r.y0 <= q[2] /\ q[2] < r.y1
    BY <1>3 DEF IsBox, IsRect
  <2>1. q[1] \in Int /\ q[2] \in Int
    BY <1>1, <1>2 DEF Points, IsImage
  <2>2. q \in Hull(A)
    BY <1>2, <2>1 DEF Hull
  <2> QED BY <1>3, <2>1, <2>2 DEF In
<1>9. Touch(t, e) /\ t[1] = r.x1 /\ t[1] \in Int /\ t[2] = e[2]
  BY <1>5, <1>8 DEF Touch
<1> HIDE DEF t
<1>10. PICK a : Trail(a, M + 1, B, l, t)
  <2>1. A \subseteq B /\ t \in B
    OBVIOUS
  <2> HIDE DEF B
  <2> QED BY <1>7, <1>9, <2>1, TrailOn
<1>11. /\ M + 1 \in Nat /\ a[0] = l /\ a[M + 1] = t
       /\ \A n \in 0 .. M + 1 : a[n] \in B
       /\ \A n \in 1 .. M + 1 : Touch(a[n], a[n - 1])
  <2> HIDE DEF B
  <2> QED BY <1>10 DEF Trail
<1>12. \A q \in B : q[1] \in Int /\ q[2] \in Int /\ r.y0 <= q[2] /\ q[2] < r.y1
  BY <1>8, <1>9
<1>13. Way(a, M + 1, r)
  BY <1>4, <1>9, <1>11, <1>12 DEF Way
<1>14. \A n \in 0 .. M + 1 : a[n] \in A \/ a[n][1] = r.x1
  BY <1>9, <1>11
<1> QED BY <1>13, <1>14 DEF A

(* Two blobs are never in the same box.                                       *)
LEMMA BoxesApart ==
  ASSUME IsMarked, NEW p \in upload.marked, NEW q \in upload.marked,
         BoundingRect(Blob(p)) = BoundingRect(Blob(q))
  PROVE  Blob(p) = Blob(q)
<1> SUFFICES ASSUME Blob(p) # Blob(q) PROVE FALSE
  OBVIOUS
<1> DEFINE A == Blob(p)
           B == Blob(q)
           r == BoundingRect(A)
<1>1. IsImage /\ upload.marked \subseteq Points
  BY DEF IsMarked
<1>2. A \intersect B = {}
  BY BlobsApart
<1>3. q \in B /\ B \subseteq Points /\ B \subseteq upload.marked /\ Closed(B)
  BY <1>1, BlobIsLeast
<1>4. r = BoundingRect(B) /\ IsBox(r) /\ In(r) = Hull(B)
  BY <1>1, <1>3, BoxIsHull
<1>5. PICK a, N : Way(a, N, r) /\ \A n \in 0 .. N : a[n] \in A \/ a[n][1] = r.x1
  BY BlobHasWay
<1>6. PICK top \in B : top[2] = r.y0
  BY <1>1, <1>3, <1>4, SidesTouched
<1>7. PICK low \in B : low[2] = r.y1 - 1
  BY <1>1, <1>3, <1>4, SidesTouched
<1>8. B = Blob(top) /\ top \in upload.marked
  BY <1>3, BlobsApart
<1>9. \A S : top \in S /\ Closed(S) => B \subseteq S
  BY <1>8, BlobIsLeast
<1> HIDE DEF A, B, r
<1>10. IsRect(r) /\ N \in Nat
  BY <1>4, <1>5 DEF IsBox, Way
<1>11. \A s \in B : OffWay(s, a, N, r)
  <2> TAKE s \in B
  <2>1. s \in Points /\ s[1] \in Int /\ s[2] \in Int /\ s = <<s[1], s[2]>>
    BY <1>1, <1>3 DEF Points, IsImage
  <2>2. s \in Hull(B)
    BY <2>1 DEF Hull
  <2>3. r.x0 <= s[1] /\ s[1] < r.x1 /\ r.y0 <= s[2] /\ s[2] < r.y1
    BY <1>4, <2>2 DEF In
  <2>4. ASSUME NEW n \in 0 .. N, a[n][1] = s[1], a[n][2] = s[2] PROVE FALSE
    <3>1. a[n] \in A
      BY <1>5, <2>1, <2>3, <2>4, <1>10 DEF IsRect
    <3>2. a[n] = s
      BY <1>1, <2>1, <2>4, <3>1, BlobIsLeast DEF A, Points
    <3> QED BY <1>2, <3>1, <3>2
  <2> QED BY <2>1, <2>3, <2>4 DEF OffWay
<1> DEFINE S == {s \in B : \E f : Parity(f, a, N, s) /\ f[N] = FALSE}
<1>12. top \in S
  <2>1. PICK f : Parity(f, a, N, top)
    BY <1>10, ParityExists
  <2>2. f[N] = FALSE
    <3>1. Way(a, N, r) /\ top[2] = r.y0 /\ IsRect(r)
      BY <1>5, <1>6, <1>10
    <3> HIDE DEF S
    <3> QED BY <2>1, <3>1, TopNever
  <2> QED BY <2>1, <2>2
<1>13. \A s, t \in B : Touch(t, s) => \A f, g : Parity(f, a, N, s) /\ Parity(g, a, N, t) => f[N] = g[N]
  <2> TAKE s, t \in B
  <2> HAVE Touch(t, s)
  <2> TAKE f, g
  <2> HAVE Parity(f, a, N, s) /\ Parity(g, a, N, t)
  <2>1. OffWay(s, a, N, r) /\ OffWay(t, a, N, r)
    BY <1>11
  <2>2. \/ t[1] = s[1] + 1 /\ t[2] = s[2]
        \/ s[1] = t[1] + 1 /\ s[2] = t[2]
        \/ t[1] = s[1] /\ t[2] = s[2] + 1
        \/ s[1] = t[1] /\ s[2] = t[2] + 1
    BY <2>1 DEF Touch, OffWay
  <2>3. CASE t[1] = s[1] + 1 /\ t[2] = s[2]
    BY <1>5, <1>10, <2>1, <2>3, RowAlike
  <2>4. CASE s[1] = t[1] + 1 /\ s[2] = t[2]
    <3>1. g[N] = f[N]
      BY <1>5, <1>10, <2>1, <2>4, RowAlike
    <3> QED BY <3>1
  <2>5. CASE t[1] = s[1] /\ t[2] = s[2] + 1
    BY <1>5, <1>10, <2>1, <2>5, ColumnAlike
  <2>6. CASE s[1] = t[1] /\ s[2] = t[2] + 1
    <3>1. g[N] = f[N]
      BY <1>5, <1>10, <2>1, <2>6, ColumnAlike
    <3> QED BY <3>1
  <2> QED BY <2>2, <2>3, <2>4, <2>5, <2>6
<1>14. Closed(S)
  <2> SUFFICES ASSUME NEW s \in S, NEW t \in upload.marked, Touch(t, s) PROVE t \in S
    BY DEF Closed
  <2>1. s \in B /\ t \in B
    BY <1>3 DEF Closed
  <2>2. PICK f : Parity(f, a, N, s) /\ f[N] = FALSE
    OBVIOUS
  <2>3. PICK g : Parity(g, a, N, t)
    BY <1>10, ParityExists
  <2>4. f[N] = g[N]
    BY <1>13, <2>1, <2>2, <2>3
  <2> QED BY <2>1, <2>2, <2>3, <2>4
<1>15. low \in S
  <2> HIDE DEF S
  <2> QED BY <1>9, <1>12, <1>14
<1>16. PICK f : Parity(f, a, N, low) /\ f[N] = FALSE
  BY <1>15
<1>17. f[N] = TRUE
  BY <1>5, <1>7, <1>10, <1>11, <1>16, BottomOnce
<1> QED BY <1>16, <1>17

-----------------------------------------------------------------------------
\* Boxes and regions of whole numbers.
Rects == [x0 : Int, y0 : Int, x1 : Int, y1 : Int]

Regions == [rect : Rects, category : {"marker", "full-image"} \union Range(Patterns)]

(* Precedes compares y0, x0, y1 and x1, in this order.                        *)
LEMMA PrecedesIs ==
  ASSUME NEW a, NEW b, IsRect(a.rect), IsRect(b.rect)
  PROVE  Precedes(a, b) <=>
           \/ a.rect.y0 < b.rect.y0
           \/ a.rect.y0 = b.rect.y0 /\ a.rect.x0 < b.rect.x0
           \/ a.rect.y0 = b.rect.y0 /\ a.rect.x0 = b.rect.x0 /\ a.rect.y1 < b.rect.y1
           \/ a.rect.y0 = b.rect.y0 /\ a.rect.x0 = b.rect.x0 /\ a.rect.y1 = b.rect.y1 /\ a.rect.x1 < b.rect.x1
<1> DEFINE Key(r) == <<r.rect.y0, r.rect.x0, r.rect.y1, r.rect.x1>>
           Less(k) == /\ Key(a)[k] < Key(b)[k]
                      /\ \A j \in 1 .. k - 1 : Key(a)[j] = Key(b)[j]
<1>1. Precedes(a, b) <=> Less(1) \/ Less(2) \/ Less(3) \/ Less(4)
  <2>1. \A k : k \in 1 .. 4 <=> k = 1 \/ k = 2 \/ k = 3 \/ k = 4
    OBVIOUS
  <2>2. Precedes(a, b) <=> \E k \in 1 .. 4 : Less(k)
    BY DEF Precedes
  <2> HIDE DEF Less
  <2> QED BY <2>1, <2>2
<1>2. Less(1) <=> a.rect.y0 < b.rect.y0
  OBVIOUS
<1>3. Less(2) <=> a.rect.y0 = b.rect.y0 /\ a.rect.x0 < b.rect.x0
  OBVIOUS
<1>4. Less(3) <=> a.rect.y0 = b.rect.y0 /\ a.rect.x0 = b.rect.x0 /\ a.rect.y1 < b.rect.y1
  OBVIOUS
<1>5. Less(4) <=> a.rect.y0 = b.rect.y0 /\ a.rect.x0 = b.rect.x0 /\ a.rect.y1 = b.rect.y1 /\ a.rect.x1 < b.rect.x1
  OBVIOUS
<1> HIDE DEF Less
<1> QED BY <1>1, <1>2, <1>3, <1>4, <1>5

(* No two regions precede each other.                                         *)
LEMMA PrecedesOneWay ==
  ASSUME NEW a, NEW b, IsRect(a.rect), IsRect(b.rect), Precedes(a, b)
  PROVE  ~Precedes(b, a)
<1> DEFINE Lex(x, y) == \/ x.rect.y0 < y.rect.y0
                        \/ x.rect.y0 = y.rect.y0 /\ x.rect.x0 < y.rect.x0
                        \/ x.rect.y0 = y.rect.y0 /\ x.rect.x0 = y.rect.x0 /\ x.rect.y1 < y.rect.y1
                        \/ /\ x.rect.y0 = y.rect.y0 /\ x.rect.x0 = y.rect.x0
                           /\ x.rect.y1 = y.rect.y1 /\ x.rect.x1 < y.rect.x1
<1>1. Lex(a, b)
  BY PrecedesIs
<1>2. Precedes(b, a) => Lex(b, a)
  BY PrecedesIs
<1>3. ~(Lex(a, b) /\ Lex(b, a))
  BY DEF IsRect
<1> QED BY <1>1, <1>2, <1>3

(* Of two regions whose boxes differ one precedes the other.                  *)
LEMMA PrecedesEither ==
  ASSUME NEW a \in Regions, NEW b \in Regions, a.rect # b.rect, ~Precedes(b, a)
  PROVE  Precedes(a, b)
<1> DEFINE r == a.rect
           s == b.rect
           Lex(x, y) == \/ x.y0 < y.y0
                        \/ x.y0 = y.y0 /\ x.x0 < y.x0
                        \/ x.y0 = y.y0 /\ x.x0 = y.x0 /\ x.y1 < y.y1
                        \/ x.y0 = y.y0 /\ x.x0 = y.x0 /\ x.y1 = y.y1 /\ x.x1 < y.x1
<1>1. r \in Rects /\ s \in Rects
  BY DEF Regions
<1>2. IsRect(a.rect) /\ IsRect(b.rect)
  BY <1>1 DEF Rects, IsRect
<1>3. (Precedes(a, b) <=> Lex(r, s)) /\ (Precedes(b, a) <=> Lex(s, r))
  BY <1>2, PrecedesIs
<1> HIDE DEF r, s
<1>4. ~(r.x0 = s.x0 /\ r.y0 = s.y0 /\ r.x1 = s.x1 /\ r.y1 = s.y1)
  BY <1>1 DEF Rects, r, s
<1>5. Lex(r, s) \/ Lex(s, r)
  BY <1>1, <1>4 DEF Rects
<1> QED BY <1>3, <1>5

\* The order of sortRegions on the places of rs, ties broken by the place.
PlaceOrder(rs, N) ==
  {x \in (1 .. N) \X (1 .. N) : \/ Precedes(rs[x[1]], rs[x[2]])
                                \/ ~Precedes(rs[x[2]], rs[x[1]]) /\ x[1] < x[2]}

(* With ties broken by the place, Precedes is an order of the places.         *)
LEMMA PlacesOrdered ==
  ASSUME NEW N \in Nat, NEW rs, \A k \in 1 .. N : IsRect(rs[k].rect)
  PROVE  IsOrder(PlaceOrder(rs, N), 1 .. N)
<1> DEFINE A(k) == rs[k].rect.y0
           B(k) == rs[k].rect.x0
           C(k) == rs[k].rect.y1
           D(k) == rs[k].rect.x1
           Lex(i, j) == \/ A(i) < A(j)
                        \/ A(i) = A(j) /\ B(i) < B(j)
                        \/ A(i) = A(j) /\ B(i) = B(j) /\ C(i) < C(j)
                        \/ A(i) = A(j) /\ B(i) = B(j) /\ C(i) = C(j) /\ D(i) < D(j)
           Before(i, j) == Lex(i, j) \/ (~Lex(j, i) /\ i < j)
<1>1. \A k \in 1 .. N : A(k) \in Int /\ B(k) \in Int /\ C(k) \in Int /\ D(k) \in Int /\ k \in Int
  BY DEF IsRect
<1>2. \A i, j \in 1 .. N : Precedes(rs[i], rs[j]) <=> Lex(i, j)
  BY PrecedesIs
<1>3. \A i, j \in 1 .. N : <<i, j>> \in PlaceOrder(rs, N) <=> Before(i, j)
  <2> HIDE DEF Lex
  <2> QED BY <1>2 DEF PlaceOrder
<1> HIDE DEF A, B, C, D
<1>4. \A i \in 1 .. N : ~Before(i, i)
  BY <1>1
<1>5. \A i, j, k \in 1 .. N : Before(i, j) /\ Before(j, k) => Before(i, k)
  BY <1>1
<1>6. \A i, j \in 1 .. N : i # j => Before(i, j) \/ Before(j, i)
  BY <1>1
<1> HIDE DEF Before
<1> QED BY <1>3, <1>4, <1>5, <1>6 DEF IsOrder

(* sortRegions only changes the order.                                        *)
LEMMA SortedSays ==
  ASSUME NEW X, NEW rs \in Seq(X), \A k \in 1 .. Len(rs) : IsRect(rs[k].rect)
  PROVE  /\ Sorted(rs) \in Seq(X) /\ Len(Sorted(rs)) = Len(rs)
         /\ Members(Sorted(rs)) = Members(rs)
         /\ \A a, b \in 1 .. Len(rs) : a < b => ~Precedes(Sorted(rs)[b], Sorted(rs)[a])
<1> DEFINE N == Len(rs)
           Is(o) == /\ Range(o) = DOMAIN rs
                    /\ \A a, b \in DOMAIN rs : a < b =>
                         \/ Precedes(rs[o[a]], rs[o[b]])
                         \/ ~Precedes(rs[o[b]], rs[o[a]]) /\ o[a] < o[b]
           order == CHOOSE o \in [DOMAIN rs -> DOMAIN rs] : Is(o)
           t == [k \in DOMAIN rs |-> rs[order[k]]]
<1>1. N \in Nat /\ DOMAIN rs = 1 .. N /\ rs \in [1 .. N -> X]
  BY LenProperties
<1>2. \E o \in [1 .. N -> 1 .. N] : Is(o)
  <2> HIDE DEF N
  <2>1. N \in Int /\ 1 \in Int /\ (1 > N => N = 0) /\ N - 1 + 1 = N
    BY <1>1
  <2>2. IsFiniteSet(1 .. N) /\ Cardinality(1 .. N) = N
    BY <2>1, FS_Interval
  <2>3. IsOrder(PlaceOrder(rs, N), 1 .. N)
    BY <1>1, PlacesOrdered DEF N
  <2>4. PICK o \in [1 .. N -> 1 .. N] :
          /\ {o[a] : a \in 1 .. N} = 1 .. N
          /\ \A a, b \in 1 .. N : a < b => <<o[a], o[b]>> \in PlaceOrder(rs, N)
    BY <2>2, <2>3, ListedInOrder
  <2>5. Range(o) = 1 .. N
    BY <2>4 DEF Range
  <2>6. \A a, b \in 1 .. N : a < b => \/ Precedes(rs[o[a]], rs[o[b]])
                                      \/ ~Precedes(rs[o[b]], rs[o[a]]) /\ o[a] < o[b]
    BY <2>4 DEF PlaceOrder
  <2> QED BY <1>1, <2>5, <2>6
<1> HIDE DEF N
<1>3. order \in [1 .. N -> 1 .. N] /\ Is(order)
  <2> HIDE DEF Is
  <2> QED BY <1>1, <1>2
<1>4. Sorted(rs) = t
  BY DEF Sorted
<1> HIDE DEF order
<1>5. t \in [1 .. N -> X] /\ \A k \in 1 .. N : t[k] = rs[order[k]]
  BY <1>1, <1>3
<1>6. \A a, b \in 1 .. N : a < b => ~Precedes(rs[order[b]], rs[order[a]])
  <2>1. \A i, j \in 1 .. N : ~(Precedes(rs[i], rs[j]) /\ Precedes(rs[j], rs[i]))
    <3> TAKE i, j \in 1 .. N
    <3>1. IsRect(rs[i].rect) /\ IsRect(rs[j].rect)
      BY DEF N
    <3> QED BY <3>1, PrecedesOneWay
  <2> QED BY <1>1, <1>3, <2>1
<1>7. {order[k] : k \in 1 .. N} = 1 .. N
  BY <1>1, <1>3 DEF Range
<1> HIDE DEF t, Is
<1>8. t \in Seq(X) /\ Len(t) = N
  BY <1>1, <1>5, Tuple
<1>9. Members(t) = Members(rs)
  <2>1. \A x : x \in Members(t) <=> \E k \in 1 .. N : x = rs[order[k]]
    BY <1>5, <1>8 DEF Members
  <2>2. \A x : x \in Members(rs) <=> \E k \in 1 .. N : x = rs[k]
    BY DEF Members, N
  <2> QED BY <1>3, <1>7, <2>1, <2>2
<1> QED BY <1>4, <1>5, <1>6, <1>8, <1>9 DEF N

-----------------------------------------------------------------------------
(* What the detectors report.                                                 *)

(* Every blob that is large enough is reported by the box around it, once,    *)
(* nothing else is, and the order is strict.                                  *)
LEMMA MarkersFound ==
  ASSUME IsMarked, upload.minArea \in Int
  PROVE  /\ DetectMarkers \in Seq(Regions)
         /\ \A r \in Members(DetectMarkers) : IsBox(r.rect) /\ r.category = "marker"
         /\ {In(r.rect) : r \in Members(DetectMarkers)} = {Hull(b) : b \in LargeBlobs}
         /\ Len(DetectMarkers) = Cardinality(LargeBlobs)
         /\ \A a, b \in 1 .. Len(DetectMarkers) :
              a < b => Precedes(DetectMarkers[a], DetectMarkers[b])
<1> DEFINE marked == upload.marked
           uf == Components
           root == [p \in marked |-> Find(uf, Flat(p)).root]
           S == Range(root)
           M == Cardinality(S)
           roots == SetToSeq(S)
           Under(k) == {p \in marked : root[p] = roots[k]}
           found == [k \in DOMAIN roots |-> Region(BoundingRect(Under(k)), "marker")]
           Large == {r \in Range(found) : upload.minArea > 0 => Area(r.rect) >= upload.minArea}
           kept == Keep(found, Large)
<1>0. DetectMarkers = Sorted(kept)
  BY DEF DetectMarkers
<1>1. IsImage /\ marked \subseteq Points /\ \A p \in Points : Flat(p) \in 1 .. Size
  BY PixelNumbers DEF IsMarked
<1>2. PICK c : /\ uf \in UnionFinds /\ Rooted(uf.parent, uf.rank, c)
               /\ \A p, q \in marked : c[Flat(p)] = c[Flat(q)] <=> q \in Blob(p)
  BY RootsTellBlobs
<1> HIDE DEF uf, marked
<1>3. \A p \in marked : root[p] = c[Flat(p)] /\ root[p] \in 1 .. Size
  <2> TAKE p \in marked
  <2>1. Flat(p) \in 1 .. Size
    BY <1>1
  <2>2. Find(uf, Flat(p)).root = c[Flat(p)]
    BY <1>1, <1>2, <2>1, FindEnds
  <2>3. c[Flat(p)] \in 1 .. Size
    BY <1>2, <2>1 DEF Rooted
  <2> QED BY <2>2, <2>3
<1>4. S = {root[p] : p \in marked}
  BY DEF Range
<1> HIDE DEF root
<1>5. IsFiniteSet(S)
  <2>1. S \in SUBSET (1 .. Size)
    BY <1>3, <1>4
  <2>2. Size \in Int /\ 1 \in Int
    BY <1>1, PixelNumbers
  <2>3. IsFiniteSet(1 .. Size)
    <3> HIDE DEF Size
    <3> QED BY <2>2, FS_Interval
  <2> QED BY <2>1, <2>3, FS_Subset
<1> HIDE DEF S
<1>6. /\ M \in Nat /\ roots \in [1 .. M -> S] /\ {roots[k] : k \in 1 .. M} = S
      /\ \A i, j \in 1 .. M : roots[i] = roots[j] => i = j
  BY <1>5, SetToSeqSays
<1> HIDE DEF M, roots
<1>7. \A k \in 1 .. M : \E p \in marked : Under(k) = Blob(p)
  <2> TAKE k \in 1 .. M
  <2>1. PICK p \in marked : roots[k] = root[p]
    BY <1>4, <1>6
  <2>2. Blob(p) \subseteq marked
    BY BlobIsLeast DEF marked
  <2>3. Under(k) = Blob(p)
    BY <1>2, <1>3, <2>1, <2>2
  <2> QED BY <2>3
<1>8. \A p \in marked : \E k \in 1 .. M : Under(k) = Blob(p)
  <2> TAKE p \in marked
  <2>1. PICK k \in 1 .. M : roots[k] = root[p]
    BY <1>4, <1>6
  <2>2. Blob(p) \subseteq marked
    BY BlobIsLeast DEF marked
  <2>3. Under(k) = Blob(p)
    BY <1>2, <1>3, <2>1, <2>2
  <2> QED BY <2>3
<1>9. {Under(k) : k \in 1 .. M} = Blobs
  <2> HIDE DEF Under
  <2> QED BY <1>7, <1>8 DEF Blobs, marked
<1>10. \A b \in Blobs : /\ IsBox(BoundingRect(b)) /\ In(BoundingRect(b)) = Hull(b)
                        /\ Cardinality(Hull(b)) = Area(BoundingRect(b))
  <2> SUFFICES ASSUME NEW p \in upload.marked
               PROVE  /\ IsBox(BoundingRect(Blob(p))) /\ In(BoundingRect(Blob(p))) = Hull(Blob(p))
                      /\ Cardinality(Hull(Blob(p))) = Area(BoundingRect(Blob(p)))
    BY DEF Blobs
  <2>1. Blob(p) \subseteq Points /\ Blob(p) # {}
    BY <1>1, BlobIsLeast DEF marked
  <2> QED BY <1>1, <2>1, BoxIsHull
<1>11. found = [k \in 1 .. M |-> Region(BoundingRect(Under(k)), "marker")]
  BY <1>6
<1>24. \A i, j \in 1 .. M : found[i] = found[j] => i = j
  <2> TAKE i, j \in 1 .. M
  <2> HAVE found[i] = found[j]
  <2>1. BoundingRect(Under(i)) = BoundingRect(Under(j))
    BY <1>11 DEF Region
  <2>2. PICK p \in marked : Under(i) = Blob(p)
    BY <1>7
  <2>3. PICK q \in marked : Under(j) = Blob(q)
    BY <1>7
  <2>4. Blob(p) = Blob(q)
    BY <2>1, <2>2, <2>3, BoxesApart DEF marked
  <2>5. p \in Blob(p)
    BY BlobIsLeast DEF marked
  <2>6. p \in Under(i) /\ p \in Under(j)
    BY <2>2, <2>3, <2>4, <2>5
  <2>7. roots[i] = roots[j]
    BY <2>6
  <2> QED BY <1>6, <2>7
<1> HIDE DEF Under, found
<1>12. \A b \in Blobs : Region(BoundingRect(b), "marker") \in Regions
  <2> TAKE b \in Blobs
  <2>1. IsRect(BoundingRect(b))
    BY <1>10 DEF IsBox
  <2>2. BoundingRect(b) \in Rects
    BY <2>1 DEF BoundingRect, Rect, Rects, IsRect
  <2> QED BY <2>2 DEF Region, Regions
<1>13. found \in [1 .. M -> Regions]
  BY <1>9, <1>11, <1>12
<1>14. found \in Seq(Regions) /\ Len(found) = M
  BY <1>6, <1>13, Tuple
<1>15. {found[k] : k \in 1 .. M} = {Region(BoundingRect(b), "marker") : b \in Blobs}
  BY <1>9, <1>11
<1>16. Range(found) = {found[k] : k \in 1 .. M}
  BY <1>13 DEF Range
<1>17. KeptOf(kept, found, Large, M)
  <2> HIDE DEF Large
  <2> QED BY <1>6, <1>14, KeepSays
<1> HIDE DEF kept
<1>18. Members(kept) = Large
  <2>1. Large \subseteq {found[k] : k \in 1 .. M}
    BY <1>16
  <2> HIDE DEF Large
  <2> QED BY <1>17, <2>1 DEF KeptOf, Members
<1>19. kept \in Seq(Regions)
  <2>1. {found[k] : k \in 1 .. M} \subseteq Regions
    BY <1>13
  <2>2. kept \in Seq({found[k] : k \in 1 .. M})
    BY <1>17 DEF KeptOf
  <2> QED BY <2>1, <2>2
<1>20. \A r \in Members(kept) : IsBox(r.rect) /\ r.category = "marker" /\ IsRect(r.rect)
  BY <1>10, <1>15, <1>16, <1>18 DEF Region, IsBox
<1>21. \A k \in 1 .. Len(kept) : IsRect(kept[k].rect)
  BY <1>20 DEF Members
<1>22. /\ DetectMarkers \in Seq(Regions) /\ Members(DetectMarkers) = Members(kept)
       /\ Len(DetectMarkers) = Len(kept)
       /\ \A a, b \in 1 .. Len(kept) : a < b => ~Precedes(DetectMarkers[b], DetectMarkers[a])
  BY <1>0, <1>19, <1>21, SortedSays
<1>23. {In(r.rect) : r \in Large} = {Hull(b) : b \in LargeBlobs}
  <2>1. \A b \in Blobs : b \in LargeBlobs <=> (upload.minArea > 0 => Area(BoundingRect(b)) >= upload.minArea)
    BY <1>10 DEF LargeBlobs
  <2>2. \A b : b \in LargeBlobs => b \in Blobs
    BY DEF LargeBlobs
  <2>3. \A r : r \in Large <=> \E b \in LargeBlobs : r = Region(BoundingRect(b), "marker")
    BY <1>15, <1>16, <2>1, <2>2 DEF Region
  <2>4. \A b \in LargeBlobs : In(Region(BoundingRect(b), "marker").rect) = Hull(b)
    BY <1>10, <2>2 DEF Region
  <2> HIDE DEF Large
  <2> QED BY <2>3, <2>4
<1>25. Distinct(DetectMarkers) /\ IsFiniteSet(Large) /\ Len(DetectMarkers) = Cardinality(Large)
  <2>1. Distinct(found)
    BY <1>14, <1>24 DEF Distinct
  <2>2. Distinct(kept)
    <3>1. Len(found) \in Nat
      BY <1>6, <1>14
    <3> HIDE DEF Large
    <3> QED BY <2>1, <3>1, KeptDistinct DEF kept
  <2>3. IsFiniteSet(Members(kept)) /\ Cardinality(Members(kept)) = Len(kept)
    BY <1>19, <2>2, DistinctCount
  <2>4. Cardinality(Members(DetectMarkers)) = Len(DetectMarkers)
    BY <1>22, <2>3
  <2>5. Distinct(DetectMarkers)
    BY <1>22, <2>4, DistinctCount
  <2> HIDE DEF Large
  <2> QED BY <1>18, <1>22, <2>3, <2>5
<1>26. Cardinality(LargeBlobs) = Cardinality(Large)
  <2> DEFINE Box(b) == Region(BoundingRect(b), "marker")
             g == [r \in Large |-> CHOOSE b \in LargeBlobs : r = Box(b)]
  <2>1. \A b : b \in LargeBlobs <=>
                b \in Blobs /\ (upload.minArea > 0 => Area(BoundingRect(b)) >= upload.minArea)
    BY <1>10 DEF LargeBlobs
  <2>2. \A r : r \in Large <=> \E b \in LargeBlobs : r = Box(b)
    BY <1>15, <1>16, <2>1 DEF Region
  <2>3. \A b, d \in LargeBlobs : Box(b) = Box(d) => b = d
    <3> TAKE b, d \in LargeBlobs
    <3> HAVE Box(b) = Box(d)
    <3>1. PICK p \in upload.marked : b = Blob(p)
      BY <2>1 DEF Blobs
    <3>2. PICK q \in upload.marked : d = Blob(q)
      BY <2>1 DEF Blobs
    <3>3. BoundingRect(b) = BoundingRect(d)
      BY DEF Region
    <3> QED BY <3>1, <3>2, <3>3, BoxesApart
  <2> HIDE DEF Large, Box
  <2>4. \A r \in Large : g[r] \in LargeBlobs /\ r = Box(g[r])
    BY <2>2
  <2>5. \A b \in LargeBlobs : Box(b) \in Large /\ g[Box(b)] = b
    BY <2>2, <2>3, <2>4
  <2>6. g \in [Large -> LargeBlobs]
    BY <2>4
  <2> HIDE DEF g
  <2>7. g \in Injection(Large, LargeBlobs)
    BY <2>4, <2>6 DEF Injection, IsInjective
  <2>8. g \in Surjection(Large, LargeBlobs)
    BY <2>5, <2>6 DEF Surjection
  <2>9. ExistsBijection(Large, LargeBlobs)
    BY <2>7, <2>8 DEF ExistsBijection, Bijection
  <2> QED BY <1>25, <2>9, FS_Bijection
<1>27. ASSUME NEW a \in 1 .. Len(DetectMarkers), NEW b \in 1 .. Len(DetectMarkers), a < b
       PROVE  Precedes(DetectMarkers[a], DetectMarkers[b])
  <2> DEFINE r == DetectMarkers[a]
             s == DetectMarkers[b]
  <2>1. r # s
    BY <1>25, <1>27 DEF Distinct
  <2>2. ~Precedes(s, r)
    BY <1>22, <1>27
  <2>3. r \in Regions /\ s \in Regions /\ r \in Members(kept) /\ s \in Members(kept)
    <3>1. \A k \in 1 .. Len(DetectMarkers) : DetectMarkers[k] \in Regions
      BY <1>22
    <3>2. \A k \in 1 .. Len(DetectMarkers) : DetectMarkers[k] \in Members(DetectMarkers)
      BY DEF Members
    <3> QED BY <1>22, <3>1, <3>2
  <2>4. r.category = "marker" /\ s.category = "marker"
    BY <1>20, <2>3
  <2> HIDE DEF r, s
  <2>5. r.rect # s.rect
    BY <2>1, <2>3, <2>4 DEF Regions
  <2> QED BY <2>2, <2>3, <2>5, PrecedesEither DEF r, s
<1> QED BY <1>18, <1>20, <1>22, <1>23, <1>25, <1>26, <1>27

(* The members of a list.                                                     *)
LEMMA Listed ==
  ASSUME NEW s, IsList(s)
  PROVE  /\ Len(s) \in Nat /\ DOMAIN s = 1 .. Len(s) /\ s \in [1 .. Len(s) -> Range(s)]
         /\ Range(s) = Members(s)
<1>1. s \in Seq(Range(s))
  BY DEF IsList
<1>2. Len(s) \in Nat /\ DOMAIN s = 1 .. Len(s) /\ s \in [1 .. Len(s) -> Range(s)]
  BY <1>1, LenProperties
<1> QED BY <1>2 DEF Range, Members

(* The first token of a shape decides, as FindString finds it.                *)
LEMMA MatchesFirst ==
  ASSUME NEW text, IsList(text), NEW shape
  PROVE  Matches(text, shape) <=>
           \E k \in DOMAIN text : /\ text[k].shape = shape /\ Valid(shape, text[k].chars)
                                  /\ \A j \in 1 .. k - 1 : text[j].shape # shape
<1> DEFINE S == {t \in Range(text) : t.shape = shape}
           found == Keep(text, S)
           N == Len(text)
           Leads(k) == text[k].shape = shape /\ \A j \in 1 .. k - 1 : text[j].shape # shape
<1>1. N \in Nat /\ DOMAIN text = 1 .. N /\ \A k \in 1 .. N : text[k] \in Range(text)
  BY Listed DEF Range
<1>2. KeptOf(found, text, S, N)
  <2> HIDE DEF S
  <2> QED BY <1>1, KeepSays
<1>3. Matches(text, shape) <=> found # <<>> /\ Valid(shape, found[1].chars)
  BY DEF Matches
<1> HIDE DEF found, N
<1>4. \A k \in 1 .. N : text[k] \in S <=> text[k].shape = shape
  BY <1>1
<1>5. \A k \in 1 .. N : \A j \in 1 .. k - 1 : j \in 1 .. N
  BY <1>1
<1>6. Len(found) \in Nat /\ (found # <<>> <=> Len(found) > 0)
  <2>1. found \in Seq({text[k] : k \in 1 .. N})
    BY <1>2 DEF KeptOf
  <2> QED BY <2>1, EmptySeq
<1>7. Len(found) > 0 => \E k \in 1 .. N : found[1] = text[k] /\ Leads(k)
  <2> HAVE Len(found) > 0
  <2> HIDE DEF S
  <2>1. PICK k \in 1 .. N : found[1] = text[k] /\ text[k] \in S /\ \A j \in 1 .. k - 1 : text[j] \notin S
    BY <1>2 DEF KeptOf
  <2>2. Leads(k)
    BY <1>4, <1>5, <2>1
  <2> QED BY <2>1, <2>2
<1>8. \A k \in 1 .. N : Leads(k) => Len(found) > 0
  <2> TAKE k \in 1 .. N
  <2> HAVE Leads(k)
  <2>1. text[k] \in {found[j] : j \in 1 .. Len(found)}
    BY <1>2, <1>4 DEF KeptOf
  <2> HIDE DEF First
  <2> QED BY <1>6, <2>1
<1>9. \A k, l \in 1 .. N : Leads(k) /\ Leads(l) => k = l
  <2> TAKE k, l \in 1 .. N
  <2> HAVE Leads(k) /\ Leads(l)
  <2>1. ~(k \in 1 .. l - 1) /\ ~(l \in 1 .. k - 1)
    OBVIOUS
  <2> QED BY <1>1, <2>1
<1> HIDE DEF First
<1>10. Matches(text, shape) <=> \E k \in 1 .. N : Leads(k) /\ Valid(shape, text[k].chars)
  BY <1>3, <1>6, <1>7, <1>8, <1>9
<1> QED BY <1>1, <1>10 DEF First

(* A box is reported, as it stands, exactly if its text is genuine.           *)
LEMMA BoxReported ==
  ASSUME NEW box, IsList(box.text), box.rect \in Rects
  PROVE  /\ BoxRegions(box) \in Seq(Regions)
         /\ Genuine(box.text) => \E r : Members(BoxRegions(box)) = {r} /\ r.rect = box.rect
         /\ ~Genuine(box.text) => Members(BoxRegions(box)) = {}
         /\ \A r \in Members(BoxRegions(box)) : r.category \in Range(Patterns)
<1> DEFINE S == {shape \in Range(Patterns) : Matches(box.text, shape)}
           hits == Keep(Patterns, S)
           text == box.text
<1>1. Len(Patterns) = 5 /\ Range(Patterns) = {Patterns[k] : k \in 1 .. 5}
  BY DEF Patterns, Range
<1>2. KeptOf(hits, Patterns, S, 5)
  <2>1. Len(Patterns) \in Nat
    BY <1>1
  <2> HIDE DEF S
  <2>2. KeptOf(Keep(Patterns, S), Patterns, S, Len(Patterns))
    BY <2>1, KeepSays
  <2> QED BY <1>1, <2>2
<1>3. BoxRegions(box) = IF hits = <<>> THEN <<>> ELSE <<Region(box.rect, hits[1])>>
  BY DEF BoxRegions
<1>4. \A shape : Matches(text, shape) <=>
           \E k \in DOMAIN text : /\ text[k].shape = shape /\ Valid(shape, text[k].chars)
                                  /\ \A j \in 1 .. k - 1 : text[j].shape # shape
  BY MatchesFirst
<1>5. Genuine(text) <=> S # {}
  BY <1>4 DEF Genuine
<1> HIDE DEF hits, S
<1>6. S \subseteq {Patterns[k] : k \in 1 .. 5}
  BY <1>1 DEF S
<1>7. hits # <<>> <=> S # {}
  <2>1. hits \in Seq({Patterns[k] : k \in 1 .. 5}) /\ {hits[k] : k \in 1 .. Len(hits)} = S
    BY <1>2, <1>6 DEF KeptOf
  <2>2. Len(hits) \in Nat /\ (hits # <<>> <=> Len(hits) > 0)
    BY <2>1, EmptySeq
  <2>3. Len(hits) > 0 => hits[1] \in S
    BY <2>1, <2>2
  <2>4. S # {} => Len(hits) > 0
    BY <2>1, <2>2
  <2> QED BY <2>2, <2>3, <2>4
<1>8. hits # <<>> => hits[1] \in Range(Patterns)
  <2> HAVE hits # <<>>
  <2>1. hits \in Seq({Patterns[k] : k \in 1 .. 5})
    BY <1>2 DEF KeptOf
  <2>2. Len(hits) \in Nat /\ Len(hits) > 0 /\ hits \in [1 .. Len(hits) -> {Patterns[k] : k \in 1 .. 5}]
    BY <2>1, EmptySeq, LenProperties
  <2>3. 1 \in 1 .. Len(hits)
    BY <2>2
  <2> QED BY <1>1, <2>2, <2>3
<1>9. CASE hits = <<>>
  <2>1. BoxRegions(box) = <<>> /\ ~Genuine(text)
    BY <1>3, <1>5, <1>7, <1>9
  <2>2. <<>> \in Seq(Regions) /\ Members(<<>>) = {}
    BY DEF Members
  <2> QED BY <2>1, <2>2
<1>10. CASE hits # <<>>
  <2> DEFINE r == Region(box.rect, hits[1])
  <2>1. BoxRegions(box) = <<r>> /\ Genuine(text)
    BY <1>3, <1>5, <1>7, <1>10
  <2>2. r \in Regions /\ r.rect = box.rect /\ r.category \in Range(Patterns)
    BY <1>8, <1>10 DEF Region, Regions
  <2> HIDE DEF r
  <2>3. Members(<<r>>) = {r} /\ <<r>> \in Seq(Regions)
    BY <2>2 DEF Members
  <2> QED BY <2>1, <2>2, <2>3
<1> QED BY <1>9, <1>10

\* The pixels of the boxes, one set for each.
Covers(rs) == {In(r.rect) : r \in Members(rs)}

\* The same sets, of those that are not empty.
Same(A, B) == A \union {{}} = B \union {{}}

(* Cutting boxes to the image drops none that has a pixel in it, and changes  *)
(* the pixels of none.                                                        *)
LEMMA ClippedSays ==
  ASSUME IsImage, NEW rs \in Seq(Regions)
  PROVE  /\ Clipped(rs) \in Seq(Regions) /\ Same(Covers(Clipped(rs)), Covers(rs))
         /\ \A r \in Members(Clipped(rs)) : \E t \in Members(rs) : r.category = t.category
<1> DEFINE N == Len(rs)
           Cut(r) == [r EXCEPT !.rect = Intersect(@, Bounds)]
           cut == [k \in DOMAIN rs |-> [rs[k] EXCEPT !.rect = Intersect(@, Bounds)]]
           S == {r \in Range(cut) : ~Empty(r.rect)}
           kept == Keep(cut, S)
<1>1. N \in Nat /\ DOMAIN rs = 1 .. N /\ rs \in [1 .. N -> Regions]
  BY LenProperties
<1>2. ASSUME NEW r \in Regions
      PROVE  /\ Cut(r) \in Regions /\ In(Cut(r).rect) = In(r.rect) /\ IsRect(Cut(r).rect)
             /\ Cut(r).rect \in Rects /\ Cut(r).category = r.category
  <2>1. IsRect(r.rect)
    BY DEF Regions, Rects, IsRect
  <2>2. Cut(r).rect = Intersect(r.rect, Bounds) /\ Cut(r).category = r.category
    BY DEF Regions
  <2>3. In(Intersect(r.rect, Bounds)) = In(r.rect) /\ IsRect(Intersect(r.rect, Bounds))
    BY <2>1, CutIn
  <2>4. Intersect(r.rect, Bounds) \in Rects
    BY <2>3 DEF Intersect, Rect, Rects, IsRect
  <2>5. Cut(r) \in Regions
    BY <2>4 DEF Regions
  <2> QED BY <2>2, <2>3, <2>4, <2>5
<1>3. \A k \in 1 .. N : cut[k] = Cut(rs[k]) /\ rs[k] \in Regions
  BY <1>1
<1> HIDE DEF Cut
<1>4. cut \in [1 .. N -> Regions]
  <2>1. cut = [k \in 1 .. N |-> cut[k]]
    BY <1>1
  <2>2. \A k \in 1 .. N : cut[k] \in Regions
    BY <1>2, <1>3
  <2> HIDE DEF cut
  <2> QED BY <2>1, <2>2
<1> HIDE DEF cut
<1>5. Len(cut) = N /\ Range(cut) = {cut[k] : k \in 1 .. N}
  <2> HIDE DEF N
  <2> QED BY <1>1, <1>4, Tuple DEF Range
<1>6. Clipped(rs) = kept
  BY DEF Clipped, cut
<1>7. KeptOf(kept, cut, S, N)
  <2> HIDE DEF S, N
  <2> QED BY <1>1, <1>5, KeepSays
<1> HIDE DEF kept, N
<1>8. Members(kept) = S
  <2>1. S \subseteq {cut[k] : k \in 1 .. N}
    BY <1>5
  <2> HIDE DEF S
  <2> QED BY <1>7, <2>1 DEF KeptOf, Members
<1>9. kept \in Seq(Regions)
  <2>1. {cut[k] : k \in 1 .. N} \subseteq Regions
    BY <1>4
  <2>2. kept \in Seq({cut[k] : k \in 1 .. N})
    BY <1>7 DEF KeptOf
  <2> QED BY <2>1, <2>2
<1>10. \A x \in Covers(kept) : x \in Covers(rs)
  <2> SUFFICES ASSUME NEW k \in 1 .. N PROVE In(cut[k].rect) \in Covers(rs)
    BY <1>5, <1>8 DEF Covers
  <2>1. In(cut[k].rect) = In(rs[k].rect)
    BY <1>2, <1>3
  <2>2. rs[k] \in Members(rs)
    BY DEF Members, N
  <2> QED BY <2>1, <2>2 DEF Covers
<1>11. \A x \in Covers(rs) : x # {} => x \in Covers(kept)
  <2> SUFFICES ASSUME NEW k \in 1 .. N, In(rs[k].rect) # {} PROVE In(rs[k].rect) \in Covers(kept)
    BY DEF Covers, Members, N
  <2>1. In(cut[k].rect) = In(rs[k].rect) /\ IsRect(cut[k].rect)
    BY <1>2, <1>3
  <2>2. ~Empty(cut[k].rect)
    BY <2>1, EmptyIn
  <2>3. cut[k] \in Members(kept)
    BY <1>5, <1>8, <2>2
  <2> QED BY <2>1, <2>3 DEF Covers
<1>12. \A r \in Members(kept) : \E t \in Members(rs) : r.category = t.category
  <2> SUFFICES ASSUME NEW k \in 1 .. N PROVE \E t \in Members(rs) : cut[k].category = t.category
    BY <1>5, <1>8
  <2>1. cut[k].category = rs[k].category
    BY <1>2, <1>3
  <2>2. rs[k] \in Members(rs)
    BY DEF Members, N
  <2> QED BY <2>1, <2>2
<1> QED BY <1>6, <1>9, <1>10, <1>11, <1>12 DEF Same

(* Boxes inside the image stay as they are.                                   *)
LEMMA ClippedBoxes ==
  ASSUME IsImage, NEW rs \in Seq(Regions), \A r \in Members(rs) : IsBox(r.rect)
  PROVE  Clipped(rs) = rs
<1> DEFINE N == Len(rs)
           cut == [k \in DOMAIN rs |-> [rs[k] EXCEPT !.rect = Intersect(@, Bounds)]]
           S == {r \in Range(cut) : ~Empty(r.rect)}
<1>1. N \in Nat /\ DOMAIN rs = 1 .. N /\ rs \in [1 .. N -> Regions]
  BY LenProperties
<1>2. \A k \in 1 .. N : rs[k] \in Regions /\ IsBox(rs[k].rect)
  BY <1>1 DEF Members
<1>3. ASSUME NEW r \in Regions, IsBox(r.rect)
      PROVE  Intersect(r.rect, Bounds) = r.rect /\ ~Empty(r.rect)
  <2> DEFINE b == r.rect
  <2>1. /\ b \in Rects /\ b.x0 \in Int /\ b.y0 \in Int /\ b.x1 \in Int /\ b.y1 \in Int
        /\ Width \in Int /\ Height \in Int
    BY DEF Regions, Rects, IsImage
  <2>2. /\ b.x0 >= 0 /\ b.y0 >= 0 /\ b.x1 <= Width /\ b.y1 <= Height
        /\ b.x0 < b.x1 /\ b.y0 < b.y1
    BY <1>3, <2>1 DEF IsBox, IsRect
  <2> HIDE DEF b
  <2>3. /\ Max({b.x0, 0}) = b.x0 /\ Max({b.y0, 0}) = b.y0
        /\ Min({b.x1, Width}) = b.x1 /\ Min({b.y1, Height}) = b.y1
    <3>1. 0 \in Int
      OBVIOUS
    <3>2. /\ Max({b.x0, 0}) = IF b.x0 >= 0 THEN b.x0 ELSE 0
          /\ Max({b.y0, 0}) = IF b.y0 >= 0 THEN b.y0 ELSE 0
          /\ Min({b.x1, Width}) = IF b.x1 <= Width THEN b.x1 ELSE Width
          /\ Min({b.y1, Height}) = IF b.y1 <= Height THEN b.y1 ELSE Height
      BY <2>1, <3>1, MaxMin
    <3> QED BY <2>2, <3>2
  <2>4. Intersect(b, Bounds) = Rect(b.x0, b.y0, b.x1, b.y1)
    BY <2>3 DEF Intersect, Bounds, Rect
  <2>5. Rect(b.x0, b.y0, b.x1, b.y1) = b
    BY <2>1 DEF Rect, Rects
  <2>6. ~Empty(b)
    BY <2>1, <2>2 DEF Empty
  <2> QED BY <2>4, <2>5, <2>6 DEF b
<1>4. \A k \in 1 .. N : cut[k] = rs[k]
  <2> TAKE k \in 1 .. N
  <2>1. rs[k] \in Regions /\ Intersect(rs[k].rect, Bounds) = rs[k].rect
    BY <1>2, <1>3
  <2> QED BY <1>1, <2>1 DEF Regions
<1>5. cut = rs
  <2>1. cut = [k \in 1 .. N |-> cut[k]] /\ rs = [k \in 1 .. N |-> rs[k]]
    BY <1>1
  <2> HIDE DEF cut
  <2> QED BY <1>4, <2>1
<1>6. Clipped(rs) = Keep(cut, S)
  BY DEF Clipped
<1> HIDE DEF cut
<1>7. \A k \in 1 .. N : rs[k] \in S
  <2>1. \A k \in 1 .. N : rs[k] \in Range(cut)
    BY <1>1, <1>5 DEF Range
  <2> QED BY <1>2, <1>3, <2>1
<1> HIDE DEF S
<1>8. rs \in Seq(S)
  <2>1. rs \in [1 .. N -> S]
    BY <1>1, <1>7
  <2> HIDE DEF N
  <2> QED BY <1>1, <2>1
<1> QED BY <1>5, <1>6, <1>8, KeepsAll

\* The texts that OCR finds have the types they should.
Texts == /\ IsList(upload.texts)
         /\ \A box \in Range(upload.texts) : IsList(box.text) /\ box.rect \in Rects

(* The text detector reports the boxes with a genuine text.                   *)
LEMMA PIIFound ==
  ASSUME Texts
  PROVE  /\ DetectPII \in Seq(Regions)
         /\ Covers(DetectPII) = {In(box.rect) : box \in {x \in Range(upload.texts) : Genuine(x.text)}}
         /\ \A r \in Members(DetectPII) : r.category \in Range(Patterns)
<1> DEFINE texts == upload.texts
           N == Len(texts)
           ss == [k \in DOMAIN texts |-> BoxRegions(texts[k])]
           flat == FlattenSeq(ss)
<1>1. /\ N \in Nat /\ DOMAIN texts = 1 .. N
      /\ Range(texts) = {texts[k] : k \in 1 .. N}
  BY Listed DEF Texts, Members
<1>2. \A k \in 1 .. N :
        /\ BoxRegions(texts[k]) \in Seq(Regions)
        /\ Genuine(texts[k].text) => \E r : Members(BoxRegions(texts[k])) = {r} /\ r.rect = texts[k].rect
        /\ ~Genuine(texts[k].text) => Members(BoxRegions(texts[k])) = {}
        /\ \A r \in Members(BoxRegions(texts[k])) : r.category \in Range(Patterns)
  <2>1. \A k \in 1 .. N : IsList(texts[k].text) /\ texts[k].rect \in Rects
    BY <1>1 DEF Texts
  <2> QED BY <2>1, BoxReported
<1>3. ss = [k \in 1 .. N |-> BoxRegions(texts[k])]
  BY <1>1
<1> HIDE DEF texts, N, ss
<1>4. ss \in [1 .. N -> Seq(Regions)] /\ \A k \in 1 .. N : ss[k] = BoxRegions(texts[k])
  BY <1>2, <1>3
<1>5. flat \in Seq(Regions) /\ Members(flat) = UNION {Members(ss[k]) : k \in 1 .. N}
  BY <1>1, <1>4, FlattenSays
<1>6. DetectPII = Sorted(flat)
  BY DEF DetectPII, ss, texts
<1> HIDE DEF flat
<1>7. \A k \in 1 .. Len(flat) : IsRect(flat[k].rect)
  <2>1. \A k \in 1 .. Len(flat) : flat[k] \in Regions
    BY <1>5
  <2> QED BY <2>1 DEF Regions, Rects, IsRect
<1>8. DetectPII \in Seq(Regions) /\ Members(DetectPII) = Members(flat)
  BY <1>5, <1>6, <1>7, SortedSays
<1>9. {r.rect : r \in Members(flat)} = {texts[k].rect : k \in {j \in 1 .. N : Genuine(texts[j].text)}}
  <2>1. Members(flat) = UNION {Members(BoxRegions(texts[k])) : k \in 1 .. N}
    BY <1>4, <1>5
  <2>2. ASSUME NEW r \in Members(flat)
        PROVE  \E k \in 1 .. N : Genuine(texts[k].text) /\ r.rect = texts[k].rect
    <3>1. PICK k \in 1 .. N : r \in Members(BoxRegions(texts[k]))
      BY <2>1
    <3>2. Genuine(texts[k].text)
      BY <1>2, <3>1
    <3>3. PICK s : Members(BoxRegions(texts[k])) = {s} /\ s.rect = texts[k].rect
      BY <1>2, <3>2
    <3> QED BY <3>1, <3>2, <3>3
  <2>3. ASSUME NEW k \in 1 .. N, Genuine(texts[k].text)
        PROVE  \E r \in Members(flat) : r.rect = texts[k].rect
    BY <1>2, <2>1, <2>3
  <2> QED BY <2>2, <2>3
<1>10. Covers(DetectPII) = {In(x) : x \in {r.rect : r \in Members(flat)}}
  BY <1>8 DEF Covers
<1>11. {In(box.rect) : box \in {x \in Range(upload.texts) : Genuine(x.text)}} =
       {In(x) : x \in {texts[k].rect : k \in {j \in 1 .. N : Genuine(texts[j].text)}}}
  BY <1>1 DEF texts
<1>12. \A r \in Members(DetectPII) : r.category \in Range(Patterns)
  BY <1>2, <1>4, <1>5, <1>8
<1> QED BY <1>8, <1>9, <1>10, <1>11, <1>12

\* What one detector has to hide.
ZonesOf(name) == CASE name = "region-marker" -> {Hull(b) : b \in LargeBlobs}
                   [] name = "regex-pii" -> {In(box.rect) : box \in {x \in Range(upload.texts) :
                                                                      Genuine(x.text)}}
                   [] name = "full-image" -> {Points}

\* An image that is decoded, and settings of the types they have.
Decoded == /\ IsMarked /\ Texts
           /\ upload.minArea \in Int /\ upload.radius \in Int
           /\ upload.action \in {"redact", "blur"}
           /\ IsList(upload.detectors)

(* Each detector covers what it has to hide and nothing else.                 *)
LEMMA DetectorFinds ==
  ASSUME Decoded, NEW name \in Registry
  PROVE  /\ Clipped(DetectWith(name)) \in Seq(Regions)
         /\ Same(Covers(Clipped(DetectWith(name))), ZonesOf(name))
<1>1. DetectWith(name) \in Seq(Regions) /\ Covers(DetectWith(name)) = ZonesOf(name)
  <2>1. CASE name = "region-marker"
    <3>1. DetectWith(name) = DetectMarkers /\ ZonesOf(name) = {Hull(b) : b \in LargeBlobs}
      BY <2>1 DEF DetectWith, ZonesOf
    <3> QED BY <3>1, MarkersFound DEF Decoded, Covers
  <2>2. CASE name = "regex-pii"
    <3>1. /\ DetectWith(name) = DetectPII
          /\ ZonesOf(name) = {In(box.rect) : box \in {x \in Range(upload.texts) : Genuine(x.text)}}
      BY <2>2 DEF DetectWith, ZonesOf
    <3> QED BY <3>1, PIIFound DEF Decoded
  <2>3. CASE name = "full-image"
    <3> DEFINE r == Region(Bounds, "full-image")
    <3>1. DetectWith(name) = <<r>> /\ ZonesOf(name) = {Points}
      BY <2>3 DEF DetectWith, ZonesOf
    <3>2. r \in Regions /\ r.rect = Bounds
      BY DEF Decoded, IsMarked, IsImage, Region, Regions, Rects, Bounds, Rect
    <3>3. In(Bounds) = Points
      BY DEF In, Bounds, Rect, Points, Decoded, IsMarked, IsImage
    <3> HIDE DEF r
    <3>4. <<r>> \in Seq(Regions) /\ Members(<<r>>) = {r}
      BY <3>2 DEF Members
    <3> QED BY <3>1, <3>2, <3>3, <3>4 DEF Covers
  <2> QED BY <2>1, <2>2, <2>3 DEF Registry
<1> HIDE DEF Registry
<1>2. IsImage
  BY DEF Decoded, IsMarked
<1> QED BY <1>1, <1>2, ClippedSays

\* What Detect reports.
Found == FlattenSeq([k \in DOMAIN upload.detectors |-> Clipped(DetectWith(upload.detectors[k]))])

(* The detectors together cover what should be hidden and nothing else.       *)
LEMMA ZonesFound ==
  ASSUME Decoded, Range(upload.detectors) \subseteq Registry
  PROVE  Found \in Seq(Regions) /\ Same(Covers(Found), Zones)
<1> DEFINE names == upload.detectors
           N == Len(names)
           C(k) == Clipped(DetectWith(names[k]))
           ss == [k \in DOMAIN names |-> C(k)]
<1>1. /\ N \in Nat /\ DOMAIN names = 1 .. N
      /\ Range(names) = {names[k] : k \in 1 .. N}
  BY Listed DEF Decoded, Members
<1>2. \A k \in 1 .. N : /\ C(k) \in Seq(Regions)
                        /\ Same(Covers(C(k)), ZonesOf(names[k]))
  <2>1. \A k \in 1 .. N : names[k] \in Registry
    BY <1>1
  <2> QED BY <2>1, DetectorFinds
<1>3. Found = FlattenSeq(ss)
  BY DEF Found
<1> HIDE DEF names, N, C
<1>4. ss \in [1 .. N -> Seq(Regions)] /\ \A k \in 1 .. N : ss[k] = C(k)
  BY <1>1, <1>2
<1> HIDE DEF ss
<1>5. Found \in Seq(Regions) /\ Members(Found) = UNION {Members(ss[k]) : k \in 1 .. N}
  BY <1>1, <1>3, <1>4, FlattenSays
<1>6. Zones = UNION {ZonesOf(name) : name \in Range(names)}
  BY DEF Zones, ZonesOf, names
<1>7. ASSUME NEW x, x \in Covers(Found) PROVE x = {} \/ x \in Zones
  <2>1. PICK r \in Members(Found) : x = In(r.rect)
    BY <1>7 DEF Covers
  <2>2. PICK k \in 1 .. N : r \in Members(C(k))
    BY <1>4, <1>5
  <2>3. x \in Covers(C(k))
    BY <2>1, <2>2 DEF Covers
  <2>4. x = {} \/ x \in ZonesOf(names[k])
    BY <1>2, <2>3 DEF Same
  <2> QED BY <1>1, <1>6, <2>4
<1>8. ASSUME NEW x, x \in Zones PROVE x = {} \/ x \in Covers(Found)
  <2>1. PICK k \in 1 .. N : x \in ZonesOf(names[k])
    BY <1>1, <1>6, <1>8
  <2>2. x = {} \/ x \in Covers(C(k))
    BY <1>2, <2>1 DEF Same
  <2>3. Covers(C(k)) \subseteq Covers(Found)
    BY <1>4, <1>5 DEF Covers
  <2> QED BY <2>2, <2>3
<1> QED BY <1>5, <1>7, <1>8 DEF Same

-----------------------------------------------------------------------------
(* The zones stay what they are while the upload does.  Blob is the least of  *)
(* a kind of sets, in this state and in the next, and so it is the same.      *)
Leasts == \A p \in upload.marked :
  /\ p \in Blob(p) /\ Blob(p) \subseteq upload.marked /\ Closed(Blob(p))
  /\ \A S : p \in S /\ Closed(S) => Blob(p) \subseteq S

(* Blobs are least sets in every state,                                       *)
LEMMA BlobsLeast == IsMarked => Leasts
BY BlobIsLeast DEF Leasts

(* and so in the next one.                                                    *)
LEMMA BlobsLeastNext == (IsMarked => Leasts)'
BY BlobsLeast, PTL

(* So the blob of a pixel depends on the upload alone.                        *)
LEMMA BlobsStay ==
  ASSUME IsMarked, upload' = upload
  PROVE  \A p \in upload.marked : Blob(p)' = Blob(p)
<1>0. IsMarked'
  BY DEF IsMarked, IsImage, Width, Height, Points
<1>1. Leasts /\ Leasts'
  BY <1>0, BlobsLeast, BlobsLeastNext
<1> TAKE p \in upload.marked
<1> DEFINE a == Blob(p)
           b == Blob(p)'
           C(S) == \A r \in S : \A q \in upload.marked : Touch(q, r) => q \in S
<1>2. \A S : Closed(S) <=> C(S)
  BY DEF Closed
<1>3. p \in a /\ C(a) /\ \A S : p \in S /\ C(S) => a \subseteq S
  BY <1>1, <1>2 DEF Leasts
<1>4. p \in b /\ C(b) /\ \A S : p \in S /\ C(S) => b \subseteq S
  <2> HIDE DEF b
  <2>1. \A q \in upload'.marked :
          /\ q \in Blob(q)' /\ Blob(q)' \subseteq upload'.marked /\ Closed(Blob(q))'
          /\ \A S : q \in S /\ Closed(S)' => Blob(q)' \subseteq S
    BY <1>1 DEF Leasts
  <2>2. Closed(Blob(p))' <=> C(b)
    BY DEF Closed, Touch, b
  <2>3. \A S : Closed(S)' <=> C(S)
    BY DEF Closed
  <2> QED BY <2>1, <2>2, <2>3 DEF b
<1> QED BY <1>3, <1>4

(* What should be hidden depends on the upload alone.                         *)
LEMMA ZonesStay ==
  ASSUME IsMarked, upload' = upload
  PROVE  Zones' = Zones /\ Points' = Points
<1>1. \A p \in upload.marked : Blob(p)' = Blob(p)
  BY BlobsStay
<1>2. Points' = Points
  BY DEF Points, Width, Height
<1>3. Blobs' = Blobs
  BY <1>1 DEF Blobs
<1>4. \A b : Hull(b)' = Hull(b)
  BY <1>2 DEF Hull
<1>5. LargeBlobs' = LargeBlobs
  BY <1>3, <1>4 DEF LargeBlobs
<1>6. {Hull(b) : b \in LargeBlobs}' = {Hull(b) : b \in LargeBlobs}
  BY <1>4, <1>5
<1>7. \A r : In(r)' = In(r)
  BY <1>2 DEF In
<1>8. {In(box.rect) : box \in {x \in Range(upload.texts) : Genuine(x.text)}}' =
      {In(box.rect) : box \in {x \in Range(upload.texts) : Genuine(x.text)}}
  BY <1>7
<1>9. \A name : ZonesOf(name)' = ZonesOf(name)
  BY <1>2, <1>6, <1>8 DEF ZonesOf
<1>10. Zones' = Zones
  <2>1. Zones = UNION {ZonesOf(name) : name \in Range(upload.detectors)}
    BY DEF Zones, ZonesOf
  <2>2. Zones' = UNION {ZonesOf(name)' : name \in Range(upload'.detectors)}
    BY DEF Zones, ZonesOf
  <2> QED BY <1>9, <2>1, <2>2
<1> QED BY <1>2, <1>10

\* The regions are the zones, and the output is what the regions say.
MaskInv ==
  /\ step \in {"detected", "masked"} => regions \in Seq(Regions) /\ Same(Covers(regions), Zones)
  /\ step = "masked" => IF upload.action = "blur" THEN Smears(out, regions, Len(regions))
                        ELSE Redacts(out, regions, Len(regions))

(* An upload that passed Decode has the types the proofs above ask for.       *)
LEMMA UploadsDecoded == IInv /\ step \notin {"new", "refused"} => Decoded
<1> SUFFICES ASSUME IInv, step \notin {"new", "refused"} PROVE Decoded
  OBVIOUS
<1>1. PICK family \in Families : upload \in family
  BY DEF IInv
<1>2. /\ \A n \in {Width, Height, upload.maxPixels, upload.minArea, upload.radius} : n \in Word
      /\ upload.actual = upload.header => upload.marked \subseteq Points
      /\ upload.action \in {"redact", "blur"}
      /\ IsList(upload.detectors) /\ IsList(upload.texts)
      /\ \A box \in Range(upload.texts) :
           box.rect \in [x0 : Word, y0 : Word, x1 : Word, y1 : Word] /\ IsList(box.text)
  BY <1>1, FamiliesAssumption DEF Width, Height, Points
<1>3. Width >= 1 /\ Height >= 1 /\ upload.actual = upload.header
  BY DEF IInv, PixelCapExact
<1>4. \A n \in Word : n \in Int
  BY MaxIntAssumption DEF Word
<1>5. IsMarked
  BY <1>2, <1>3, <1>4 DEF IsMarked, IsImage
<1>6. \A r \in [x0 : Word, y0 : Word, x1 : Word, y1 : Word] : r \in Rects
  BY <1>4 DEF Rects
<1>7. Texts
  BY <1>2, <1>6 DEF Texts
<1> QED BY <1>2, <1>4, <1>5, <1>7 DEF Decoded

\* The regions that Mask goes through.
LEMMA ListsRegions ==
  ASSUME NEW rs \in Seq(Regions) PROVE RegionList(rs) /\ Covered(rs, Len(rs)) = UNION Covers(rs)
<1>1. Len(rs) \in Nat /\ \A k \in 1 .. Len(rs) : rs[k] \in Regions
  OBVIOUS
<1>2. RegionList(rs)
  BY <1>1 DEF RegionList, IsRect, Regions, Rects
<1>3. Covered(rs, Len(rs)) = UNION Covers(rs)
  BY DEF Covered, Covers, Members
<1> QED BY <1>2, <1>3

(* At first there is no region and no output.                                 *)
LEMMA InitMaskInv == Init => MaskInv
BY DEF Init, MaskInv

(* What was said of regions and output stays true while they do.              *)
LEMMA CoversStay ==
  ASSUME Decoded, upload' = upload, regions' = regions
  PROVE  /\ Same(Covers(regions), Zones)' <=> Same(Covers(regions), Zones)
         /\ Smears(out, regions, Len(regions))' <=> Smears(out', regions, Len(regions))
         /\ Redacts(out, regions, Len(regions))' <=> Redacts(out', regions, Len(regions))
<1>1. Zones' = Zones /\ Points' = Points
  BY ZonesStay DEF Decoded
<1>2. \A r : In(r)' = In(r)
  BY <1>1 DEF In
<1>3. Covers(regions)' = Covers(regions)
  BY <1>2 DEF Covers
<1>4. Same(Covers(regions), Zones)' <=> Same(Covers(regions), Zones)
  BY <1>1, <1>3 DEF Same
<1>5. Covered(regions, Len(regions))' = Covered(regions, Len(regions))
  BY <1>2 DEF Covered
<1>6. Redacts(out, regions, Len(regions))' <=> Redacts(out', regions, Len(regions))
  BY <1>1, <1>5 DEF Redacts
<1> DEFINE Wide(p) == \E k \in 1 .. Len(regions) : p \in In(regions[k].rect) /\ In(regions[k].rect) # {p}
<1>7. \A p : Wide(p)' <=> Wide(p)
  BY <1>2
<1>8. Smears(out', regions, Len(regions)) <=>
        \A p \in Points :
          /\ p \in out'[p]
          /\ p \notin Covered(regions, Len(regions)) => out'[p] = {p}
          /\ p \in Covered(regions, Len(regions)) => out'[p] \subseteq Covered(regions, Len(regions))
          /\ Wide(p) => out'[p] # {p}
  BY DEF Smears
<1>9. Smears(out, regions, Len(regions))' <=>
        \A p \in Points' :
          /\ p \in out'[p]
          /\ p \notin Covered(regions, Len(regions))' => out'[p] = {p}
          /\ p \in Covered(regions, Len(regions))' => out'[p] \subseteq Covered(regions, Len(regions))'
          /\ Wide(p)' => out'[p] # {p}
  BY DEF Smears
<1> HIDE DEF Wide
<1>10. Smears(out, regions, Len(regions))' <=> Smears(out', regions, Len(regions))
  BY <1>1, <1>5, <1>7, <1>8, <1>9
<1> QED BY <1>4, <1>6, <1>10

(* Detect finds the zones and Mask hides what it found.                       *)
LEMMA NextMaskInv == IInv /\ MaskInv /\ [Next]_vars => MaskInv'
<1> SUFFICES ASSUME IInv, MaskInv, [Next]_vars PROVE MaskInv'
  OBVIOUS
<1>1. CASE Decode
  <2>1. step' \in {"decoded", "refused"}
    BY <1>1 DEF Decode, Refuse
  <2> QED BY <2>1 DEF MaskInv
<1>2. CASE Detect
  <2>1. step' \in {"detected", "refused"} /\ upload' = upload /\ step = "decoded"
    BY <1>2 DEF Detect, Refuse
  <2>2. CASE step' = "refused"
    BY <2>2 DEF MaskInv
  <2>3. CASE step' = "detected"
    <3>1. Decoded
      BY <2>1, UploadsDecoded
    <3>2. Range(upload.detectors) \subseteq Registry /\ regions' = Found
      BY <1>2, <2>3 DEF Detect, Refuse, Found
    <3>3. regions' \in Seq(Regions) /\ Same(Covers(regions'), Zones)
      BY <3>1, <3>2, ZonesFound
    <3>4. Zones' = Zones /\ Points' = Points
      BY <2>1, <3>1, ZonesStay DEF Decoded
    <3>5. Covers(regions)' = Covers(regions')
      BY <3>4 DEF Covers, In
    <3> QED BY <2>3, <3>3, <3>4, <3>5 DEF MaskInv, Same
  <2> QED BY <2>1, <2>2, <2>3
<1>3. CASE Mask
  <2>1. /\ step = "detected" /\ step' = "masked" /\ UNCHANGED <<upload, regions>>
        /\ out' = MaskedBy(regions)[Len(regions)]
    BY <1>3 DEF Mask
  <2>2. Decoded
    BY <2>1, UploadsDecoded
  <2>4. regions \in Seq(Regions) /\ Same(Covers(regions), Zones)
    BY <2>1 DEF MaskInv
  <2>5. IF upload.action = "blur" THEN Smears(out', regions, Len(regions))
        ELSE Redacts(out', regions, Len(regions))
    BY <2>1, <2>2, <2>4, ListsRegions, MaskedAll DEF Decoded, IsMarked
  <2>6. /\ Same(Covers(regions), Zones)' <=> Same(Covers(regions), Zones)
        /\ Smears(out, regions, Len(regions))' <=> Smears(out', regions, Len(regions))
        /\ Redacts(out, regions, Len(regions))' <=> Redacts(out', regions, Len(regions))
    BY <2>1, <2>2, CoversStay
  <2> QED BY <2>1, <2>4, <2>5, <2>6 DEF MaskInv
<1>4. CASE UNCHANGED vars
  <2>1. step' = step /\ upload' = upload /\ regions' = regions /\ out' = out
    BY <1>4 DEF vars
  <2>2. CASE step \in {"detected", "masked"}
    <3>1. Decoded
      BY <2>2, UploadsDecoded
    <3>2. /\ Same(Covers(regions), Zones)' <=> Same(Covers(regions), Zones)
          /\ Smears(out, regions, Len(regions))' <=> Smears(out', regions, Len(regions))
          /\ Redacts(out, regions, Len(regions))' <=> Redacts(out', regions, Len(regions))
      BY <2>1, <3>1, CoversStay
    <3> QED BY <2>1, <3>2 DEF MaskInv
  <2>3. CASE step \notin {"detected", "masked"}
    BY <2>1, <2>3 DEF MaskInv
  <2> QED BY <2>2, <2>3
<1> QED BY <1>1, <1>2, <1>3, <1>4 DEF Next

(* A masked image is what MaskCoversRegions says.                             *)
LEMMA MaskedIsCovered == IInv /\ MaskInv => MaskCoversRegions
<1> SUFFICES ASSUME IInv, MaskInv, step = "masked" PROVE MaskCoversRegions
  BY DEF MaskCoversRegions
<1> DEFINE hidden == UNION Zones
           N == Len(regions)
<1>1. Decoded
  BY UploadsDecoded
<1>2. /\ regions \in Seq(Regions) /\ Same(Covers(regions), Zones)
      /\ IF upload.action = "blur" THEN Smears(out, regions, N) ELSE Redacts(out, regions, N)
  BY DEF MaskInv
<1>3. Covered(regions, N) = hidden
  BY <1>2, ListsRegions DEF Same
<1>4. \A z \in Zones : z # {} => \E k \in 1 .. N : z = In(regions[k].rect)
  BY <1>2 DEF Same, Covers, Members
<1> HIDE DEF hidden, N
<1>5. CASE upload.action = "redact"
  BY <1>2, <1>3, <1>5 DEF MaskCoversRegions, Redacts, hidden
<1>6. CASE upload.action = "blur"
  <2>1. Smears(out, regions, N)
    BY <1>2, <1>6
  <2>2. \A p \in Points : (\E z \in Zones : p \in z /\ z # {p}) => out[p] # {p}
    BY <1>4, <2>1 DEF Smears
  <2> QED BY <1>3, <1>6, <2>1, <2>2 DEF MaskCoversRegions, Smears, hidden
<1> QED BY <1>1, <1>5, <1>6 DEF Decoded

(* What is to be hidden is hidden, whatever the image, the detectors and the  *)
(* texts: under a solid mask it depends on no pixel of the original, a blur   *)
(* mixes every pixel of it with another one of it, and the rest is as it was. *)
THEOREM ImagingMaskCoversRegions == Spec => []MaskCoversRegions
BY InitIInv, NextIInv, InitMaskInv, NextMaskInv, MaskedIsCovered, PTL DEF Spec

-----------------------------------------------------------------------------
(* What the marker detector reports stays apart from the other regions by its *)
(* category, and in its order, wherever it is in the list of detectors.       *)

(* No other detector reports a region as a marker's.                          *)
LEMMA OthersUnmarked ==
  ASSUME Decoded, NEW name \in Registry, name # "region-marker"
  PROVE  \A r \in Members(Clipped(DetectWith(name))) : r.category # "marker"
<1>1. DetectWith(name) \in Seq(Regions) /\ \A r \in Members(DetectWith(name)) : r.category # "marker"
  <2>1. CASE name = "regex-pii"
    <3>1. DetectWith(name) = DetectPII
      BY <2>1 DEF DetectWith
    <3>2. "marker" \notin Range(Patterns)
      BY DEF Patterns, Range
    <3> QED BY <3>1, <3>2, PIIFound DEF Decoded
  <2>2. CASE name = "full-image"
    <3> DEFINE r == Region(Bounds, "full-image")
    <3>1. DetectWith(name) = <<r>>
      BY <2>2 DEF DetectWith
    <3>2. r \in Regions /\ r.category = "full-image"
      BY DEF Decoded, IsMarked, IsImage, Region, Regions, Rects, Bounds, Rect
    <3> HIDE DEF r
    <3>3. <<r>> \in Seq(Regions) /\ Members(<<r>>) = {r}
      BY <3>2 DEF Members
    <3> QED BY <3>1, <3>2, <3>3
  <2> QED BY <2>1, <2>2 DEF Registry
<1>2. IsImage
  BY DEF Decoded, IsMarked
<1> HIDE DEF Registry
<1>3. \A r \in Members(Clipped(DetectWith(name))) :
        \E t \in Members(DetectWith(name)) : r.category = t.category
  BY <1>1, <1>2, ClippedSays
<1> QED BY <1>1, <1>3

(* The regions in the marker's category are those of the marker detector.     *)
LEMMA MarkersKept ==
  ASSUME Decoded, Range(upload.detectors) \subseteq Registry, MarksOnce
  PROVE  Keep(Found, {r \in Range(Found) : r.category = "marker"}) = DetectMarkers
<1> DEFINE names == upload.detectors
           N == Len(names)
           C(i) == Clipped(DetectWith(names[i]))
           ss == [i \in DOMAIN names |-> C(i)]
           S == {r \in Range(Found) : r.category = "marker"}
<1>1. /\ N \in Nat /\ DOMAIN names = 1 .. N
      /\ Range(names) = {names[i] : i \in 1 .. N}
  BY Listed DEF Decoded, Members
<1>0. PICK k \in DOMAIN names : \A j \in DOMAIN names : names[j] = "region-marker" <=> j = k
  BY DEF MarksOnce
<1>2. k \in 1 .. N /\ \A j \in 1 .. N : names[j] = "region-marker" <=> j = k
  BY <1>0, <1>1
<1>3. \A i \in 1 .. N : names[i] \in Registry
  BY <1>1
<1>4. \A i \in 1 .. N : C(i) \in Seq(Regions)
  BY <1>3, DetectorFinds
<1>5. \A i \in 1 .. N : i # k => \A r \in Members(C(i)) : r.category # "marker"
  BY <1>2, <1>3, OthersUnmarked
<1>6. C(k) = DetectMarkers /\ \A r \in Members(DetectMarkers) : r.category = "marker"
  <2>1. IsMarked /\ IsImage /\ upload.minArea \in Int
    BY DEF Decoded, IsMarked
  <2>2. /\ DetectMarkers \in Seq(Regions)
        /\ \A r \in Members(DetectMarkers) : IsBox(r.rect) /\ r.category = "marker"
    BY <2>1, MarkersFound
  <2>3. DetectWith(names[k]) = DetectMarkers
    BY <1>2 DEF DetectWith
  <2> QED BY <2>1, <2>2, <2>3, ClippedBoxes
<1>7. Found = FlattenSeq(ss)
  BY DEF Found
<1> HIDE DEF names, N, C
<1>8. ss \in [1 .. N -> Seq(Regions)] /\ \A i \in 1 .. N : ss[i] = C(i)
  BY <1>1, <1>4
<1> HIDE DEF ss
<1>9. Found \in Seq(Regions) /\ Members(Found) = UNION {Members(ss[i]) : i \in 1 .. N}
  BY <1>1, <1>7, <1>8, FlattenSays
<1>10. Range(Found) = Members(Found)
  <2>1. DOMAIN Found = 1 .. Len(Found)
    BY <1>9, LenProperties
  <2> QED BY <2>1 DEF Range, Members
<1>11. DetectMarkers \in Seq(S)
  <2>1. DetectMarkers \in Seq(Regions) /\ Members(DetectMarkers) \subseteq S
    BY <1>2, <1>4, <1>6, <1>8, <1>9, <1>10
  <2> HIDE DEF S
  <2>2. /\ Len(DetectMarkers) \in Nat
        /\ DetectMarkers \in [1 .. Len(DetectMarkers) -> Regions]
        /\ \A i \in 1 .. Len(DetectMarkers) : DetectMarkers[i] \in S
    BY <2>1, LenProperties DEF Members
  <2>3. DetectMarkers \in [1 .. Len(DetectMarkers) -> S]
    BY <2>2
  <2> QED BY <2>2, <2>3
<1>12. \A i \in 1 .. N : i # k => \A r \in Members(ss[i]) : r \notin S
  BY <1>5, <1>8
<1>13. ss[k] \in Seq(S) /\ ss[k] = DetectMarkers
  BY <1>2, <1>6, <1>8, <1>11
<1> HIDE DEF S
<1>14. Keep(FlattenSeq(ss), S) = ss[k]
  <2>1. OneIn(ss, N, S, k)
    BY <1>12, <1>13 DEF OneIn
  <2> QED BY <1>1, <1>2, <1>8, <2>1, FlattenKeeps
<1> QED BY <1>7, <1>13, <1>14 DEF S

\* What BoxesAreComponents says of a list of regions.
Reports(rs) ==
  LET found == Keep(rs, {r \in Range(rs) : r.category = "marker"})
  IN /\ {In(r.rect) : r \in Range(found)} = {Hull(b) : b \in LargeBlobs}
     /\ Len(found) = Cardinality(LargeBlobs)
     /\ \A k \in 1 .. Len(found) - 1 : Precedes(found[k], found[k + 1])

(* Detect reports what it should.                                             *)
LEMMA FoundReports ==
  ASSUME Decoded, Range(upload.detectors) \subseteq Registry, MarksOnce
  PROVE  Reports(Found)
<1> DEFINE D == DetectMarkers
<1>1. Keep(Found, {r \in Range(Found) : r.category = "marker"}) = D
  BY MarkersKept
<1>2. /\ D \in Seq(Regions)
      /\ {In(r.rect) : r \in Members(D)} = {Hull(b) : b \in LargeBlobs}
      /\ Len(D) = Cardinality(LargeBlobs)
      /\ \A a, b \in 1 .. Len(D) : a < b => Precedes(D[a], D[b])
  BY MarkersFound DEF Decoded
<1> HIDE DEF D
<1>3. Len(D) \in Nat /\ DOMAIN D = 1 .. Len(D)
  BY <1>2, LenProperties
<1>4. Range(D) = Members(D)
  BY <1>3 DEF Range, Members
<1>5. \A k \in 1 .. Len(D) - 1 : k \in 1 .. Len(D) /\ k + 1 \in 1 .. Len(D) /\ k < k + 1
  BY <1>3
<1>6. \A k \in 1 .. Len(D) - 1 : Precedes(D[k], D[k + 1])
  BY <1>2, <1>5
<1> QED BY <1>1, <1>2, <1>4, <1>6 DEF Reports

(* What is said of a list of regions depends on the upload alone.             *)
LEMMA ReportsStay ==
  ASSUME IsMarked, upload' = upload
  PROVE  Reports(regions)' <=> Reports(regions')
<1>1. Points' = Points
  BY ZonesStay
<1>2. \A r : In(r)' = In(r)
  BY <1>1 DEF In
<1>3. \A b : Hull(b)' = Hull(b)
  BY <1>1 DEF Hull
<1>4. \A p \in upload.marked : Blob(p)' = Blob(p)
  BY BlobsStay
<1>5. Blobs' = Blobs
  BY <1>4 DEF Blobs
<1>6. LargeBlobs' = LargeBlobs
  BY <1>3, <1>5 DEF LargeBlobs
<1>7. {Hull(b) : b \in LargeBlobs}' = {Hull(b) : b \in LargeBlobs}
  BY <1>3, <1>6
<1> QED BY <1>2, <1>6, <1>7 DEF Reports

(* At first nothing was detected.                                             *)
LEMMA InitBoxes == Init => BoxesAreComponents
BY DEF Init, BoxesAreComponents

(* Detect reports what it should, and no other step reports anything.         *)
LEMMA NextBoxes == IInv /\ BoxesAreComponents /\ [Next]_vars => BoxesAreComponents'
<1> SUFFICES ASSUME IInv, BoxesAreComponents, [Next]_vars PROVE BoxesAreComponents'
  OBVIOUS
<1>1. BoxesAreComponents <=> (step = "detected" /\ MarksOnce => Reports(regions))
  BY DEF BoxesAreComponents, Reports
<1>2. BoxesAreComponents' <=> (step' = "detected" /\ MarksOnce' => Reports(regions)')
  BY DEF BoxesAreComponents, Reports
<1>3. upload' = upload => (MarksOnce' <=> MarksOnce)
  BY DEF MarksOnce
<1>4. CASE Decode
  <2>1. step' \in {"decoded", "refused"}
    BY <1>4 DEF Decode, Refuse
  <2> QED BY <1>2, <2>1
<1>5. CASE Detect
  <2>1. step' \in {"detected", "refused"} /\ upload' = upload /\ step = "decoded"
    BY <1>5 DEF Detect, Refuse
  <2>2. CASE step' = "refused"
    BY <1>2, <2>2
  <2>3. CASE step' = "detected" /\ MarksOnce
    <3>1. Decoded
      BY <2>1, UploadsDecoded
    <3>2. Range(upload.detectors) \subseteq Registry /\ regions' = Found
      BY <1>5, <2>3 DEF Detect, Refuse, Found
    <3>3. Reports(regions')
      BY <2>3, <3>1, <3>2, FoundReports
    <3>4. Reports(regions)'
      BY <2>1, <3>1, <3>3, ReportsStay DEF Decoded
    <3> QED BY <1>2, <3>4
  <2> QED BY <1>2, <1>3, <2>1, <2>2, <2>3
<1>6. CASE Mask
  <2>1. step' = "masked"
    BY <1>6 DEF Mask
  <2> QED BY <1>2, <2>1
<1>7. CASE UNCHANGED vars
  <2>1. step' = step /\ upload' = upload /\ regions' = regions
    BY <1>7 DEF vars
  <2>2. CASE step = "detected" /\ MarksOnce
    <3>1. Decoded
      BY <2>2, UploadsDecoded
    <3>2. Reports(regions)' <=> Reports(regions')
      BY <2>1, <3>1, ReportsStay DEF Decoded
    <3> QED BY <1>1, <1>2, <2>1, <2>2, <3>2
  <2> QED BY <1>2, <1>3, <2>1, <2>2
<1> QED BY <1>4, <1>5, <1>6, <1>7 DEF Next

(* Each blob of marked pixels is reported exactly once, by the smallest box   *)
(* around it and in one order, whatever the shape of the image, the blobs and *)
(* the list of detectors.                                                     *)
THEOREM ImagingBoxesAreComponents == Spec => []BoxesAreComponents
BY InitIInv, NextIInv, InitBoxes, NextBoxes, PTL DEF Spec
=============================================================================
