------------------------------- MODULE Strip --------------------------------
(* internal/exif: Strip and StripPNG copy an image without its metadata, one  *)
(* segment or chunk per turn of their loops.  A file is a sequence of pieces; *)
(* what the loops look at of a piece is its kind, whether its length fits and *)
(* where it stands.  (Fill bytes before a marker belong to that marker.)      *)
(*                                                                            *)
(* An operator whose comment starts with FAULT is a bug that could have been  *)
(* written in place of the definition below it; no specification uses it.     *)
EXTENDS Naturals, Sequences, SequencesExt, Filter

CONSTANT MaxPieces   \* bound on the pieces of a file

ASSUME MaxPiecesAssumption == MaxPieces \in Nat

JpegPieces == {"SOI", "EOI", "SOS",
               "meta",     \* APP1, APP13 or COM
               "table",    \* any other segment with a length
               "lone",     \* RSTn or TEM: no length
               "scan",     \* bytes that do not begin with 0xFF
               "cut"}      \* a segment whose length is below 2 or overruns the file
PngPieces == {"signature",
              "image",     \* a chunk of keptPNGChunks other than IEND
              "IEND",
              "ancillary", \* any other chunk: eXIf, tEXt, iTXt, zTXt, tIME, unknown ones
              "cut"}       \* a chunk that is truncated or overruns the file

VARIABLES png,      \* StripPNG is called, not Strip
          data,     \* the input
          pos,      \* the pieces already consumed
          stripped, \* the output so far
          result    \* "running", "ok" or the error

stripVars == <<png, data, pos, stripped, result>>

\* A payload, whole or cut, may end in the bytes FF D9; entropy-coded data may not.
MayEndInEOI(p) == p \in {"SOS", "meta", "table", "cut"}

Files(S) == UNION {[1 .. n -> S] : n \in 0 .. MaxPieces}

StripInit == /\ \/ png = FALSE /\ data \in Files(JpegPieces)
                \/ png = TRUE /\ data \in Files(PngPieces)
             /\ pos = 0 /\ stripped = <<>> /\ result = "running"

Fail(err) == result' = err /\ UNCHANGED <<pos, stripped>>
Copy == stripped' = Append(stripped, data[pos + 1]) /\ pos' = pos + 1
Skip == pos' = pos + 1 /\ UNCHANGED stripped
At(S) == pos < Len(data) /\ data[pos + 1] \in S
Running(isPng) == result = "running" /\ png = isPng /\ UNCHANGED <<png, data>>

\* The first piece: the SOI marker or the signature.
Begin == /\ pos = 0
         /\ \/ /\ Running(FALSE)
               /\ \/ At({"SOI"}) /\ Copy /\ UNCHANGED result
                  \/ ~At({"SOI"}) /\ Fail("ErrNotJPEG")
            \/ /\ Running(TRUE)
               /\ \/ At({"signature"}) /\ Copy /\ UNCHANGED result
                  \/ ~At({"signature"}) /\ Fail("ErrNotPNG")

\* One turn of the loop of Strip up to the scan.
Segment == /\ Running(FALSE) /\ pos > 0
           /\ \/ At({"table", "lone"}) /\ Copy /\ UNCHANGED result
              \/ At({"meta"}) /\ Skip /\ UNCHANGED result
              \/ At({"EOI"}) /\ Copy /\ result' = "ok"
              \/ (pos = Len(data) \/ At({"SOI", "scan", "cut"})) /\ Fail("ErrMalformed")

\* FAULT: how the scan ends is not looked at.
ScanUnchecked == /\ Running(FALSE) /\ pos > 0
                 /\ At({"SOS"})
                 /\ stripped' = stripped \o SubSeq(data, pos + 1, Len(data))
                 /\ pos' = Len(data)
                 /\ result' = "ok"

\* FAULT: the scan is copied from the start of the file.
ScanWholeFile == /\ Running(FALSE) /\ pos > 0
                 /\ At({"SOS"})
                 /\ stripped' = data
                 /\ pos' = Len(data)
                 /\ result' = IF Last(stripped') = "EOI" THEN "ok" ELSE "ErrMalformed"

\* SOS: everything from here to the end of the file is copied verbatim, and its
\* last two bytes must be those of an EOI.
Scan == /\ Running(FALSE) /\ pos > 0
        /\ At({"SOS"})
        /\ stripped' = stripped \o SubSeq(data, pos + 1, Len(data))
        /\ pos' = Len(data)
        /\ \/ (Last(stripped') = "EOI" \/ MayEndInEOI(Last(stripped'))) /\ result' = "ok"
           \/ Last(stripped') # "EOI" /\ result' = "ErrMalformed"

\* FAULT: the loop goes on after IEND.
ChunkPastEnd == /\ Running(TRUE) /\ pos > 0
                /\ \/ At({"image", "IEND"}) /\ Copy /\ UNCHANGED result
                   \/ At({"ancillary", "signature"}) /\ Skip /\ UNCHANGED result
                   \/ At({"cut"}) /\ Fail("ErrMalformedPNG")
                   \/ /\ pos = Len(data)
                      /\ result' = IF "IEND" \in Range(stripped) THEN "ok" ELSE "ErrMalformedPNG"
                      /\ UNCHANGED <<pos, stripped>>

\* One turn of the loop of StripPNG.  A signature in the middle of a file is
\* read as a chunk header whose length overruns the file.
Chunk == /\ Running(TRUE) /\ pos > 0
         /\ \/ At({"image"}) /\ Copy /\ UNCHANGED result
            \/ At({"ancillary"}) /\ Skip /\ UNCHANGED result
            \/ At({"IEND"}) /\ Copy /\ result' = "ok"
            \/ (pos = Len(data) \/ At({"cut", "signature"})) /\ Fail("ErrMalformedPNG")

StripNext == Begin \/ Segment \/ Scan \/ Chunk
StripSpec == StripInit /\ [][StripNext]_stripVars

-----------------------------------------------------------------------------
FirstAt(s, p) == CHOOSE k \in DOMAIN s : s[k] = p /\ \A j \in 1 .. k - 1 : s[j] # p
UpTo(s, p) == IF p \in Range(s) THEN SubSeq(s, 1, FirstAt(s, p)) ELSE s

(* Nothing that Strip recognizes as metadata survives in front of the scan,   *)
(* and no ancillary chunk anywhere in a PNG, not even behind IEND.            *)
HeaderClean == result = "ok" =>
  IF png THEN Range(stripped) \subseteq {"signature", "image", "IEND"} /\ Last(stripped) = "IEND"
         ELSE "meta" \notin Range(UpTo(stripped, "SOS"))

(* The output decodes to the same pixels: what is not metadata is all there,  *)
(* in the same order, up to the end of the image.                             *)
PixelsKept == result = "ok" =>
  IF png THEN Keep(UpTo(data, "IEND"), {"signature", "image", "IEND"}) = stripped
  ELSE LET image == IF "SOS" \in Range(stripped) THEN data ELSE UpTo(data, "EOI")
           Kept(s) == Keep(s, JpegPieces \ {"meta"})
       IN Kept(stripped) = Kept(image)

(* What is let through is a whole image: neither function says ok to a file   *)
(* that does not come to its end, as far as the last bytes can tell, nor to   *)
(* one with a broken piece in front of that end, or of the scan.              *)
OkMeansWhole == result = "ok" =>
  /\ Len(stripped) > 1 /\ stripped[1] = Head(data)
  /\ \/ Last(stripped) = (IF png THEN "IEND" ELSE "EOI")
     \/ "SOS" \in Range(stripped) /\ MayEndInEOI(Last(stripped))
  /\ "cut" \notin Range(UpTo(data, IF png THEN "IEND" ELSE
                                   IF "SOS" \in Range(stripped) THEN "SOS" ELSE "EOI"))

-----------------------------------------------------------------------------
(* Strip's comment: a copy with all APP1, APP13 and COM segments removed.     *)
NoMetadataSurvives == result = "ok" /\ ~png => "meta" \notin Range(stripped)
=============================================================================
