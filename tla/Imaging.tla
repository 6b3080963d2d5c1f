------------------------------- MODULE Imaging -------------------------------
(* internal/imageproc and internal/detect as handleMask runs them on one      *)
(* image: Decode under the pixel cap, runDetectors with the marker, text and  *)
(* full-image detectors, Mask.  A pixel is a point <<x, y>> counted from      *)
(* zero; of a color only matters whether it is the marker's, and of the       *)
(* masked image which pixels of the original each of its pixels still         *)
(* depends on.                                                                *)
(*                                                                            *)
(* An operator whose comment starts with FAULT is a bug that could have been  *)
(* written in place of the definition below it; no specification uses it.     *)
EXTENDS Words, Checksum

CONSTANT Families   \* sets of uploads, each with the settings it is handled under

Failure == <<-1, -1>>   \* the size of an image that jpeg.Decode or png.Decode refuses

IsList(s) == s \in Seq(Range(s))

ASSUME FamiliesAssumption == \A family \in Families : \A c \in family :
  /\ \A n \in {c.header[1], c.header[2], c.maxPixels, c.minArea, c.radius} : n \in Word
  /\ c.actual = c.header => c.marked \subseteq (0 .. c.header[1] - 1) \X (0 .. c.header[2] - 1)
  /\ c.action \in {"redact", "blur"}
  /\ IsList(c.detectors) /\ IsList(c.texts)
  /\ \A box \in Range(c.texts) :
       /\ box.rect \in [x0 : Word, y0 : Word, x1 : Word, y1 : Word]
       /\ IsList(box.text)
       /\ \A token \in Range(box.text) :
            /\ token.shape = "card" => token.chars \in Seq(Digits \union {Space, Hyphen})
            /\ token.shape = "iban" => token.chars \in Seq(Digits \union Letters)

VARIABLES
  upload,     \* the image and its settings:
              \*   header, actual: width and height, declared and decoded
              \*   marked: the pixels of the marker's color
              \*   texts: what OCR finds, boxes with a text of tokens
              \*   maxPixels, detectors, minArea, action, radius
  step,       \* "new", "decoded", "detected", "masked" or "refused"
  refusal,    \* the error, or "none"
  regions,    \* the union of regions, in order
  categories, \* the distinct categories
  out         \* per pixel of the output: the pixels it depends on

vars == <<upload, step, refusal, regions, categories, out>>

Init == /\ \E family \in Families : upload \in family
        /\ step = "new" /\ refusal = "none"
        /\ regions = <<>> /\ categories = {} /\ out = <<>>

Refuse(err) == /\ step' = "refused" /\ refusal' = err
               /\ UNCHANGED <<upload, regions, categories, out>>

-----------------------------------------------------------------------------
(* Decode.                                                                    *)

\* FAULT: an image that is as large as it may be is refused.
UnderCapStrictly(w, h, cap) ==
  LET px == Wrap(w * h) IN cap > 0 => (w # 0 => Quot(px, w) = h) /\ px < cap

\* A cap of zero or less is none.
UnderCap(w, h, cap) ==
  LET px == Wrap(w * h) IN cap > 0 => (w # 0 => Quot(px, w) = h) /\ px <= cap

Decode ==
  /\ step = "new"
  /\ LET w == upload.header[1]
         h == upload.header[2]
     IN \/ (w <= 0 \/ h <= 0) /\ Refuse("invalid_bounds")
        \/ w > 0 /\ h > 0 /\ ~UnderCap(w, h, upload.maxPixels) /\ Refuse("too_many_pixels")
        \/ /\ w > 0 /\ h > 0 /\ UnderCap(w, h, upload.maxPixels)
           /\ \/ upload.actual = Failure /\ Refuse("decode")
              \/ upload.actual \notin {Failure, upload.header} /\ Refuse("invalid_bounds")
              \/ /\ upload.actual = upload.header
                 /\ step' = "decoded"
                 /\ UNCHANGED <<upload, refusal, regions, categories, out>>

Width == upload.header[1]
Height == upload.header[2]
Points == (0 .. Width - 1) \X (0 .. Height - 1)

-----------------------------------------------------------------------------
(* Rectangles are half open, like image.Rectangle.                            *)
Rect(x0, y0, x1, y1) == [x0 |-> x0, y0 |-> y0, x1 |-> x1, y1 |-> y1]
Bounds == Rect(0, 0, Width, Height)
Intersect(a, b) == Rect(Max({a.x0, b.x0}), Max({a.y0, b.y0}),
                        Min({a.x1, b.x1}), Min({a.y1, b.y1}))
Empty(r) == r.x0 >= r.x1 \/ r.y0 >= r.y1
Area(r) == (r.x1 - r.x0) * (r.y1 - r.y0)
In(r) == {p \in Points : r.x0 <= p[1] /\ p[1] < r.x1 /\ r.y0 <= p[2] /\ p[2] < r.y1}

Region(r, category) == [rect |-> r, category |-> category]

\* The order of sortRegions.  Of two equal rectangles the code compares the
\* categories too; nothing here depends on which of them comes first.
Precedes(a, b) ==
  LET Key(r) == <<r.rect.y0, r.rect.x0, r.rect.y1, r.rect.x1>>
  IN \E k \in 1 .. 4 : /\ Key(a)[k] < Key(b)[k]
                       /\ \A j \in 1 .. k - 1 : Key(a)[j] = Key(b)[j]

Sorted(rs) ==
  LET order == CHOOSE o \in [DOMAIN rs -> DOMAIN rs] :
                 /\ Range(o) = DOMAIN rs
                 /\ \A a, b \in DOMAIN rs : a < b =>
                      \/ Precedes(rs[o[a]], rs[o[b]])
                      \/ ~Precedes(rs[o[b]], rs[o[a]]) /\ o[a] < o[b]
  IN [k \in DOMAIN rs |-> rs[order[k]]]

-----------------------------------------------------------------------------
(* RegionMarkerDetector: a union-find over the pixels, flattened row by row.  *)
InScanOrder == [k \in 1 .. Width * Height |-> <<(k - 1) % Width, (k - 1) \div Width>>]
Flat(p) == p[2] * Width + p[1] + 1   \* counted from one, as sequences are
Marked(p) == p \in upload.marked

NewUnionFind == [parent |-> <<>> \o [i \in 1 .. Width * Height |-> i],
                 rank |-> <<>> \o [i \in 1 .. Width * Height |-> 0]]

\* A turn of find, which halves the path; at a root there is none.
Halve(at) ==
  LET grand == at.parent[at.parent[at.i]]
  IN IF at.parent[at.i] = at.i THEN at
     ELSE [parent |-> [at.parent EXCEPT ![at.i] = grand], i |-> grand]

\* No path takes more turns than there are pixels.
Climb(parent, i) ==
  LET at[n \in 0 .. Len(parent)] == IF n = 0 THEN [parent |-> parent, i |-> i]
                                   ELSE Halve(at[n - 1])
  IN at[Len(parent)]
Find(uf, i) == LET top == Climb(uf.parent, i)
               IN [uf |-> [uf EXCEPT !.parent = top.parent], root |-> top.i]

\* union, by rank.
Union(uf, a, b) ==
  LET fa == Find(uf, a)
      fb == Find(fa.uf, b)
      rank == uf.rank
      low == IF rank[fa.root] < rank[fb.root] THEN fa.root ELSE fb.root
      high == IF rank[fa.root] < rank[fb.root] THEN fb.root ELSE fa.root
  IN IF fa.root = fb.root THEN fb.uf
     ELSE [parent |-> [fb.uf.parent EXCEPT ![low] = high],
           rank |-> [rank EXCEPT ![high] = IF rank[low] = @ THEN @ + 1 ELSE @]]

\* FAULT: the last pixel of a row is joined with the first of the next.
JoinPixelFlat(uf, p) ==
  LET i == Flat(p)
      right == IF i < Width * Height /\ Marked(InScanOrder[i + 1]) THEN Union(uf, i, i + 1) ELSE uf
  IN IF ~Marked(p) THEN uf
     ELSE IF p[2] + 1 < Height /\ Marked(<<p[1], p[2] + 1>>) THEN Union(right, i, i + Width)
     ELSE right

\* A marked pixel is joined with its right and its lower neighbour.
JoinPixel(uf, p) ==
  LET i == Flat(p)
      right == IF p[1] + 1 < Width /\ Marked(<<p[1] + 1, p[2]>>) THEN Union(uf, i, i + 1) ELSE uf
  IN IF ~Marked(p) THEN uf
     ELSE IF p[2] + 1 < Height /\ Marked(<<p[1], p[2] + 1>>) THEN Union(right, i, i + Width)
     ELSE right

\* The union-find after the first n pixels.
Joined == LET uf[n \in 0 .. Width * Height] == IF n = 0 THEN NewUnionFind
                                              ELSE JoinPixel(uf[n - 1], InScanOrder[n])
          IN uf
Components == Joined[Width * Height]

\* FAULT: the inclusive bounds of the pixels are taken for a half-open rectangle.
BoundingRectShort(ps) == Rect(Min({p[1] : p \in ps}), Min({p[2] : p \in ps}),
                              Max({p[1] : p \in ps}), Max({p[2] : p \in ps}))

BoundingRect(ps) == Rect(Min({p[1] : p \in ps}), Min({p[2] : p \in ps}),
                         Max({p[1] : p \in ps}) + 1, Max({p[2] : p \in ps}) + 1)

\* One region per root, in no order (the code ranges over a map) until sorted.
\* The paths that find halves once more here are not looked at again.
DetectMarkers ==
  LET uf == Components
      root == [p \in upload.marked |-> Find(uf, Flat(p)).root]
      roots == SetToSeq(Range(root))
      found == [k \in DOMAIN roots |->
                  Region(BoundingRect({p \in upload.marked : root[p] = roots[k]}), "marker")]
  IN Sorted(Keep(found, {r \in Range(found) : upload.minArea > 0 => Area(r.rect) >= upload.minArea}))

-----------------------------------------------------------------------------
(* RegexPIIDetector: a text is a sequence of tokens, each of the shape of one *)
(* pattern, or of none.                                                       *)
Patterns == <<"email", "card", "ssn", "iban", "phone">>

\* The gate of a pattern; the others have none.
Valid(shape, chars) == CASE shape = "card" -> LuhnValid(chars)
                         [] shape = "iban" -> IBANValid(chars)
                         [] OTHER -> TRUE

\* FindString returns the first match only, and only that one is validated.
Matches(text, shape) ==
  LET found == Keep(text, {t \in Range(text) : t.shape = shape})
  IN found # <<>> /\ Valid(shape, found[1].chars)

\* The regions of a box: one, for the first pattern that matches, or none.
BoxRegions(box) ==
  LET hits == Keep(Patterns, {shape \in Range(Patterns) : Matches(box.text, shape)})
  IN IF hits = <<>> THEN <<>> ELSE <<Region(box.rect, hits[1])>>

DetectPII == Sorted(FlattenSeq([k \in DOMAIN upload.texts |-> BoxRegions(upload.texts[k])]))

Registry == {"region-marker", "regex-pii", "full-image"}

DetectWith(name) == CASE name = "region-marker" -> DetectMarkers
                      [] name = "regex-pii" -> DetectPII
                      [] name = "full-image" -> <<Region(Bounds, "full-image")>>

\* A box that lies outside of the image is dropped, the others are cut to it.
Clipped(rs) ==
  LET cut == [k \in DOMAIN rs |-> [rs[k] EXCEPT !.rect = Intersect(@, Bounds)]]
  IN Keep(cut, {r \in Range(cut) : ~Empty(r.rect)})

\* runDetectors.
Detect ==
  /\ step = "decoded"
  /\ \/ ~(Range(upload.detectors) \subseteq Registry) /\ Refuse("detector")
     \/ /\ Range(upload.detectors) \subseteq Registry
        /\ regions' = FlattenSeq([k \in DOMAIN upload.detectors |->
                                    Clipped(DetectWith(upload.detectors[k]))])
        /\ categories' = {r.category : r \in Range(regions')}
        /\ step' = "detected"
        /\ UNCHANGED <<upload, refusal, out>>

-----------------------------------------------------------------------------
(* Mask.                                                                      *)
Solid(o, r) == [p \in Points |-> IF p \in In(r) THEN {} ELSE o[p]]

\* blurRegion: a horizontal pass over what was there, a vertical one over that.
Blur(o, r, radius) ==
  LET reach == Min({IF radius <= 0 THEN 1 ELSE radius, r.x1 - r.x0, r.y1 - r.y0})
      Near(a, b) == -reach <= a - b /\ a - b <= reach
      tmp == [p \in In(r) |->
                UNION {o[q] : q \in {x \in In(r) : x[2] = p[2] /\ Near(x[1], p[1])}}]
  IN [p \in Points |->
        IF p \in In(r)
        THEN UNION {tmp[q] : q \in {x \in In(r) : x[1] = p[1] /\ Near(x[2], p[2])}}
        ELSE o[p]]

MaskRegion(o, region) ==
  LET r == Intersect(region.rect, Bounds)
  IN IF Empty(r) THEN o
     ELSE IF upload.action = "blur" THEN Blur(o, r, upload.radius) ELSE Solid(o, r)

\* The image after the first n regions.
MaskedBy(rs) ==
  LET o[n \in 0 .. Len(rs)] == IF n = 0 THEN [p \in Points |-> {p}]
                              ELSE MaskRegion(o[n - 1], rs[n])
  IN o

Mask == /\ step = "detected"
        /\ out' = MaskedBy(regions)[Len(regions)]
        /\ step' = "masked"
        /\ UNCHANGED <<upload, refusal, regions, categories>>

Next == Decode \/ Detect \/ Mask
Spec == Init /\ [][Next]_vars

-----------------------------------------------------------------------------
(* The pixel cap is exact for any width of the integers: no image is decoded  *)
(* whose width times height, computed without overflow, is over the cap, none *)
(* whose size is not the declared one, and none is refused as too large that  *)
(* is not.                                                                    *)
PixelCapExact ==
  /\ step \notin {"new", "refused"} =>
       /\ Width >= 1 /\ Height >= 1 /\ upload.actual = upload.header
       /\ upload.maxPixels > 0 => Width * Height <= upload.maxPixels
  /\ refusal = "too_many_pixels" =>
       upload.maxPixels > 0 /\ Width * Height > upload.maxPixels

(* The reference: the blob of a marked pixel is all that can be reached from  *)
(* it over neighbours of the marker's color.                                  *)
Touch(p, q) == (p[1] = q[1] /\ p[2] - q[2] \in {-1, 1}) \/ (p[2] = q[2] /\ p[1] - q[1] \in {-1, 1})
Grown(blob) == blob \union {q \in upload.marked : \E r \in blob : Touch(q, r)}
Blob(p) ==
  LET after[n \in 0 .. Cardinality(upload.marked)] == IF n = 0 THEN {p} ELSE Grown(after[n - 1])
  IN after[Cardinality(upload.marked)]
Blobs == {Blob(p) : p \in upload.marked}
Hull(ps) == {q \in Points : /\ \E a, b \in ps : a[1] <= q[1] /\ q[1] <= b[1]
                            /\ \E a, b \in ps : a[2] <= q[2] /\ q[2] <= b[2]}
LargeBlobs == {b \in Blobs : upload.minArea > 0 => Cardinality(Hull(b)) >= upload.minArea}

\* The marker detector is configured, and not twice: it would report twice.
MarksOnce == \E k \in DOMAIN upload.detectors : \A j \in DOMAIN upload.detectors :
               upload.detectors[j] = "region-marker" <=> j = k

(* The marker detector reports each blob of marked pixels, neighbours up and  *)
(* down and sideways but not across the end of a row, exactly once, by the    *)
(* smallest box around it, and in an order that does not depend on the map    *)
(* it ranges over.                                                            *)
BoxesAreComponents ==
  step = "detected" /\ MarksOnce =>
    LET found == Keep(regions, {r \in Range(regions) : r.category = "marker"})
    IN /\ {In(r.rect) : r \in Range(found)} = {Hull(b) : b \in LargeBlobs}
       /\ Len(found) = Cardinality(LargeBlobs)
       /\ \A k \in 1 .. Len(found) - 1 : Precedes(found[k], found[k + 1])

\* A token that is what it looks like, and the first in its text to look so.
Genuine(text) ==
  \E k \in DOMAIN text : /\ text[k].shape \in Range(Patterns)
                         /\ \A j \in 1 .. k - 1 : text[j].shape # text[k].shape
                         /\ Valid(text[k].shape, text[k].chars)

\* What the configured detectors have to hide.
Zones ==
  UNION {CASE name = "region-marker" -> {Hull(b) : b \in LargeBlobs}
           [] name = "regex-pii" -> {In(box.rect) : box \in {x \in Range(upload.texts) :
                                                              Genuine(x.text)}}
           [] name = "full-image" -> {Points} : name \in Range(upload.detectors)}

(* What should be hidden is: under a solid mask no pixel of it depends on the *)
(* original, and a blur mixes each one with another pixel of what is hidden   *)
(* (unless its region is that one pixel), wherever boxes overlap, repeat or   *)
(* leave the image; and everything else is as it was.                         *)
MaskCoversRegions ==
  step = "masked" =>
    LET hidden == UNION Zones
    IN \A p \in Points :
         CASE p \notin hidden -> out[p] = {p}
           [] p \in hidden /\ upload.action = "redact" -> out[p] = {}
           [] p \in hidden /\ upload.action = "blur" ->
                /\ out[p] \subseteq hidden
                /\ (\E z \in Zones : p \in z /\ z # {p}) => out[p] # {p}

SlipsOf(s, alphabet) ==
  UNION {{[s EXCEPT ![k] = c] : c \in alphabet \ {s[k]}} : k \in {k \in DOMAIN s : s[k] \in alphabet}}
SwapsOf(s, alphabet) ==
  {[s EXCEPT ![k] = s[k + 1], ![k + 1] = s[k]] :
     k \in {k \in 1 .. Len(s) - 1 : {s[k], s[k + 1]} \subseteq alphabet /\ s[k] # s[k + 1]}}

\* One more at a place that counts twice is made up for by two less on its right, unless
\* doubling carries there.  The last place counts once.
TradesOf(s) ==
  {[s EXCEPT ![k] = s[k] + 1, ![k + 1] = s[k + 1] - 2] :
     k \in {k \in 1 .. Len(s) - 1 : /\ (Len(s) - k) % 2 = 1
                                   /\ s[k] \notin {4, 9} /\ s[k + 1] >= 2}}

(* The checksums tell a number from its neighbours: what separates the digits *)
(* of a card does not matter, and of a card or an account that is reported no *)
(* other reading is, with one digit or letter wrong or two neighbours of the  *)
(* same sort swapped (0 and 9 of a card excepted, which Luhn cannot tell).    *)
(* And the places of a card that count twice are every other one from the     *)
(* last but one, however many digits there are: what trades with such a place *)
(* is a card again.                                                           *)
ChecksumCatchesSlips ==
  step = "detected" =>
    \A box \in Range(upload.texts) : \A token \in Range(box.text) :
      LET s == token.chars
          digits == DigitsOf(s)
      IN /\ token.shape = "card" =>
              /\ LuhnValid(s) = LuhnValid(digits)
              /\ LuhnValid(digits) =>
                   /\ \A other \in SlipsOf(digits, Digits) : ~LuhnValid(other)
                   /\ \A other \in SwapsOf(digits, Digits) :
                        (\E k \in DOMAIN digits : other[k] # digits[k] /\ digits[k] \notin {0, 9})
                        => ~LuhnValid(other)
                   /\ \A other \in TradesOf(digits) : LuhnValid(other)
         /\ token.shape = "iban" /\ IBANValid(s) =>
              \A other \in SlipsOf(s, Digits) \union SlipsOf(s, Letters)
                            \union SwapsOf(s, Digits) \union SwapsOf(s, Letters) : ~IBANValid(other)
=============================================================================
