------------------------------ MODULE MCImaging -----------------------------
(* Imaging on families of uploads: headers of every size, all small grids of  *)
(* marked pixels, texts in boxes, and numbers with checksums.                 *)
EXTENDS Imaging

Square(w, h) == [header |-> <<w, h>>, actual |-> <<w, h>>, marked |-> {}, texts |-> <<>>,
                 maxPixels |-> 0, detectors |-> <<>>, minArea |-> 0,
                 action |-> "redact", radius |-> 1]

\* Every declared size, decoded as such, as another one, or not at all.  What a JPEG or
\* PNG can declare has a product that fits.
Declared == {c \in {[Square(w, h) EXCEPT !.maxPixels = n] :
                       w \in 0 .. MaxInt, h \in 0 .. MaxInt, n \in {-1, 1, 6, MaxInt}} :
               c.header[1] * c.header[2] <= MaxInt}
Headers == UNION {{c, [c EXCEPT !.actual = <<1, 2>>], [c EXCEPT !.actual = Failure]} :
                    c \in Declared}

Grid(w, h) == {[Square(w, h) EXCEPT !.marked = m, !.detectors = <<"region-marker">>] :
                 m \in SUBSET ((0 .. w - 1) \X (0 .. h - 1))}
SmallGrids == {[g EXCEPT !.minArea = a, !.action = m, !.radius = r] :
                 g \in Grid(3, 3) \union Grid(2, 4),
                 a \in {0, 3}, m \in {"redact", "blur"}, r \in {-1, 2}}

Token(shape, chars) == [shape |-> shape, chars |-> chars]
Tokens == {Token("email", <<>>), Token("ssn", <<>>), Token("phone", <<>>), Token("word", <<>>),
           Token("card", <<1, Space, 8>>), Token("card", <<1, 1>>),
           Token("iban", <<10, 11, 4, 8, 7, 7>>), Token("iban", <<10, 11, 0, 0, 7, 7>>)}
Single == {<<t>> : t \in Tokens}
\* Within the image, over its edge, outside, one pixel, empty.
Rects == {Rect(0, 0, 2, 2), Rect(1, 1, 5, 2), Rect(-1, -1, 1, 4), Rect(3, 0, 4, 2),
          Rect(2, 2, 3, 3), Rect(1, 1, 1, 2)}
Box(text, rect) == [text |-> text, rect |-> rect]
Read(texts) == [Square(3, 3) EXCEPT !.texts = texts, !.detectors = <<"regex-pii">>]

OneBox == {Read(<<Box(<<t, u>>, Rect(0, 0, 2, 2))>>) : t \in Tokens, u \in Tokens}
TwoBoxes == {[Read(<<Box(t, r), Box(<<Token("email", <<>>)>>, s)>>) EXCEPT
                !.action = a, !.detectors = d, !.marked = {<<0, 2>>, <<2, 2>>}] :
               t \in Single, r \in Rects, s \in Rects, a \in {"redact", "blur"},
               d \in {<<"regex-pii">>, <<"region-marker", "regex-pii">>}}
Detectors == {[Read(<<>>) EXCEPT !.detectors = d, !.action = a] :
                d \in {<<>>, <<"full-image">>, <<"fake">>, <<"full-image", "fake">>},
                a \in {"redact", "blur"}}

Numbered(shape, chars) == [Square(1, 1) EXCEPT
  !.texts = <<Box(<<Token(shape, chars)>>, Rect(0, 0, 1, 1))>>, !.detectors = <<"regex-pii">>]
Cards == UNION {{Numbered("card", <<s[1], s[2]>>), Numbered("card", s),
                 Numbered("card", <<s[1], Space, s[2], Hyphen, s[3]>>),
                 Numbered("card", <<s[1], s[2], Hyphen, s[3]>>)} : s \in [1 .. 3 -> Digits]}
Ibans == {Numbered("iban", <<10, 35, a, b, c, d>>) :
            a \in Digits, b \in Digits, c \in Digits \union Letters, d \in {3, 22}}

SomeFamilies == {Headers, Grid(4, 3), Grid(1, 4), Grid(4, 1), SmallGrids,
                 OneBox, TwoBoxes, Detectors, Cards, Ibans}
=============================================================================
