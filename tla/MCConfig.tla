------------------------------ MODULE MCConfig ------------------------------
(* Config on families of inputs: each varies what one question is about and   *)
(* keeps the rest of the file plain.                                          *)
EXTENDS Config

Plain == [listen |-> "", metricsListen |-> "9090", origin |-> "absolute", routes |-> <<>>,
          pool |-> 0, maxBytes |-> 0, maxPixels |-> 0, ceiling |-> 0,
          failOpen |-> FALSE, strip |-> TRUE, accepted |-> {}]
PlainRoute(p) == [prefix |-> p, action |-> "redact", detectors |-> {"region-marker"},
                  failOpen |-> {}, strip |-> {}, maxBytes |-> 0, accepted |-> {}]
Unset == [listen |-> {}, metricsListen |-> {}, origin |-> {},
          pool |-> {}, maxBytes |-> {}, maxPixels |-> {}]
With(file) == [file |-> file, env |-> Unset]

\* Nothing, one character, a slash and up to two, and four.
Texts(n) == UNION {[1 .. k -> Chars] : k \in 0 .. n}
SomePrefixes == {<<>>, <<3>>} \union {<<Slash>> \o s : s \in Texts(2)}
                \union {<<Slash, 3, Slash, c>> : c \in Chars}

\* The empty path, or path.Clean of a rooted one: no empty segment, no slash at
\* the end.
CleanPaths == {<<>>, <<Slash>>} \union
  {s \in {<<Slash>> \o t : t \in Texts(3)} :
     /\ s[Len(s)] # Slash
     /\ \A k \in 1 .. Len(s) - 1 : ~(s[k] = Slash /\ s[k + 1] = Slash)}

\* Up to two routes with any prefixes.
Prefixed == UNION {{With([Plain EXCEPT !.routes = [k \in 1 .. n |-> PlainRoute(ps[k])]]) :
                      ps \in [1 .. n -> SomePrefixes]} : n \in 0 .. 2}

\* Two routes of which one is inside the other, or both have the same prefix.
Pairs == {<< <<Slash, 3>>, <<Slash, 3, Slash, 4>> >>, << <<Slash, 3>>, <<Slash, 3>> >>}
Two(p, r1, r2) == <<[r1 EXCEPT !.prefix = p[1]],
                    [r2 EXCEPT !.prefix = p[2], !.action = "blur", !.detectors = {"full-image"}]>>
Flags == {[PlainRoute(<<>>) EXCEPT !.failOpen = o, !.strip = s] :
            o \in Optional(BOOLEAN), s \in Optional(BOOLEAN)}
Flagged == {With([Plain EXCEPT !.failOpen = o, !.strip = s, !.routes = Two(p, r1, r2)]) :
              o \in BOOLEAN, s \in BOOLEAN, p \in Pairs, r1 \in Flags, r2 \in Flags}
Limits == {[PlainRoute(<<>>) EXCEPT !.maxBytes = n, !.accepted = a] :
             n \in {0, 1, MaxInt}, a \in {{}, {{}}, {{"png"}}}}
Limited == {[file |-> [Plain EXCEPT !.maxBytes = n, !.accepted = a, !.routes = Two(p, r, r2)],
             env |-> [Unset EXCEPT !.maxBytes = e]] :
              n \in {0, 2}, a \in {{}, {"jpeg"}}, p \in Pairs, e \in {{}, {0}, {1}},
              r \in Limits, r2 \in Limits}

\* Every number of workers, of bytes and of the ceiling.
Sized == {[file |-> [Plain EXCEPT !.pool = n, !.maxBytes = b, !.ceiling = c],
           env |-> [Unset EXCEPT !.pool = e]] :
            n \in Word, b \in Word, c \in Word, e \in {{}, {0}, {3}}}

\* What Validate refuses, one thing at a time.
BadRoutes == {[PlainRoute(<<>>) EXCEPT !.action = "mask"], [PlainRoute(<<>>) EXCEPT !.maxBytes = -1],
              [PlainRoute(<<>>) EXCEPT !.accepted = {{"tga"}}],
              [PlainRoute(<<>>) EXCEPT !.detectors = {"face"}]}
Broken == {With(f) : f \in {[Plain EXCEPT !.origin = ""], [Plain EXCEPT !.origin = "relative"],
                            [Plain EXCEPT !.metricsListen = DefaultListen],
                            [Plain EXCEPT !.maxPixels = -1], [Plain EXCEPT !.accepted = {"tga"}]}
                           \union {[Plain EXCEPT !.routes = <<r>>] : r \in BadRoutes}}
          \union {[file |-> [Plain EXCEPT !.origin = ""],
                   env |-> [Unset EXCEPT !.origin = {o}, !.metricsListen = {m}]] :
                    o \in {"relative", "absolute"}, m \in {"8080", "9091"}}

SomeFamilies == {Prefixed, Flagged, Limited, Sized, Broken}
=============================================================================
