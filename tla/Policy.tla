------------------------------- MODULE Policy -------------------------------
(* internal/policy/policy.go: the routes of the configuration are sorted once *)
(* by the raw length of their prefix, and a request's path is matched against *)
(* them in that order.  Paths and prefixes are sequences of characters here,  *)
(* because sorting looks at raw prefixes and matching at trimmed ones.        *)
(*                                                                            *)
(* An operator whose comment starts with FAULT is a bug that could have been  *)
(* written in place of the definition below it; no specification uses it.     *)
EXTENDS Naturals, Sequences, SequencesExt, FiniteSetsExt

CONSTANT Paths   \* the paths of requests, as cleanRequestPath leaves them

\* Characters in their byte order: one before the slash ('-') and two after it.
Dash == 1
Slash == 2
Chars == 1 .. 4
NoPath == <<0>>

Rooted(s) == s = <<>> \/ s[1] = Slash
NoDoubledSlash(s) == \A k \in 1 .. Len(s) - 1 : ~(s[k] = Slash /\ s[k + 1] = Slash)

\* As path.Clean leaves a path that is not empty: with a slash in front and no
\* two of them in a row.
ASSUME PathsAssumption == \A s \in Paths : s \in Seq(Chars) /\ Rooted(s) /\ NoDoubledSlash(s)

\* A route is any record with a prefix: policy only carries its settings along.
NoRoute == [prefix |-> NoPath]

VARIABLES config,    \* the routes given to New
          loaded,    \* New has returned a policy
          routes,    \* p.routes, in matching order
          default,   \* p.defroute, NoRoute without one
          path,      \* the path of the last request
          matched    \* the route it got, or NoRoute

policyVars == <<config, loaded, routes, default, path, matched>>

PolicyInit == /\ config = <<>> /\ loaded = FALSE
              /\ routes = <<>> /\ default = NoRoute
              /\ path = NoPath /\ matched = NoRoute

\* Go's < on strings.
Before(s, t) == \/ IsStrictPrefix(s, t)
                \/ \E i \in DOMAIN s \intersect DOMAIN t :
                     s[i] < t[i] /\ \A j \in 1 .. i - 1 : s[j] = t[j]

InByteOrder(cfg, i, j) == \/ Before(cfg[i].prefix, cfg[j].prefix)
                          \/ cfg[i].prefix = cfg[j].prefix /\ i < j

IsDefault(route) == route.prefix = <<>> \/ route.prefix = <<Slash>>

\* FAULT: ties of the length are left to the order of the configuration.
SortsByLength(cfg, i, j) ==
  \/ Len(cfg[i].prefix) > Len(cfg[j].prefix)
  \/ Len(cfg[i].prefix) = Len(cfg[j].prefix) /\ i < j

\* The order of New's sort, which is stable.
SortsBefore(cfg, i, j) ==
  \/ Len(cfg[i].prefix) > Len(cfg[j].prefix)
  \/ Len(cfg[i].prefix) = Len(cfg[j].prefix) /\ InByteOrder(cfg, i, j)

\* The routes of cfg whose indices are in D, sorted.
Sorted(cfg, D) ==
  LET order == CHOOSE o \in [1 .. Cardinality(D) -> D] :
                 /\ Range(o) = D
                 /\ \A a, b \in DOMAIN o : a < b => SortsBefore(cfg, o[a], o[b])
  IN [k \in 1 .. Cardinality(D) |-> cfg[order[k]]]

\* What the loop over the sorted routes sorts out.
Defaults(cfg) == {i \in DOMAIN cfg : IsDefault(cfg[i])}
RoutesOf(cfg) == Sorted(cfg, DOMAIN cfg \ Defaults(cfg))

\* The first default in sorted order is kept.
DefaultOf(cfg) == IF Defaults(cfg) = {} THEN NoRoute ELSE Sorted(cfg, Defaults(cfg))[1]

TrimRight(prefix) ==
  SubSeq(prefix, 1, Max({0} \union {i \in DOMAIN prefix : prefix[i] # Slash}))

\* FAULT: a raw string prefix is enough.
MatchRawPrefix(pth, prefix) == IsPrefix(TrimRight(prefix), pth)

MatchPathPrefix(pth, prefix) ==
  LET p == TrimRight(prefix)
  IN p = <<>> \/ pth = p \/ IsPrefix(Append(p, Slash), pth)

\* The first of rs that matches, or the default.
FirstMatch(rs, def, pth) ==
  LET hits == {k \in DOMAIN rs : MatchPathPrefix(pth, rs[k].prefix)}
  IN IF hits = {} THEN def ELSE rs[Min(hits)]

-----------------------------------------------------------------------------
\* New: the policy is built once.  (Its error, an invalid action, cannot occur:
\* config.Validate has refused that configuration before.)
New(cfg) == /\ ~loaded
            /\ config' = cfg
            /\ routes' = RoutesOf(cfg)
            /\ default' = DefaultOf(cfg)
            /\ loaded' = TRUE
            /\ UNCHANGED <<path, matched>>

\* One request for each policy, which bounds the runs: Match leaves nothing
\* behind that another request could see.
Match == /\ loaded /\ path = NoPath
         /\ path' \in Paths
         /\ matched' = FirstMatch(routes, default, path')
         /\ UNCHANGED <<config, loaded, routes, default>>

-----------------------------------------------------------------------------
(* The reference: a path and a prefix are lists of segments.  Split(s)[n] is  *)
(* the list of those that have begun within the first n characters.           *)
Split(s) ==
  LET begun[n \in 0 .. Len(s)] ==
        IF n = 0 THEN <<>>
        ELSE LET segs == begun[n - 1] IN
             IF s[n] = Slash THEN segs
             ELSE IF n = 1 \/ s[n - 1] = Slash THEN Append(segs, <<s[n]>>)
             ELSE [segs EXCEPT ![Len(segs)] = Append(@, s[n])]
  IN begun
Segments(s) == Split(s)[Len(s)]
Candidates == {r \in Range(config) : /\ Rooted(r.prefix)
                                     /\ IsPrefix(Segments(r.prefix), Segments(path))}
LongestSegmentPrefix ==
  IF matched = NoRoute THEN Candidates = {}
  ELSE /\ matched \in Candidates
       /\ \A r \in Candidates : Len(Segments(r.prefix)) <= Len(Segments(matched.prefix))

(* Although routes are ordered by raw length and matched after trimming, the  *)
(* first one to match is the longest segment prefix, for prefixes with and    *)
(* without a trailing slash; siblings such as /api and /apidocs or /api-x are *)
(* kept apart; and without a match there is no route.                         *)
TidyLongestSegmentWins ==
  /\ loaded /\ path # NoPath
  /\ \A r \in Range(config) : NoDoubledSlash(r.prefix)
  => LongestSegmentPrefix

(* The order of the routes in the configuration does not matter, unless two   *)
(* have the same prefix: the same configuration read backwards sends every    *)
(* path to the same route.                                                    *)
OrderIndependent ==
  /\ loaded /\ path # NoPath
  /\ \A i, j \in DOMAIN config : config[i].prefix = config[j].prefix => i = j
  => LET back == Reverse(config)
     IN FirstMatch(RoutesOf(back), DefaultOf(back), path) = matched
=============================================================================
