------------------------------- MODULE Config --------------------------------
(* internal/config together with the policy that main builds from it: Load    *)
(* reads a file, lets the environment override it, fills in defaults, lets    *)
(* routes inherit what they omit, and validates; buildPolicy turns the result *)
(* into routes, and requests get their settings from there.  A field that may *)
(* be omitted, a pointer or a slice in the code, is a set of at most one      *)
(* value.  The qualities, radii and durations, which Validate does not look   *)
(* at, are left out.                                                          *)
(*                                                                            *)
(* An operator whose comment starts with FAULT is a bug that could have been  *)
(* written in place of the definition below it; no specification uses it.     *)
EXTENDS Policy, Words

CONSTANTS Families,          \* sets of inputs: a file and an environment
          DefaultPool,       \* DefaultWorkerPoolSize
          DefaultMaxBytes, DefaultMaxPixels, DefaultCeiling

DefaultListen == "8080"
Actions == {"redact", "blur", "drop", "pass"}
KnownDetectors == {"region-marker", "regex-pii", "full-image", "fake"}
KnownFormats == {"jpeg", "jpg", "png", "webp", "gif", "bmp", "tiff"}

ASSUME DefaultsAssumption ==
  {DefaultPool, DefaultMaxBytes, DefaultMaxPixels, DefaultCeiling} \subseteq 1 .. MaxInt
Optional(S) == {{}} \union {{v} : v \in S}

\* The fields of a Config and the variables of applyEnv.
Fields == {"listen", "metricsListen", "origin", "routes", "pool", "maxBytes", "maxPixels",
           "ceiling", "failOpen", "strip", "accepted"}
Overridden == {"listen", "metricsListen", "origin", "pool", "maxBytes", "maxPixels"}

Route == [prefix : Seq(Chars), action : STRING, detectors : SUBSET STRING,
          failOpen : Optional(BOOLEAN), strip : Optional(BOOLEAN), maxBytes : Word,
          accepted : SUBSET SUBSET STRING]

\* What json.Decode and strconv can leave in them.
ASSUME FamiliesAssumption == \A family \in Families : \A in \in family :
  /\ in.file = [f \in Fields |-> in.file[f]]
  /\ in.file.routes \in Seq(Route)
  /\ \A r \in Range(in.file.routes) : \A a, b \in r.accepted : a = b
  /\ in.file.failOpen \in BOOLEAN /\ in.file.strip \in BOOLEAN
  /\ \A f \in {"pool", "maxBytes", "maxPixels", "ceiling"} : in.file[f] \in Word
  /\ in.env = [f \in Overridden |-> in.env[f]]
  /\ \A f \in {"pool", "maxBytes", "maxPixels"} : in.env[f] \in Optional(Word)

VARIABLES input,    \* the file and the environment of this process
          cfg,      \* the configuration as Validate sees it
          result    \* of Load: "none", "ok" or "refused"

vars == <<policyVars, input, cfg, result>>

Init == /\ PolicyInit
        /\ \E family \in Families : input \in family
        /\ cfg = <<>> /\ result = "none"

TheOr(own, otherwise) == IF own = {} THEN otherwise ELSE CHOOSE v \in own : TRUE
NonZeroOr(n, otherwise) == IF n = 0 THEN otherwise ELSE n

\* A variable that is empty or does not parse is as good as unset.
ApplyEnv(file, env) ==
  [file EXCEPT !.listen = TheOr(env.listen, @), !.metricsListen = TheOr(env.metricsListen, @),
               !.origin = TheOr(env.origin, @), !.pool = TheOr(env.pool, @),
               !.maxBytes = TheOr(env.maxBytes, @), !.maxPixels = TheOr(env.maxPixels, @)]

\* FAULT: false and nothing are not told apart.
InheritFalse(r, global) ==
  [r EXCEPT !.maxBytes = NonZeroOr(@, global.maxBytes),
            !.strip = {(TRUE \in @) \/ global.strip},
            !.failOpen = {(TRUE \in @) \/ global.failOpen},
            !.accepted = {TheOr(@, global.accepted)}]

\* What a route omits it takes from the global settings.
Inherit(r, global) ==
  [r EXCEPT !.maxBytes = NonZeroOr(@, global.maxBytes),
            !.strip = {TheOr(@, global.strip)},
            !.failOpen = {TheOr(@, global.failOpen)},
            !.accepted = {TheOr(@, global.accepted)}]

ApplyDefaults(c) ==
  LET global == [c EXCEPT !.listen = IF @ = "" THEN DefaultListen ELSE @,
                          !.pool = NonZeroOr(@, DefaultPool),
                          !.maxBytes = NonZeroOr(@, DefaultMaxBytes),
                          !.maxPixels = NonZeroOr(@, DefaultMaxPixels),
                          !.ceiling = NonZeroOr(@, DefaultCeiling)]
  IN [global EXCEPT !.routes = [k \in DOMAIN @ |-> Inherit(@[k], global)]]

WellFormed(c) == /\ c.origin = "absolute"
                 /\ ~(c.metricsListen # "" /\ c.metricsListen = c.listen)
                 /\ c.pool >= 1 /\ c.maxBytes >= 1 /\ c.maxPixels >= 1

\* FAULT: the product is compared as it is.
WithinCeilingWrapped(c) == Wrap(c.maxBytes * c.pool) <= c.ceiling

WithinCeiling(c) ==
  LET product == Wrap(c.maxBytes * c.pool)
  IN /\ c.maxBytes # 0 => Quot(product, c.maxBytes) = c.pool
     /\ product <= c.ceiling

FormatsKnown(names) == names \subseteq KnownFormats

RouteValid(r) == /\ r.action \in Actions
                 /\ r.maxBytes >= 1
                 /\ \A names \in r.accepted : FormatsKnown(names)
                 /\ r.detectors \subseteq KnownDetectors

Validate(c) == /\ WellFormed(c)
               /\ WithinCeiling(c)
               /\ FormatsKnown(c.accepted)
               /\ \A r \in Range(c.routes) : RouteValid(r)

-----------------------------------------------------------------------------
Load == /\ result = "none"
        /\ cfg' = ApplyDefaults(ApplyEnv(input.file, input.env))
        /\ \/ Validate(cfg') /\ result' = "ok"
           \/ ~Validate(cfg') /\ result' = "refused"
        /\ UNCHANGED <<policyVars, input>>

\* buildPolicy.
PolicyRoute(c, r) ==
  [prefix |-> r.prefix, action |-> r.action, detectors |-> r.detectors,
   failOpen |-> TheOr(r.failOpen, c.failOpen), maxBytes |-> r.maxBytes,
   strip |-> TheOr(r.strip, c.strip), accepted |-> TheOr(r.accepted, {})]

BuildPolicy == /\ result = "ok"
               /\ New([k \in DOMAIN cfg.routes |-> PolicyRoute(cfg, cfg.routes[k])])
               /\ UNCHANGED <<input, cfg, result>>

Request == Match /\ UNCHANGED <<input, cfg, result>>

Next == Load \/ BuildPolicy \/ Request
Spec == Init /\ [][Next]_vars

-----------------------------------------------------------------------------
\* The largest number of image bytes in the pool at once.
Peak == cfg.pool * cfg.maxBytes

(* The memory bound is exact for any width of the integers: a configuration   *)
(* that is accepted keeps pool times max_bytes, computed without overflow,    *)
(* below the ceiling, and none is refused that would have kept it.            *)
CeilingExact ==
  /\ result = "ok" => 1 <= Peak /\ Peak <= cfg.ceiling
  /\ /\ result = "refused"
     /\ WellFormed(cfg) /\ FormatsKnown(cfg.accepted)
     /\ \A r \in Range(cfg.routes) : RouteValid(r)
     => Peak > cfg.ceiling

(* A request is handled under the settings written for its route, after       *)
(* defaults, inheritance and sorting: a setting of the route wins over the    *)
(* global one even if it is false or an empty list, one that is omitted is    *)
(* the global one, and of two routes with one prefix the first in the file    *)
(* counts, with all of its settings.                                          *)
SettingsFollowRoute ==
  matched # NoRoute =>
    LET file == input.file
        same == {k \in DOMAIN file.routes : file.routes[k].prefix = matched.prefix}
        r == file.routes[Min(same)]
        global == CASE input.env.maxBytes \ {0} # {} -> CHOOSE n \in input.env.maxBytes : TRUE
                    [] input.env.maxBytes = {} /\ file.maxBytes # 0 -> file.maxBytes
                    [] OTHER -> DefaultMaxBytes
    IN /\ matched.action = r.action /\ matched.detectors = r.detectors
       /\ matched.failOpen = IF r.failOpen = {} THEN file.failOpen ELSE r.failOpen = {TRUE}
       /\ matched.strip = IF r.strip = {} THEN file.strip ELSE r.strip = {TRUE}
       /\ {matched.accepted} = IF r.accepted = {} THEN {file.accepted} ELSE r.accepted
       /\ matched.maxBytes = IF r.maxBytes = 0 THEN global ELSE r.maxBytes
=============================================================================
