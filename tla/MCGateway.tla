----------------------------- MODULE MCGateway ------------------------------
(* Small instances of Gateway.  A route is written Rt(action, failOpen,       *)
(* strip, accepted).                                                          *)
EXTENDS Gateway

Rt(a, o, s, f) == [action |-> a, failOpen |-> o, strip |-> s, accepted |-> f]

\* Every action, both failure modes, stripping on and off, with an allowlist.
DataRoutes == { Rt("redact", FALSE, TRUE, {}),
                Rt("redact", TRUE, TRUE, {}),
                Rt("blur", FALSE, TRUE, {"jpeg"}),
                Rt("pass", FALSE, TRUE, {}),
                Rt("pass", TRUE, TRUE, {"png", "gif"}),
                Rt("pass", FALSE, FALSE, {}),
                Rt("drop", FALSE, TRUE, {}) }

\* Masking routes, so that parts and uploads compete for the same slots.
BusyRoutes == { Rt("redact", FALSE, TRUE, {}), Rt("blur", TRUE, TRUE, {}) }
=============================================================================
