------------------------------ MODULE Metrics -------------------------------
(* internal/metrics/metrics.go: counters that sanitizer goroutines increment  *)
(* with separate atomic additions while a scrape loads them one after the     *)
(* other.  SanitizeImage counts an item first, then, if it is blocked, the    *)
(* total and after it the reason, and if it is masked, the image and its      *)
(* regions.                                                                   *)
(*                                                                            *)
(* An operator whose comment starts with FAULT is a bug that could have been  *)
(* written in place of the definition below it; no specification uses it.     *)
EXTENDS Integers, Sequences, FiniteSets, FiniteSetsExt

CONSTANTS Workers,     \* goroutines in SanitizeImage
          Reasons,     \* the block reasons, in the order they are exported
          MaxItems,    \* bound on the items of all workers together
          MaxScrapes   \* bound on the scrapes

ASSUME ReasonsAssumption ==
  Reasons \in Seq({"decode", "unsupported_format", "too_large", "detector_error", "strip",
                   "encode", "audit", "policy", "canceled"})
ASSUME WorkersAssumption == IsFiniteSet(Workers)
ASSUME BoundsAssumption == MaxItems \in Nat /\ MaxScrapes \in Nat

ReasonSet == {Reasons[i] : i \in DOMAIN Reasons}
Totals == <<"processed", "blocked", "sanitized", "regions">>
Names == {Totals[i] : i \in 1 .. 4} \union ReasonSet

VARIABLES value,     \* the atomic counters
          at,        \* where each worker stands
          why,       \* the reason it is about to count
          loaded,    \* the samples the scrape in progress has taken
          scrapes    \* the scrapes that have been served

metricsVars == <<value, at, why, loaded, scrapes>>

NoSamples == [n \in {} |-> 0]

MetricsInit == /\ value = [n \in Names |-> 0]
               /\ at = [w \in Workers |-> "idle"]
               /\ why = [w \in Workers |-> Reasons[1]]
               /\ loaded = NoSamples
               /\ scrapes = <<>>

Bump(n, k) == value' = [value EXCEPT ![n] = @ + k]
Turns(w, s) == at' = [at EXCEPT ![w] = s]
Blocking == {w \in Workers : at[w] = "reason"}

\* FAULT: an item is counted when it is finished.
IncUploadsProcessedLate(w) ==
  /\ at[w] = "idle"
  /\ value["processed"] < MaxItems
  /\ Turns(w, "counted")
  /\ UNCHANGED <<value, why, loaded, scrapes>>

IncUploadsProcessed(w) ==
  /\ at[w] = "idle"
  /\ value["processed"] < MaxItems
  /\ Bump("processed", 1)
  /\ Turns(w, "counted")
  /\ UNCHANGED <<why, loaded, scrapes>>

\* An item that is neither blocked nor masked: text, a pass route, fail-open.
NotCounted(w) == /\ at[w] = "counted"
                 /\ Turns(w, "idle")
                 /\ UNCHANGED <<value, why, loaded, scrapes>>

\* IncUploadsBlocked, first the total,
IncUploadsBlocked(w) ==
  /\ at[w] = "counted"
  /\ \E r \in ReasonSet : why' = [why EXCEPT ![w] = r]
  /\ Bump("blocked", 1)
  /\ Turns(w, "reason")
  /\ UNCHANGED <<loaded, scrapes>>

\* then the reason.
IncReason(w) == /\ at[w] = "reason"
                /\ Bump(why[w], 1)
                /\ Turns(w, "idle")
                /\ UNCHANGED <<why, loaded, scrapes>>

IncImagesSanitized(w) == /\ at[w] = "counted"
                         /\ Bump("sanitized", 1)
                         /\ Turns(w, "regions")
                         /\ UNCHANGED <<why, loaded, scrapes>>

AddRegionsMasked(w) == /\ at[w] = "regions"
                       /\ \E k \in 0 .. 1 : Bump("regions", k)
                       /\ Turns(w, "idle")
                       /\ UNCHANGED <<why, loaded, scrapes>>

\* FAULT: the breakdown is loaded before the totals.
OrderReasonsFirst == Reasons \o Totals

\* The order in which samples loads: the totals, then the reasons.
Order == Totals \o Reasons

\* One Load of samples.
LoadNext ==
  /\ Len(scrapes) < MaxScrapes
  /\ Cardinality(DOMAIN loaded) < Len(Order)
  /\ LET n == Order[Cardinality(DOMAIN loaded) + 1] IN
       loaded' = [m \in DOMAIN loaded \union {n} |->
                    IF m \in DOMAIN loaded THEN loaded[m] ELSE value[n]]
  /\ UNCHANGED <<value, at, why, scrapes>>

\* WriteProm has written the last sample.
Serve == /\ DOMAIN loaded = Names
         /\ scrapes' = Append(scrapes, loaded)
         /\ loaded' = NoSamples
         /\ UNCHANGED <<value, at, why>>

Item(w) == \/ IncUploadsProcessed(w) \/ NotCounted(w) \/ IncUploadsBlocked(w)
           \/ IncReason(w) \/ IncImagesSanitized(w) \/ AddRegionsMasked(w)
MetricsNext == LoadNext \/ Serve \/ \E w \in Workers : Item(w)
MetricsSpec == MetricsInit /\ [][MetricsNext]_metricsVars

-----------------------------------------------------------------------------
Breakdown(s) == MapThenSumSet(LAMBDA r : s[r], ReasonSet)

(* In memory the breakdown is never ahead of the total, and behind it by      *)
(* exactly the blocks that are between their two additions; blocked and       *)
(* sanitized items were counted as processed before.                          *)
BreakdownTracksTotal ==
  /\ value["blocked"] = Breakdown(value) + Cardinality(Blocking)
  /\ value["blocked"] + value["sanitized"] <= value["processed"]

(* A scrape may show a breakdown behind its total, but by no more than one    *)
(* block per goroutine: the total is loaded before the reasons.               *)
ScrapeLagBounded == \A i \in DOMAIN scrapes :
  scrapes[i]["blocked"] - Breakdown(scrapes[i]) <= Cardinality(Workers)

=============================================================================
