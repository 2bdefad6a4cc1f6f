----------------------------- MODULE Scenarios -----------------------------
(***************************************************************************)
(* The scenario table of internal/world/scenarios.go: what each phase      *)
(* changes in the world around the service, and what exit puts back.       *)
(* Constant level: env is the state of those parts, a record.              *)
(***************************************************************************)
EXTENDS Naturals

Providers == {"aws", "gcp", "azure"}
OutageProvider == "gcp"
SlowProvider == "azure"
NoCacheProvider == "gcp"

\* The fault installed at a provider: none, fast_fail, a latency, or both.
Faults == {"ok", "fail", "latency", "fail+latency"}

EnvRec ==
    [fault : [Providers -> Faults],
     fetch : [Providers -> {"async", "sync", "passthrough"}],
     mult : BOOLEAN,    \* the surge tenant's multiplier is not 1
     global : BOOLEAN,  \* the multiplier of everyone is not 1
     key : BOOLEAN]     \* the revoke target's key is enabled

Parts == {"fault", "fetch", "mult", "global", "key"}

Base ==
    [fault |-> [p \in Providers |-> "ok"],
     fetch |-> [p \in Providers |-> "async"],
     mult |-> FALSE, global |-> FALSE, key |-> TRUE]

Names == {"tenant_surge", "global_surge", "provider_blip", "provider_outage",
          "slow_kms", "no_cache", "no_cache_surge", "key_revocation"}

PhaseCount(n) == IF n \in {"no_cache", "no_cache_surge"} THEN 3 ELSE 1

\* The phase of a revocation is open: it ends on Restore or Stop.
Timed(n) == n # "key_revocation"

-----------------------------------------------------------------------------
SetFault(e, provs, f) ==
    [e EXCEPT !.fault = [p \in Providers |-> IF p \in provs THEN f ELSE e.fault[p]]]

\* SetCache of some providers: pass-through, or back to async, whatever the
\* tenants' fetch design was before.
SetCache(e, provs, on) ==
    [e EXCEPT !.fetch = [p \in Providers |->
        IF p \notin provs THEN e.fetch[p] ELSE IF on THEN "async" ELSE "passthrough"]]

\* Mutant of ByHand: an unknown key-fetch mode is installed, not refused.
ByHandUnchecked(p) ==
    IF p = "fetch" THEN {[q \in Providers |-> "unknown"]} ELSE {FALSE}

\* The values requests set a part to: /v1/faults at one provider or another,
\* /v1/traffic, /v1/keyfetch for every tenant, a revoke (naive is pass-through
\* without the lease).
ByHand(p) ==
    CASE p = "fault" -> [Providers -> {"ok", "fail"}]
      [] p = "fetch" -> {[q \in Providers |-> f] : f \in {"async", "sync", "passthrough"}}
      [] p \in {"mult", "global"} -> BOOLEAN
      [] p = "key" -> {FALSE}

\* The enter function of phase i.
Enter(n, i, e) ==
    CASE n = "tenant_surge" -> [e EXCEPT !.mult = TRUE]
      [] n = "global_surge" -> [e EXCEPT !.global = TRUE]
      [] n \in {"provider_blip", "provider_outage"} ->
            SetFault(e, {OutageProvider}, "fail")
      [] n = "slow_kms" -> SetFault(e, {SlowProvider}, "latency")
      [] n = "no_cache" /\ i = 1 ->
            SetCache(SetFault(e, Providers, "latency"), {NoCacheProvider}, FALSE)
      [] n = "no_cache" /\ i = 2 -> SetFault(e, {NoCacheProvider}, "fail+latency")
      [] n = "no_cache" /\ i = 3 -> SetFault(e, {NoCacheProvider}, "latency")
      [] n = "no_cache_surge" /\ i = 1 ->
            SetCache(SetFault(e, Providers, "latency"), Providers, FALSE)
      [] n = "no_cache_surge" /\ i = 2 -> [e EXCEPT !.global = TRUE]
      [] n = "no_cache_surge" /\ i = 3 -> [e EXCEPT !.global = FALSE]
      [] n = "key_revocation" -> [e EXCEPT !.key = FALSE]

Exit(n, e) ==
    CASE n = "tenant_surge" -> [e EXCEPT !.mult = FALSE]
      [] n = "global_surge" -> [e EXCEPT !.global = FALSE]
      [] n \in {"provider_blip", "provider_outage"} ->
            SetFault(e, {OutageProvider}, "ok")
      [] n = "slow_kms" -> SetFault(e, {SlowProvider}, "ok")
      [] n = "no_cache" ->
            SetFault(SetCache(e, {NoCacheProvider}, TRUE), Providers, "ok")
      [] n = "no_cache_surge" ->
            SetFault(SetCache([e EXCEPT !.global = FALSE], Providers, TRUE),
                     Providers, "ok")
      [] n = "key_revocation" -> [e EXCEPT !.key = TRUE]
=============================================================================
