----------------------------- MODULE MCFetchers -----------------------------
(***************************************************************************)
(* KeyManager for TLC in three parts, each explored completely:            *)
(*   race    two goroutines in the shipped design, one DEK;                *)
(*   modes   one goroutine in all four designs, switched at any time, one  *)
(*           DEK;                                                          *)
(*   rotate  one goroutine in the shipped design, two DEKs.                *)
(***************************************************************************)
EXTENDS MCKeyManager

CONSTANT p2    \* the second goroutine

VARIABLE part  \* the part a behaviour belongs to, which never changes

OneDEK == worn = {} /\ stored \subseteq {1}
OneGoroutine == proc[p2].pc = "idle"

Within ==
    \/ part = "race" /\ OneDEK /\ fetch = "async"
    \/ part = "modes" /\ OneDEK /\ OneGoroutine
    \/ part = "rotate" /\ OneGoroutine /\ fetch = "async"

PartInit == Init /\ part \in {"race", "modes", "rotate"} /\ Within

PartNext == UNCHANGED part /\ Next /\ Within'

PartSpec == PartInit /\ [][PartNext]_<<vars, part>>

\* With one DEK no number is given out after the first: 1 and 2 are alike.
PartView == <<Seen(IF part = "rotate" THEN seq ELSE AtMost(seq, 1)), part>>
=============================================================================
