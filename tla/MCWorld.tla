------------------------------ MODULE MCWorld ------------------------------
\* World for TLC: behaviours with a timed-out Stop, with two runners that
\* overlap, and with each kind of scenario and of manual control.
EXTENDS World

CONSTANTS r1, r2

MCBounds ==
    {[runs |-> {r1}, late |-> 1, started |-> {"key_revocation"}, touch |-> {}],
     [runs |-> {r1, r2}, late |-> 0, started |-> {"key_revocation"}, touch |-> {}],
     [runs |-> {r1}, late |-> 0, started |-> Names, touch |-> {}],
     [runs |-> {r1}, late |-> 0, started |-> {"key_revocation"}, touch |-> {"key"}],
     [runs |-> {r1}, late |-> 0, started |-> {"no_cache_surge"}, touch |-> {"fetch"}]}

OneBound ==
    {[runs |-> {r1, r2}, late |-> 0, started |-> {"tenant_surge"}, touch |-> {}]}
=============================================================================
