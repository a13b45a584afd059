----------------------------- MODULE MCTPlusOne -----------------------------
(* One instrument, two ticks to a date, or one.                            *)
EXTENDS TPlusOne

TwoTicksPerDate == [n \in 0 .. MaxTick |-> n \div 2]
OneTickPerDate == [n \in 0 .. MaxTick |-> n]
=============================================================================
