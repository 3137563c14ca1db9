------------------------- MODULE MCThrottleManager --------------------------
(***************************************************************************)
(* One window shorter than the sweep interval and one longer: the first    *)
(* expires before a sweep, the second outlives one.                        *)
(***************************************************************************)
EXTENDS ThrottleManager, TLC

CONSTANTS short, long

MCKeys == {short, long}
MCWindow == (short :> 2) @@ (long :> 5)
=============================================================================
