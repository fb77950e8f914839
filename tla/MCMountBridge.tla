----------------------------- MODULE MCMountBridge -----------------------------
(***************************************************************************)
(* The Mount Bridge on a small sky: a ring of four positions, neighbours   *)
(* one unit apart (beyond DriftThreshold, within MaxSyncDrift), opposite   *)
(* ones two (beyond both), and RA0/Dec0, which is far from all of them.    *)
(* Away from RA0/Dec0 a motion carries the scope by the angle the motors   *)
(* turned, so an offset between scope and mount survives it.               *)
(***************************************************************************)
EXTENDS BridgePromises

Sky == 0..4
SkySep(a, b) ==
    LET d == IF a < b THEN b - a ELSE a - b
    IN  IF a = b THEN 0 ELSE IF 0 \in {a, b} THEN 2 ELSE IF d = 3 THEN 1 ELSE d
SkyCarry(s, a, b) ==
    IF b = 0 THEN 0 ELSE IF 0 \in {s, a} THEN b ELSE ((s + b - a + 3) % 4) + 1

(* Scope and mount agree; or are one, or two units apart.                  *)
Aligned == {<<1, 1>>}
OffByOne == {<<2, 1>>}
OffByTwo == {<<3, 1>>}

(* With a location lock, a NaN altitude refuses the command too.           *)
BelowIfLocated == {None}
================================================================================
