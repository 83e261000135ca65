------------------------------ MODULE MCConfig ------------------------------
(* Three keys, one of which does not fit a getter's buffer, and a controller. *)
EXTENDS Pid

CONSTANTS k1, k2, k3

ThirdCut == [k \in Keys |-> IF k = k3 THEN k2 ELSE k]

\* Minus a half, zero, a half, two, and a number that is no int.
Halves == {-1, 0, 1, 4, 10}

\* The keys of a controller: kp, ki and kd are alike, and one stands for all three.
FourGains == <<k1, k1, k1, k2>>

Setup(kp, ki, kd, c, rise) == [gains |-> <<kp, ki, kd, rise>>, clamp |-> c]

\* Numbers, and an infinity or no number for a gain and the clamp.
SomeSetups == {Setup(1, 2, -1, 4, 4), Setup(Infinity, NaN, 1, Infinity, 4)}
=============================================================================
