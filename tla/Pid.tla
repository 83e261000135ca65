-------------------------------- MODULE Pid --------------------------------
(***************************************************************************)
(* The PID controller of include/ccore/pid.h, and the configuration that    *)
(* its gains come from.                                                     *)
(*                                                                          *)
(* What a controller computes is a double: a number, an infinity of either  *)
(* sign or no number, which is all that its tests can tell apart.  Numbers  *)
(* are ordinary ones: no sum or product of two of them overflows, which for *)
(* the smoothed derivative takes updates no longer apart than twice the     *)
(* rise time.                                                               *)
(***************************************************************************)
EXTENDS Config

CONSTANTS
  Infinity, MinusInfinity, NaN,   \* the doubles that are not numbers
  GainKeys,   \* the keys of kp, ki, kd and rise_tau, in the order of the lookups
  Setups,     \* the gains and the clamp that a program gives to cc_pid_init
  Inputs,     \* the doubles that a program gives to cc_pid_update
  PidLines    \* bound: lines of a file that a controller is loaded from

Special == {Infinity, MinusInfinity, NaN}

\* What a factor that is not special can be.
Signs == {"zero", "negative", "positive"}

Doubles == {"num"} \cup Special

\* A double of the program's; of numbers it matters if they are below zero.
Constant == Int \cup Special

ASSUME PidAssumption ==
  /\ Infinity # MinusInfinity /\ NaN \notin {Infinity, MinusInfinity}
  /\ \A d \in Special : d \notin Int /\ d # "num" /\ d \notin Signs
  /\ Wild \notin Constant
  /\ Len(GainKeys) = 4
  /\ GainKeys \in Seq(Keys)
  /\ \A i \in 1 .. 4 : Cut[GainKeys[i]] = GainKeys[i]   \* they fit the buffer
  /\ \A s \in Setups : s.clamp \in Constant /\ \A i \in 1 .. 4 : s.gains[i] \in Constant
  /\ Inputs \subseteq Doubles

VARIABLES
  ready,   \* TRUE once the program may update the controller
  gains,   \* kp, ki, kd and rise_tau, as GainKeys
  clamp,   \* integ_clamp, which cc_pid_load_cfg does not write
  prev, error, deriv, integ,
  good     \* updates since the last with an input that is no number or with no time, up to 3

state == <<prev, error, deriv, integ>>
pid == <<ready, gains, clamp, state, good>>

-----------------------------------------------------------------------------
(* Arithmetic.  A factor is a sign or special. *)

Negated(a) == CASE a = Infinity -> MinusInfinity [] a = MinusInfinity -> Infinity [] OTHER -> a

Plus(a, b) == IF a = "num" THEN b ELSE IF b \in {"num", a} THEN a ELSE NaN

\* An infinity times a number depends on the number's sign.
Times(a, factor) ==
  IF NaN \in {a, factor} THEN {NaN}
  ELSE IF a = "num" THEN IF factor \in Special THEN Special ELSE {"num"}
  ELSE CASE factor = "zero"                         -> {NaN}
         [] factor \in {"negative", MinusInfinity}  -> {Negated(a)}
         [] OTHER                                   -> {a}

Sign(n) == IF n = 0 THEN "zero" ELSE IF n < 0 THEN "negative" ELSE "positive"

\* One that was never written can be anything.
Factors(c) == CASE c = Wild       -> Special \cup Signs
                [] c \in Special -> {c}
                [] OTHER          -> {Sign(c)}

\* A number divided by no time can be anything but a number.
PerTime(a, dt) == IF dt = 0 /\ a = "num" THEN Special ELSE {a}

\* dt / rise_tau, where a zero can have either sign.
Smoothing(dt) ==
  CASE gains[4] = Wild                     -> Factors(Wild)
    [] gains[4] = NaN                      -> {NaN}
    [] gains[4] \in Special \ {NaN}        -> {"zero"}
    [] gains[4] = 0                        -> IF dt = 0 THEN {NaN} ELSE Special \ {NaN}
    [] OTHER                               -> {IF dt = 0 THEN "zero" ELSE Sign(gains[4])}

\* clamp_f64(v, -clamp, clamp), which tests for v > -clamp and then for v < clamp; what is
\* no number fails both and becomes the lower bound.
Clamped(v) ==
  CASE clamp = Wild                     -> Doubles
    [] clamp = Infinity                 -> {IF v = NaN THEN MinusInfinity ELSE v}
    [] clamp \in {MinusInfinity, NaN}   -> {Negated(clamp)}
    [] OTHER                            -> {"num"}

\* Fault: the derivative is not begun anew when it is no number.
Derivatives_carried(dv, dt) ==
  {Plus(deriv, d) : d \in UNION {Times(Plus(dv, Negated(deriv)), f) : f \in Smoothing(dt)}}

Derivatives(dv, dt) ==
  IF deriv = NaN THEN {dv}
  ELSE {Plus(deriv, d) : d \in UNION {Times(Plus(dv, Negated(deriv)), f) : f \in Smoothing(dt)}}

-----------------------------------------------------------------------------
(* The functions of pid.h *)

Reset == /\ prev' = NaN /\ error' = NaN /\ deriv' = NaN /\ integ' = NaN
         /\ good' = 0

cc_pid_init ==
  /\ Reset
  /\ \E s \in Setups : gains' = [i \in DOMAIN GainKeys |-> s.gains[i]] /\ clamp' = s.clamp
  /\ ready' = TRUE

cc_pid_reset == ready /\ Reset /\ UNCHANGED <<ready, gains, clamp>>

\* What the lookups give, up to the first that returns false.
Looked == LET missing == {i \in DOMAIN GainKeys : cc_cfg_get_double(GainKeys[i]) = Null}
          IN  {i \in DOMAIN GainKeys : \A j \in missing : i < j}

\* Fault: the controller keeps its state.
ResetNot == UNCHANGED <<state, good>>

ResetLoaded == Reset

\* A lookup that fails leaves the gains before it overwritten and the state alone.
cc_pid_load_cfg ==
  /\ cfg = "loaded"
  /\ gains' = [i \in DOMAIN GainKeys |->
                 IF i \in Looked THEN cc_cfg_get_double(GainKeys[i]) ELSE gains[i]]
  /\ IF Looked = DOMAIN GainKeys
     THEN ResetLoaded /\ ready' = TRUE
     ELSE UNCHANGED <<state, good, ready>>
  /\ UNCHANGED clamp

\* dt is zero or above it; the arguments are named as in the definition (the
\* declaration at the head of pid.h names them setpoint and value).
cc_pid_update(value, err, dt) ==
  /\ ready
  /\ \E step \in Times(err, Sign(dt)) :
       integ' \in Clamped(Plus(IF integ = NaN THEN "num" ELSE integ, step))
  /\ IF prev = NaN THEN UNCHANGED deriv
     ELSE \E dv \in PerTime(Plus(value, Negated(prev)), dt) : deriv' \in Derivatives(dv, dt)
  /\ error' = err
  /\ prev' = value
  /\ good' = IF value = "num" /\ err = "num" /\ dt # 0
             THEN IF good < 3 THEN good + 1 ELSE 3
             ELSE 0
  /\ UNCHANGED <<ready, gains, clamp>>

\* What a gain times a term can be.
Term(c, a) == UNION {Times(a, f) : f \in Factors(c)}

\* The outputs that there can be: kp * error + ki * integ + kd * deriv.
cc_pid_get_output ==
  IF NaN \in {prev, integ} THEN {NaN}
  ELSE {Plus(Plus(p, i), d) : p \in Term(gains[1], error), i \in Term(gains[2], integ),
                              d \in Term(gains[3], deriv)}

-----------------------------------------------------------------------------
\* A controller in memory that was never written.
PidInit == /\ Init
           /\ ready = FALSE
           /\ gains = [i \in DOMAIN GainKeys |-> Wild]
           /\ clamp = Wild
           /\ prev = Wild /\ error = Wild /\ deriv = Wild /\ integ = Wild
           /\ good = 0

PidStep == \/ cc_pid_init \/ cc_pid_reset \/ cc_pid_load_cfg
           \/ \E value, err \in Inputs, dt \in {0, 1} : cc_pid_update(value, err, dt)

\* The controller has no part of the configuration: it is used before or after.
PidNext == \/ Next /\ UNCHANGED pid
           \/ cfg = "loaded" /\ Len(seen) <= PidLines /\ PidStep /\ UNCHANGED vars

PidSpec == PidInit /\ [][PidNext]_<<vars, pid>>

-----------------------------------------------------------------------------
(* Properties *)

Told(i) == GoodFor(GainKeys[i]) # {} /\ Says(GainKeys[i]).class = "number"

\* A controller that cc_pid_load_cfg has filled in has exactly the gains that the last
\* good lines of the file give, and starts afresh; one that it refuses goes on from where
\* it was.  Only a file that was refused itself can make it take what no line says.
LoadFollowsFile ==
  [][cc_pid_load_cfg =>
       /\ (\A i \in DOMAIN GainKeys : Told(i)) =>
            /\ gains' = [i \in DOMAIN GainKeys |-> Says(GainKeys[i]).is]
            /\ {prev', error', deriv', integ'} = {NaN}
       /\ success /\ (\E i \in DOMAIN GainKeys : ~Told(i)) => UNCHANGED state]_<<vars, pid>>

\* Whatever a controller was fed before, numbers that are none, infinities or no time
\* between two updates, and whatever it was set up with then, three good updates later
\* its output is a number again: as long as its gains and its clamp are numbers and its
\* rise time is one above zero.
OutputSettles ==
  good = 3 /\ clamp \in Int /\ (\A i \in 1 .. 4 : gains[i] \in Int) /\ gains[4] > 0
    => cc_pid_get_output = {"num"}
=============================================================================
