--------------------------------- MODULE PID ---------------------------------
(***************************************************************************)
(* The PID controller of PID_v1.  A second has Unit ticks, and numbers with  *)
(* a fraction stand in units of 1/Unit (1000 in the code); the input and     *)
(* the setpoint are whole.  The program sets the setpoint, the process moves *)
(* the input, and in manual mode the output is the program's, too.         *)
(***************************************************************************)
EXTENDS Integers

CONSTANTS
  Unit,
  Inputs, Setpoints,
  Outputs,          \* that the program gives in manual mode
  Limits,           \* [min, max] of the output that it sets
  Tunings,          \* [p, i, d] that it sets
  SampleTimes,      \* that it sets, in ticks
  Default,          \* limits and sample time of the constructor
  Clock             \* millis() counts modulo this

ASSUME PIDAssumption ==
  /\ Unit \in Nat \ {0}
  /\ Inputs \subseteq Int /\ Setpoints \subseteq Int /\ Outputs \subseteq Int
  /\ Limits \subseteq [min : Int, max : Int] /\ Tunings \subseteq [p : Int, i : Int, d : Int]
  /\ SampleTimes \subseteq Int /\ Clock \in Nat \ {0}
  /\ Default \in [min : Int, max : Int, sampleTime : Nat \ {0}]
  /\ Default.min < Default.max /\ Default.sampleTime <= Clock

DIRECT  == 0
REVERSE == 1

VARIABLES
  input, output, setpoint,        \* *myInput, *myOutput, *mySetpoint
  inAuto, controllerDirection,
  disp,                           \* dispKp, dispKi, dispKd
  kp, ki, kd,                     \* the gains
  ITerm, lastInput,
  SampleTime, lastTime, outMin, outMax,
  millis,
  elapsed,                        \* history: time since lastTime, up to Clock
  computed                        \* history: was the output computed since automatic mode began?

process == <<input, output, setpoint>>
mode    == <<inAuto, controllerDirection>>
gains   == <<kp, ki, kd>>
limits  == <<outMin, outMax>>
memory  == <<ITerm, lastInput>>
time    == <<lastTime, millis, elapsed>>
pidVars == <<process, mode, disp, gains, limits, memory, SampleTime, time, computed>>

-----------------------------------------------------------------------------

Clamped(x, min, max) == IF x > max THEN max ELSE IF x < min THEN min ELSE x

Sign(direction) == IF direction = REVERSE THEN -1 ELSE 1

\* Per sample: Ki * SampleTimeInSec and Kd / SampleTimeInSec.
Integral(K, sampleTime)   == K * sampleTime
Derivative(K, sampleTime) == (K * Unit * Unit) \div sampleTime

Negative(t) == t.p < 0 \/ t.i < 0 \/ t.d < 0

\* With negative tunings the constructor leaves the gains as the memory was.
PIDInit ==
  /\ input \in Inputs /\ output \in Outputs /\ setpoint \in Setpoints
  /\ inAuto = FALSE /\ controllerDirection \in {DIRECT, REVERSE}
  /\ outMin = Default.min /\ outMax = Default.max
  /\ SampleTime = Default.sampleTime
  /\ disp \in {t \in Tunings : ~Negative(t)}
  /\ kp = Sign(controllerDirection) * disp.p * Unit
  /\ ki = Sign(controllerDirection) * Integral(disp.i, SampleTime)
  /\ kd = Sign(controllerDirection) * Derivative(disp.d, SampleTime)
  /\ ITerm = 0 /\ lastInput = 0
  /\ millis = 0 /\ lastTime = (0 - SampleTime) % Clock /\ elapsed = SampleTime
  /\ computed = FALSE

Tick ==
  /\ millis' = (millis + 1) % Clock
  /\ elapsed' = IF elapsed = Clock THEN Clock ELSE elapsed + 1
  /\ input' \in Inputs
  /\ UNCHANGED <<output, setpoint, mode, disp, gains, limits, memory, SampleTime, lastTime,
                 computed>>

\* The program sets the setpoint and, in manual mode, the output.
Program ==
  /\ setpoint' \in Setpoints
  /\ IF inAuto THEN UNCHANGED output ELSE output' \in Outputs
  /\ UNCHANGED <<input, mode, disp, gains, limits, memory, SampleTime, time, computed>>

Due == (millis - lastTime) % Clock >= SampleTime

Compute ==
  /\ inAuto /\ Due
  /\ LET error == setpoint - input IN
     /\ ITerm' = Clamped(ITerm + ki * error, outMin, outMax)
     /\ output' = Clamped(kp * error + ITerm' - kd * (input - lastInput), outMin, outMax)
  /\ lastInput' = input
  /\ lastTime' = millis /\ elapsed' = 0
  /\ computed' = TRUE
  /\ UNCHANGED <<input, setpoint, mode, disp, gains, limits, SampleTime, millis>>

SetTunings(t) ==
  /\ ~Negative(t)
  /\ disp' = t
  /\ kp' = Sign(controllerDirection) * t.p * Unit
  /\ ki' = Sign(controllerDirection) * Integral(t.i, SampleTime)
  /\ kd' = Sign(controllerDirection) * Derivative(t.d, SampleTime)
  /\ UNCHANGED <<process, mode, limits, memory, SampleTime, time, computed>>

\* ki *= ratio and kd /= ratio
Lengthened(gain, new) == (gain * new) \div SampleTime
Shortened(gain, new)  == (gain * SampleTime) \div new

SetSampleTime(new) ==
  /\ new > 0
  /\ ki' = Lengthened(ki, new) /\ kd' = Shortened(kd, new)
  /\ SampleTime' = new
  /\ UNCHANGED <<process, mode, disp, kp, limits, memory, time, computed>>

\* Mutant: the integral keeps its old limits.
Mut_Reclamped(min, max) == ITerm
Reclamped(min, max) == Clamped(ITerm, min, max)

SetOutputLimits(l) ==
  /\ l.min < l.max
  /\ outMin' = l.min /\ outMax' = l.max
  /\ IF inAuto
     THEN output' = Clamped(output, l.min, l.max) /\ ITerm' = Reclamped(l.min, l.max)
     ELSE UNCHANGED <<output, ITerm>>
  /\ UNCHANGED <<input, setpoint, mode, disp, gains, lastInput, SampleTime, time,
                 computed>>

\* A change either way initializes.
SetMode(newAuto) ==
  /\ inAuto' = newAuto
  /\ IF newAuto # inAuto
     THEN ITerm' = Clamped(output, outMin, outMax) /\ lastInput' = input
     ELSE UNCHANGED memory
  /\ computed' = (computed /\ newAuto)
  /\ UNCHANGED <<process, controllerDirection, disp, gains, limits, SampleTime, time>>

\* In manual mode the gains keep their sign, until the next SetTunings().
SetControllerDirection(direction) ==
  /\ IF inAuto /\ direction # controllerDirection
     THEN kp' = 0 - kp /\ ki' = 0 - ki /\ kd' = 0 - kd
     ELSE UNCHANGED gains
  /\ controllerDirection' = direction
  /\ UNCHANGED <<process, inAuto, disp, limits, memory, SampleTime, time, computed>>

PIDNext ==
  \/ Tick \/ Program \/ Compute
  \/ \E t \in Tunings : SetTunings(t)
  \/ \E s \in SampleTimes : SetSampleTime(s)
  \/ \E l \in Limits : SetOutputLimits(l)
  \/ \E auto \in BOOLEAN : SetMode(auto)
  \/ \E direction \in {DIRECT, REVERSE} : SetControllerDirection(direction)

PIDSpec == PIDInit /\ [][PIDNext]_pidVars

-----------------------------------------------------------------------------
(* Properties                                                              *)

PIDTypeOK ==
  /\ input \in Inputs /\ output \in Int /\ setpoint \in Setpoints
  /\ inAuto \in BOOLEAN /\ controllerDirection \in {DIRECT, REVERSE}
  /\ disp \in [p : Int, i : Int, d : Int]
  /\ kp \in Int /\ ki \in Int /\ kd \in Int
  /\ ITerm \in Int /\ lastInput \in Int
  /\ SampleTime \in Nat \ {0} /\ lastTime \in 0..(Clock - 1)
  /\ outMin \in Int /\ outMax \in Int /\ outMin < outMax
  /\ millis \in 0..(Clock - 1) /\ elapsed \in 0..Clock
  /\ computed \in BOOLEAN

\* In automatic mode neither the integral winds up past the limits nor, once it was
\* computed, the output, whatever order limits, modes, tunings and samples come in.
InLimits ==
  inAuto => /\ ITerm \in outMin..outMax
            /\ computed => output \in outMin..outMax

Scaled(sign) ==
  /\ kp = sign * disp.p * Unit
  /\ ki = sign * disp.i * SampleTime
  /\ kd * SampleTime = sign * disp.d * Unit * Unit

\* The three gains act in one direction, at the strength that was set last and for the
\* sample time of now, whatever order tunings, sample times, directions and modes come in.
\* It does not say which direction: that of the gains may be the old one.
GainsScale == \E sign \in {-1, 1} : Scaled(sign)

\* The clock tells the time that has gone by, as long as it has not gone all the way round.
PaceInv == elapsed < Clock => (millis - lastTime) % Clock = elapsed

\* Samples are SampleTime apart at least, and one that is due is not missed, also when
\* the clock has wrapped between them, as long as it has not gone all the way round.
Paced == elapsed < Clock => (Due <=> elapsed >= SampleTime)
=============================================================================
