------------------------------ MODULE ValveDuty -----------------------------
(***************************************************************************)
(* What FanController promises about the CO2 valve, without its timers,    *)
(* flags and tasks: an opening is followed by a closing, and the valve is  *)
(* ready to open again only when BlockDelay ticks have passed since it     *)
(* opened.  `age' is the number of ticks since the last opening, counted   *)
(* up to BlockDelay.                                                       *)
(***************************************************************************)
EXTENDS Naturals

CONSTANT BlockDelay   \* a number of ticks

VARIABLES phase, age

dutyVars == <<phase, age>>

Init == phase = "blocked" /\ age = BlockDelay

Elapse == age' = IF age < BlockDelay THEN age + 1 ELSE BlockDelay

Open == phase = "ready" /\ phase' = "open" /\ age' = 0

Close == phase = "open" /\ phase' = "blocked" /\ Elapse

Release ==
  /\ phase = "blocked"
  /\ phase' = "ready"
  /\ Elapse
  /\ age' >= BlockDelay

Wait == Elapse /\ UNCHANGED phase

Next == Open \/ Close \/ Release \/ Wait

Spec == Init /\ [][Next]_dutyVars
=============================================================================
