------------------------------ MODULE OneUser -------------------------------
(***************************************************************************)
(* The executions of CommandPath in which one of the two sources of        *)
(* commands is used and the other rests: either somebody turns and presses *)
(* the knob, or the web service sends commands.  What the code promises    *)
(* about the end of a command it promises only here: the knob keeps        *)
(* settings of its own, and the two sources write the two queues in orders *)
(* of their own.                                                           *)
(***************************************************************************)
EXTENDS CommandPath

VARIABLE user   \* who uses the system

OneUserInit == Init /\ user \in {"knob", "web"}

OneUserNext ==
  /\ UNCHANGED user
  /\ \/ user = "knob" /\ Interrupt
     \/ user = "web" /\ \E c \in WebCommands : ParserTake(c)
     \/ KnobTask \/ ParserTask \/ ReadCommand \/ ScreenTake

OneUserSpec == OneUserInit /\ [][OneUserNext]_<<vars, user>> /\ Fairness

(* WebCommandHolds of CommandPath, whose premise is that nobody touches    *)
(* the knob: a command of the web service takes effect in the controller   *)
(* and shows on the screen.                                                *)
WebAloneHolds == user = "web" => WebCommandHolds
=============================================================================
