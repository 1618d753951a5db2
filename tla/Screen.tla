------------------------------- MODULE Screen -------------------------------
(***************************************************************************)
(* What is drawn on the screen: screen_task draws readings,                *)
(* set_target_task the commands of the knob and of the web, and setup_task *)
(* the restored settings.  The three have the same priority, share         *)
(* reading_blit_buf and the frame buffer, and may be preempted between any *)
(* two of the operations that the lists below name.                        *)
(*                                                                         *)
(* A text is known by the field it is meant for: what the numbers are is   *)
(* left out.  A blit is one operation.  How the frame gets to the display  *)
(* is module Ssd1306; here show() changes nothing.                         *)
(***************************************************************************)
EXTENDS Rtos

CONSTANTS
  Watched,      \* the fields whose picture is kept
  ReadingsLen,  \* places in reading_queue (20)
  ControlsLen,  \* places in control_queue (50)
  MaxCommands   \* bound: commands

Fields == {"mode", "reading", "speed", "target"}
Tasks == {"screen_task", "set_target_task", "setup_task"}

ScreenAssumption ==
  /\ Watched \subseteq Fields
  /\ ReadingsLen \in Nat /\ ControlsLen \in Nat /\ MaxCommands \in Nat

VARIABLES
  readings,     \* reading_queue: which field each reading is for
  controls,     \* control_queue: which setting each command is about
  todo,         \* the operations each task has left
  blitBuf,      \* reading_blit_buf: its background, whose texts are on it
  frame,        \* the frame buffer: of each watched field, the background
                \* and whether there is no other field's text
  manual,       \* manual_highlighted
  dehighlight,  \* set_target_task's local
  commands      \* commands so far

picture == <<blitBuf, frame>>
members == <<manual, dehighlight>>
vars == <<readings, controls, commands, todo, picture, members>>

-----------------------------------------------------------------------------
(* What the functions do, as lists of operations                           *)

(* set_fan_speed_percentage and set_co2_target                             *)
Inked(field, highlight) ==
  << <<"fill", highlight>>, <<"text", field>>, <<"blit", field>> >>

(* set_reading_value and set_mode                                          *)
Cleared(field) ==
  << <<"fill", FALSE>>, <<"blit", field>>, <<"text", field>>, <<"blit", field>> >>

(* set_initial_values                                                      *)
SetInitialValues(isManual) ==
  Inked("target", ~isManual) \o Inked("speed", isManual) \o Cleared("mode")
    \o << <<"restore", isManual>> >>

Init ==
  /\ readings = << >> /\ controls = << >> /\ commands = 0
  /\ \E isManual \in BOOLEAN :
       todo = [t \in Tasks |->
                 IF t = "setup_task" THEN SetInitialValues(isManual) ELSE << >>]
  /\ blitBuf = [lit |-> FALSE, of |-> {}]
  /\ frame = [f \in Watched |-> [lit |-> FALSE, own |-> TRUE]]
  /\ manual = FALSE /\ dehighlight = FALSE

-----------------------------------------------------------------------------
(* The rest of the system                                                  *)

Publish(f) ==
  /\ readings' = SendNoWait(readings, ReadingsLen, f)
  /\ UNCHANGED <<controls, commands, todo, picture, members>>

SendCommand ==
  /\ commands < MaxCommands /\ commands' = commands + 1
  /\ \E c \in {"mode", "speed", "target"} :
       controls' = SendNoWait(controls, ControlsLen, c)
  /\ UNCHANGED <<readings, todo, picture, members>>

-----------------------------------------------------------------------------
(* The tasks take up work.                                                 *)

Goes(t, ops) == todo' = [todo EXCEPT ![t] = ops]

\* mutant: the condition is the wrong way round
OpsWhenManual(f) ==
  IF f = "speed" THEN IF manual THEN << <<"speed">> >> ELSE << >>
  ELSE Cleared(f)

(* A speed is drawn unless manual_highlighted is set.                      *)
OpsFor(f) ==
  IF f = "speed" THEN IF manual THEN << >> ELSE << <<"speed">> >>
  ELSE Cleared(f)

ReceiveReading ==
  /\ todo["screen_task"] = << >> /\ readings # << >>
  /\ readings' = Tail(readings)
  /\ Goes("screen_task", OpsFor(Head(readings)))
  /\ UNCHANGED <<controls, commands, picture, members>>

OnMode == Goes("set_target_task", Cleared("mode")) /\ UNCHANGED members

OnSpeed ==
  /\ manual' = TRUE /\ dehighlight' = TRUE
  /\ Goes("set_target_task", Inked("speed", TRUE) \o Inked("target", FALSE))

OnTarget ==
  /\ manual' = FALSE /\ dehighlight' = FALSE
  /\ Goes("set_target_task",
          Inked("target", TRUE)
            \o IF dehighlight THEN Inked("speed", FALSE) ELSE << >>)

ReceiveControl ==
  /\ todo["set_target_task"] = << >> /\ controls # << >>
  /\ controls' = Tail(controls)
  /\ \/ Head(controls) = "mode" /\ OnMode
     \/ Head(controls) = "speed" /\ OnSpeed
     \/ Head(controls) = "target" /\ OnTarget
  /\ UNCHANGED <<readings, commands, picture>>

-----------------------------------------------------------------------------
(* The operations                                                          *)

Does(t, name) == todo[t] # << >> /\ Head(todo[t])[1] = name

Arg(t) == Head(todo[t])[2]

Rest(t) == Tail(todo[t])

Fill(t) ==
  /\ Does(t, "fill") /\ Goes(t, Rest(t))
  /\ blitBuf' = [lit |-> Arg(t), of |-> {}]
  /\ UNCHANGED <<readings, controls, commands, frame, members>>

Text(t) ==
  /\ Does(t, "text") /\ Goes(t, Rest(t))
  /\ blitBuf' = [blitBuf EXCEPT !.of = @ \cup {Arg(t)}]
  /\ UNCHANGED <<readings, controls, commands, frame, members>>

Blit(t) ==
  /\ Does(t, "blit") /\ Goes(t, Rest(t))
  /\ frame' = [f \in Watched |->
                 IF f = Arg(t)
                 THEN [lit |-> blitBuf.lit, own |-> blitBuf.of \subseteq {f}]
                 ELSE frame[f]]
  /\ UNCHANGED <<readings, controls, commands, blitBuf, members>>

(* screen_task reads manual_highlighted again for the call.                *)
CallWithManual(t) ==
  /\ Does(t, "speed") /\ Goes(t, Inked("speed", manual) \o Rest(t))
  /\ UNCHANGED <<readings, controls, commands, picture, members>>

(* set_initial_values ends with the members.                               *)
Restore(t) ==
  /\ Does(t, "restore") /\ Goes(t, Rest(t))
  /\ manual' = Arg(t)
  /\ UNCHANGED <<readings, controls, commands, picture, dehighlight>>

Run(t) == Fill(t) \/ Text(t) \/ Blit(t) \/ CallWithManual(t) \/ Restore(t)

Next ==
  \/ \E f \in {"reading", "speed"} : Publish(f)
  \/ SendCommand
  \/ ReceiveReading \/ ReceiveControl
  \/ \E t \in Tasks : Run(t)

Spec == Init /\ [][Next]_vars

(* Every task that can run is run; screen_task outruns the handlers, which *)
(* publish once a second, so each finds a place in its queue.              *)
PublishSpeed == Publish("speed") /\ Len(readings) < ReadingsLen

Fairness ==
  /\ \A t \in Tasks : WF_vars(Run(t))
  /\ WF_vars(ReceiveReading) /\ WF_vars(ReceiveControl)
  /\ SF_vars(PublishSpeed)

FairSpec == Spec /\ Fairness

-----------------------------------------------------------------------------
(* Every variable has its type; the queues keep to their lengths.          *)
TypeOK ==
  /\ readings \in Seq(Fields) /\ Len(readings) <= ReadingsLen
  /\ controls \in Seq(Fields) /\ Len(controls) <= ControlsLen
  /\ blitBuf \in [lit : BOOLEAN, of : SUBSET Fields]
  /\ frame \in [Watched -> [lit : BOOLEAN, own : BOOLEAN]]
  /\ manual \in BOOLEAN /\ dehighlight \in BOOLEAN
  /\ commands \in 0..MaxCommands

(* What the tasks have spoilt in each other's fields, the readings put     *)
(* right: once there are no more commands, the speed in automatic mode is  *)
(* shown as a speed and not highlighted, whatever happened before and      *)
(* whichever task wrote manual_highlighted last.                           *)
ReadingsHeal == <>[](~manual => frame["speed"] = [lit |-> FALSE, own |-> TRUE])
=============================================================================
