------------------------------ MODULE MCDisplay ------------------------------
(***************************************************************************)
(* Small instances of Screen and of Ssd1306 for TLC: what the tasks draw   *)
(* in the frame buffer, and how it gets to the display.  The two share     *)
(* nothing but the buffer, which Ssd1306 sees as one picture; an execution *)
(* follows one of them, `drawing' or not, and the other rests.             *)
(***************************************************************************)
EXTENDS Screen

CONSTANTS Drawers, Repainter, Garbage, MaxDrawings  \* of Ssd1306

VARIABLES
  drawing,
  buffer, step, holder, pend, cols, pages, home, startLine, ram

shown == <<buffer, step, holder, pend, cols, pages, home, startLine, ram>>
all == <<drawing, vars, shown>>

Display == INSTANCE Ssd1306 WITH frame <- buffer

ASSUME MCAssumption == ScreenAssumption /\ Display!DisplayAssumption

MCInit ==
  /\ drawing \in BOOLEAN
  /\ Init /\ Display!Init
  /\ ~drawing => todo["setup_task"] = SetInitialValues(FALSE)

MCNext ==
  /\ UNCHANGED drawing
  /\ \/ drawing /\ Next /\ UNCHANGED shown
     \/ ~drawing /\ Display!Next /\ UNCHANGED vars

OnBuffer(A) == drawing /\ A /\ UNCHANGED <<drawing, shown>>
OnDisplay(A) == ~drawing /\ A /\ UNCHANGED <<drawing, vars>>

\* the fairness of each module, for the executions that follow it
MCFairness ==
  /\ \A t \in Tasks : WF_all(OnBuffer(Run(t))) /\ WF_all(OnDisplay(Display!Showing(t)))
  /\ WF_all(OnBuffer(ReceiveReading)) /\ WF_all(OnBuffer(ReceiveControl))
  /\ SF_all(OnBuffer(PublishSpeed))
  /\ WF_all(OnDisplay(Display!Repaint))

MCSpec == MCInit /\ [][MCNext]_all /\ MCFairness

-----------------------------------------------------------------------------
(* Every variable of the two modules has its type.                         *)
TypesOK == TypeOK /\ Display!TypeOK

(* OffByOneLine of Ssd1306: mixed commands move the picture one line.      *)
OffByOneLine == Display!OffByOneLine

(* RamCatchesUp of Ssd1306: the display comes to show the frame buffer.    *)
RamCatchesUp == Display!RamCatchesUp
=============================================================================
