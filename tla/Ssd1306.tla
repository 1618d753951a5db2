------------------------------ MODULE Ssd1306 -------------------------------
(***************************************************************************)
(* The display: ssd1306os::show(), which several tasks of the same         *)
(* priority call, and the SSD1306 that receives what they send.  Each of   *)
(* the six commands of a show() is an I2C transaction of its own, and so   *)
(* is the frame buffer; the bus is free in between.  The display reads     *)
(* commands of three bytes, whoever sent the bytes, and writes data to the *)
(* window that they set.                                                   *)
(*                                                                         *)
(* A picture of the frame buffer is a number: each drawing makes a new     *)
(* one.  One task, set_target_task, repaints every 100 ticks.              *)
(***************************************************************************)
EXTENDS Naturals, Sequences

CONSTANTS
  Drawers,     \* the tasks that show what they have drawn
  Repainter,   \* the task that shows again and again
  Garbage,     \* what the display shows after stray data
  MaxDrawings  \* bound: drawings

Tasks == Drawers \cup {Repainter}
Free == "free"

DisplayAssumption ==
  /\ Garbage \notin Nat
  /\ Free \notin Tasks
  /\ Repainter \notin Drawers
  /\ MaxDrawings \in Nat

VARIABLES
  frame,       \* the picture in the frame buffer
  step,        \* each task's next transaction of show(), 0 outside it
  holder,      \* the task whose frame buffer is being sent
  pend,        \* the bytes of a command that has not ended
  cols, pages, \* the window
  home,        \* the pointers that are at the window's start
  startLine,   \* the RAM line that is shown first
  ram          \* the picture in the upper and in the lower half

vars == <<frame, step, holder, pend, cols, pages, home, startLine, ram>>

ColAddr == 33
PageAddr == 34

\* mutants: the page command is a copy of the column command; 64 columns
ColsTwice == << ColAddr, 0, 127, ColAddr, 0, 7 >>
NarrowAddress == << ColAddr, 32, 95, PageAddr, 0, 7 >>

(* The six commands of show(): all columns, all pages.                     *)
Address == << ColAddr, 0, 127, PageAddr, 0, 7 >>

Init ==
  /\ frame = 0
  /\ step = [t \in Tasks |-> 0]
  /\ holder = Free
  /\ pend = << >> /\ cols = <<0, 127>> /\ pages = <<0, 7>>
  /\ home = {ColAddr, PageAddr} /\ startLine = 0
  /\ ram = <<0, 0>>

-----------------------------------------------------------------------------
(* A task has drawn; set_target_task leaves show() to its next repaint.    *)
Draw(t) ==
  /\ frame < MaxDrawings
  /\ step[t] = 0
  /\ frame' = frame + 1
  /\ step' = [step EXCEPT ![t] = IF t = Repainter THEN 0 ELSE 1]
  /\ UNCHANGED <<holder, pend, cols, pages, home, startLine, ram>>

(* No command has come for 100 ticks.                                      *)
Repaint ==
  /\ step[Repainter] = 0
  /\ step' = [step EXCEPT ![Repainter] = 1]
  /\ UNCHANGED <<frame, holder, pend, cols, pages, home, startLine, ram>>

-----------------------------------------------------------------------------
(* What the display makes of a byte.  The first one of a command is an     *)
(* address command, or sets the start line (64 to 127), or (0 and 7) sets  *)
(* a pointer that its horizontal mode does not use.                        *)
FirstByte(b) ==
  /\ pend = << >>
  /\ pend' = IF b \in {ColAddr, PageAddr} THEN << b >> ELSE << >>
  /\ startLine' = IF b \in 64..127 THEN b - 64 ELSE startLine
  /\ UNCHANGED <<cols, pages, home>>

\* mutant: the display waits for a fourth byte
NeverLast(b) == pend' = Append(pend, b) /\ UNCHANGED <<cols, pages, home, startLine>>

MiddleByte(b) ==
  /\ Len(pend) = 1
  /\ pend' = Append(pend, b)
  /\ UNCHANGED <<cols, pages, home, startLine>>

LastByte(b) ==
  /\ Len(pend) = 2
  /\ pend' = << >>
  /\ IF pend[1] = ColAddr
     THEN cols' = <<pend[2], b>> /\ UNCHANGED pages
     ELSE pages' = <<pend[2] % 8, b % 8>> /\ UNCHANGED cols
  /\ home' = home \cup {pend[1]}
  /\ UNCHANGED startLine

(* send_cmd                                                                *)
SendCmd(t) ==
  /\ holder = Free
  /\ step[t] \in DOMAIN Address
  /\ LET b == Address[step[t]] IN FirstByte(b) \/ MiddleByte(b) \/ LastByte(b)
  /\ step' = [step EXCEPT ![t] = @ + 1]
  /\ UNCHANGED <<frame, holder, ram>>

InPlace ==
  home = {ColAddr, PageAddr} /\ cols = <<0, 127>> /\ pages = <<0, 7>>

(* The frame buffer is sent "at one go"; other tasks draw in it meanwhile. *)
SendUpper(t) ==
  /\ holder = Free /\ holder' = t
  /\ step[t] = 7
  /\ step' = [step EXCEPT ![t] = 8]
  /\ ram' = IF InPlace THEN <<frame, ram[2]>> ELSE <<Garbage, Garbage>>
  /\ UNCHANGED <<frame, pend, cols, pages, home, startLine>>

SendLower(t) ==
  /\ holder = t /\ holder' = Free
  /\ step' = [step EXCEPT ![t] = 0]
  /\ IF InPlace
     THEN ram' = <<ram[1], frame>> /\ UNCHANGED home
     ELSE home' = {} /\ UNCHANGED ram
  /\ UNCHANGED <<frame, pend, cols, pages, startLine>>

Showing(t) == SendCmd(t) \/ SendUpper(t) \/ SendLower(t)

Next ==
  \/ Repaint
  \/ \E t \in Tasks : Draw(t) \/ Showing(t)

Spec == Init /\ [][Next]_vars

(* The time that set_target_task waits for a command passes, and a task    *)
(* that is in show() gets the bus.                                         *)
Fairness ==
  /\ WF_vars(Repaint)
  /\ \A t \in Tasks : WF_vars(Showing(t))

FairSpec == Spec /\ Fairness

-----------------------------------------------------------------------------
(* Every variable has its type, and the display never holds more than the  *)
(* two bytes that a third one completes.                                   *)
TypeOK ==
  /\ frame \in 0..MaxDrawings
  /\ step \in [Tasks -> 0..8]
  /\ holder \in Tasks \cup {Free}
  /\ pend \in Seq(0..127) /\ Len(pend) <= 2
  /\ cols \in (0..127) \X (0..127) /\ pages \in (0..7) \X (0..7)
  /\ home \subseteq {ColAddr, PageAddr}
  /\ startLine \in 0..63
  /\ ram \in (Nat \cup {Garbage}) \X (Nat \cup {Garbage})

(* However the show() of several tasks interleave, the display comes to    *)
(* show the frame buffer and keeps showing it once nobody draws: what      *)
(* mixed commands have done to the window is undone by a later repaint.    *)
RamCatchesUp == <>[](ram = <<frame, frame>>)

(* What mixed commands do to the start line is bounded: the picture is at  *)
(* most one line too low.                                                  *)
OffByOneLine == startLine \in {0, 63}
=============================================================================
