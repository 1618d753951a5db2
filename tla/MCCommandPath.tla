--------------------------- MODULE MCCommandPath ----------------------------
(***************************************************************************)
(* A small instance of CommandPath for TLC, with one user at a time.       *)
(***************************************************************************)
EXTENDS OneUser

\* the knob starts at the lower end of both ranges
MCStored == {[speed |-> 0, target |-> 0, manual |-> FALSE]}

\* the heap looks like a command with an unknown mode
MCHeapCommands == {[type |-> "MODE_SET", f |-> 0, w |-> 7]}

MCKnobEvents == {"mode", "up", "down", "button"}

MCWebCommands == {[manual |-> TRUE, value |-> 10], [manual |-> FALSE, value |-> 10],
                  [manual |-> TRUE, value |-> 400]}

\* the float of 1500, which is no mode
MCLowHalves == {32768}
=============================================================================
