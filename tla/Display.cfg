CONSTANTS
  Watched = {"speed"}
  ReadingsLen = 1
  ControlsLen = 2
  MaxCommands = 2
  Drawers = {"screen_task", "setup_task"}
  Repainter = "set_target_task"
  Garbage = Garbage
  MaxDrawings = 2

SPECIFICATION MCSpec

INVARIANTS TypesOK OffByOneLine
PROPERTIES RamCatchesUp ReadingsHeal
