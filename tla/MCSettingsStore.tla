--------------------------- MODULE MCSettingsStore --------------------------
(***************************************************************************)
(* Small instances of SettingsStore: values that tell the pages apart, a   *)
(* target that is never 0, a speed that is.                                *)
(***************************************************************************)
EXTENDS SettingsStore

MCTargets == {7, 8}
MCSpeeds == {5}
=============================================================================
