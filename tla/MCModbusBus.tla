---------------------------- MODULE MCModbusBus -----------------------------
(* Small instances of ModbusBus for TLC.  One tick stands for 250 ms. *)
EXTENDS ModbusBus, TLC

CONSTANTS r1, r2, w

MCReaders == {r1, r2}
MCWriter == w

\* the readers are interchangeable in the runs without fairness
ReaderSymmetry == Permutations(MCReaders)
=============================================================================
