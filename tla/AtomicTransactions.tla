------------------------- MODULE AtomicTransactions -------------------------
(***************************************************************************)
(* What PicoI2C promises its callers, without FIFOs, interrupts and        *)
(* notifications: transactions come one after the other, the device        *)
(* carries each one out or refuses it at one moment, and the call ends     *)
(* after that moment, with every byte read in its buffer and the full      *)
(* count as its answer.  Bytes are put only into the buffer of a call that *)
(* is going on.                                                            *)
(*                                                                         *)
(* Once a call has timed out, of this one or of an earlier transaction,    *)
(* calls may end before their transactions do.                             *)
(***************************************************************************)
EXTENDS Naturals

CONSTANTS
  Tasks,    \* the callers
  Nobody,   \* no transaction is going on
  Jobs      \* the transactions: [w |-> bytes to write, r |-> bytes to read]

VARIABLES
  holder,   \* whose transaction is going on
  job,      \* the last transaction
  outcome,  \* "open", "whole", or "refused" by the device
  missing,  \* bytes that have not reached the caller's buffer
  decided,  \* the holder's call is about to return...
  answer,   \* ... with this count
  late      \* some call has timed out

atomicVars == <<holder, job, outcome, missing, decided, answer, late>>

\* before the first transaction
Init ==
  /\ holder = Nobody
  /\ job = [w |-> 0, r |-> 0] /\ outcome = "whole" /\ missing = 0
  /\ decided = FALSE /\ answer = 0
  /\ late = FALSE

Begin(t) ==
  /\ holder = Nobody /\ holder' = t
  /\ job' \in Jobs
  /\ outcome' = "open" /\ missing' = job'.r
  /\ answer' = job'.w + job'.r
  /\ UNCHANGED <<decided, late>>

(* The device has done all, or does not acknowledge.                       *)
Finish ==
  /\ outcome = "open" /\ outcome' \in {"whole", "refused"}
  /\ UNCHANGED <<holder, job, missing, decided, answer, late>>

Collect ==
  /\ holder # Nobody
  /\ \E n \in 1..missing : missing' = missing - n
  /\ UNCHANGED <<holder, job, outcome, decided, answer, late>>

\* what a call may answer, unless something has timed out
Earned(n) ==
  \/ outcome = "refused"
  \/ outcome = "whole" /\ missing = 0 /\ n = job.w + job.r

Decide ==
  /\ holder # Nobody /\ ~decided
  /\ decided' = TRUE
  /\ answer' \in 0..answer
  /\ late \/ Earned(answer')
  /\ UNCHANGED <<holder, job, outcome, missing, late>>

(* A second has passed without a stop condition.                           *)
TimeOut ==
  /\ holder # Nobody /\ ~decided
  /\ decided' = TRUE
  /\ answer' = 0
  /\ late' = TRUE
  /\ UNCHANGED <<holder, job, outcome, missing>>

Return ==
  /\ decided /\ decided' = FALSE
  /\ holder' = Nobody
  /\ UNCHANGED <<job, outcome, missing, answer, late>>

Next ==
  \/ \E t \in Tasks : Begin(t)
  \/ Finish \/ Collect \/ Decide \/ TimeOut \/ Return

Spec == Init /\ [][Next]_atomicVars
=============================================================================
