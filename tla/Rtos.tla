-------------------------------- MODULE Rtos --------------------------------
(***************************************************************************)
(* The two FreeRTOS services the application relies on everywhere, as pure *)
(* operators: a queue of fixed length that a sender offers an item to      *)
(* without waiting, and a one-shot software timer kept as the number of    *)
(* ticks that are left of it (0 when it is not running).                   *)
(***************************************************************************)
EXTENDS Naturals, Sequences

\* mutant: the length is not checked
SendIgnoringCapacity(q, cap, x) == Append(q, x)

(* xQueueGenericSend with xTicksToWait = 0: the item is copied to the back *)
(* of the queue when there is room; otherwise errQUEUE_FULL is returned    *)
(* and, since no caller looks at the result, the item is gone.             *)
SendNoWait(q, cap, x) == IF Len(q) < cap THEN Append(q, x) ELSE q

(* One tick of a running one-shot timer.  The timer expires with the tick  *)
(* that takes it from 1 to 0, and the daemon calls its callback then.      *)
TickOf(left) == IF left > 0 THEN left - 1 ELSE 0

Expires(left) == left = 1
=============================================================================
