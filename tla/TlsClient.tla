----------------------------- MODULE TlsClient ------------------------------
(***************************************************************************)
(* One HTTPS request after the other: send_tls_request and its copies, the *)
(* callbacks they register with the network stack, and the task that looks *)
(* once a second whether the connection has completed.                     *)
(*                                                                         *)
(* The callbacks run in the stack's own threads, one at a time, and the    *)
(* waiting task may run between the steps of one: after `complete' is set  *)
(* it reads the error and frees the state, wherever the callback is.  If   *)
(* that overtakes a callback, the rest of it works on freed memory, and    *)
(* `stray' is set; it is set too where the source closes by a pointer that *)
(* is not a state.  From then on the program may do anything: the model    *)
(* says what can happen to the connection, and promises nothing.           *)
(* The stack, the server and the resolver are external: every result the   *)
(* source distinguishes may occur.  Uplink adds the task that makes the    *)
(* requests, and puts the steps together to a specification.               *)
(***************************************************************************)
EXTENDS Naturals

CONSTANT Timeout  \* CONNECTION_TIMEOUT_MS

ASSUME TimeoutAssumption == Timeout \in Nat

VARIABLES
  pc,         \* the requesting task: "idle", "open", "wait", "free"
  alloc,      \* the request's state is allocated
  pcb,        \* state->pcb: "none", "new", "resolving", "connecting", "open"
  complete, error, stored,  \* the members of state
  callback,   \* the callback under way: "none", "detach" or "error" is next
  result,     \* what the last request returned
  outcome,    \* history: what became of the request
  stray       \* history: tls_client_close has worked on memory not its own

state == <<alloc, pcb, complete, error, stored>>
vars == <<pc, state, callback, result, outcome, stray>>

Init ==
  /\ pc = "idle" /\ alloc = FALSE /\ pcb = "none"
  /\ complete = FALSE /\ error = "none" /\ stored = FALSE
  /\ callback = "none"
  /\ result = FALSE /\ outcome = "none" /\ stray = FALSE

-----------------------------------------------------------------------------
(* The requesting task.  It sleeps for a second between two requests, in   *)
(* which a callback that is still under way returns.                       *)
Begin ==
  /\ pc = "idle" /\ callback = "none"
  /\ pc' = "open"
  /\ alloc' = TRUE /\ pcb' = "none"
  /\ complete' = FALSE /\ error' = "none" /\ stored' = FALSE
  /\ outcome' = "none"
  /\ UNCHANGED <<callback, result, stray>>

\* mutant: the connection is closed and the waiting task not told
CloseQuietly(next) ==
  /\ callback' = next
  /\ UNCHANGED <<alloc, pcb, complete, stored>>

(* tls_client_close sets complete first; then it clears the callbacks,     *)
(* closes the connection and forgets it (Detach).                          *)
Close(next) ==
  /\ complete' = TRUE
  /\ callback' = next
  /\ UNCHANGED <<alloc, pcb, stored>>

(* tls_client_open fails; the state is never freed, and no longer used.    *)
(* If it is the resolver that refuses, the pcb itself is taken for a state *)
(* to close.                                                               *)
OpenFails ==
  /\ pc = "open" /\ pc' = "idle"
  /\ alloc' = FALSE
  /\ result' = FALSE
  /\ outcome' = "failed"
  /\ stray' \in {stray, TRUE}
  /\ UNCHANGED <<pcb, complete, error, stored, callback>>

\* the name is asked for, or known and the connection is started
OpenStarts ==
  /\ pc = "open" /\ pc' = "wait"
  /\ pcb' \in {"resolving", "connecting"}
  /\ UNCHANGED <<alloc, complete, error, stored, callback, result, outcome, stray>>

\* altcp_connect fails at once; the task itself closes, nobody interferes
OpenConnectFails ==
  /\ pc = "open" /\ pc' = "wait"
  /\ complete' = TRUE /\ pcb' = "none"
  /\ outcome' = "failed"
  /\ UNCHANGED <<alloc, error, stored, callback, result, stray>>

(* The task finds complete set, reads the error and frees the state.       *)
ReadError ==
  /\ pc = "wait" /\ complete
  /\ pc' = "free"
  /\ result' = (error = "none")
  /\ UNCHANGED <<state, callback, outcome, stray>>

(* A callback that is under way goes on without the state.                 *)
Free ==
  /\ pc = "free" /\ pc' = "idle"
  /\ alloc' = FALSE
  /\ stray' = (stray \/ callback # "none")
  /\ UNCHANGED <<pcb, complete, error, stored, callback, result, outcome>>

-----------------------------------------------------------------------------
(* Callbacks.  None begins while another is under way.                     *)
Called == callback = "none" /\ pc \in {"wait", "free", "idle"}

DnsFails ==
  /\ Called /\ pcb = "resolving"
  /\ Close("detach")
  /\ outcome' = "failed"
  /\ UNCHANGED <<pc, error, result, stray>>

DnsFound ==
  /\ Called /\ pcb = "resolving"
  /\ pcb' = "connecting"
  /\ UNCHANGED <<pc, alloc, complete, error, stored, callback, result, outcome, stray>>

\* altcp_connect, or the connection, or the write of the request fails
ConnectFails ==
  /\ Called /\ pcb \in {"resolving", "connecting"}
  /\ Close("detach")
  /\ outcome' = "failed"
  /\ UNCHANGED <<pc, error, result, stray>>

Connected ==
  /\ Called /\ pcb = "connecting"
  /\ pcb' = "open"
  /\ outcome' = "sent"
  /\ UNCHANGED <<pc, alloc, complete, error, stored, callback, result, stray>>

Receive ==
  /\ Called /\ pcb = "open"
  /\ stored' = TRUE
  /\ UNCHANGED <<pc, alloc, pcb, complete, error, callback, result, outcome, stray>>

ServerCloses ==
  /\ Called /\ pcb = "open"
  /\ Close("detach")
  /\ UNCHANGED <<pc, error, result, outcome, stray>>

(* altcp_poll takes the interval as an 8-bit number; 0 means never.        *)
PollInterval == (Timeout * 2) % 256

\* mutant: the error is not set, as in the other callbacks
PollClose == Close("detach") /\ UNCHANGED error

PollError == error' = "timeout" /\ Close("detach")

Poll ==
  /\ Called /\ pcb \in {"connecting", "open"}
  /\ PollInterval # 0
  /\ PollError
  /\ outcome' = "timeout"
  /\ UNCHANGED <<pc, result, stray>>

(* tls_client_err closes, and sets the error afterwards.                   *)
Err ==
  /\ Called /\ pcb \in {"connecting", "open"}
  /\ Close("error")
  /\ outcome' = "failed"
  /\ UNCHANGED <<pc, error, result, stray>>

\* mutant: the callbacks of the connection stay registered
KeepPcb == UNCHANGED pcb

ForgetPcb == pcb' = "none"

(* The rest of tls_client_close, and of the callback that called it.  If   *)
(* the state has been freed meanwhile, state->pcb may be anything: as long *)
(* as it is still the connection, this is closed, otherwise it keeps its   *)
(* callbacks.                                                              *)
Detach ==
  /\ callback # "none" /\ callback' = "none"
  /\ ForgetPcb \/ (~alloc /\ UNCHANGED pcb)
  /\ error' \in IF callback = "error" THEN {"generic"} ELSE {error}
  /\ UNCHANGED <<pc, alloc, complete, stored, result, outcome, stray>>

Resolver == DnsFails \/ DnsFound

Callbacks ==
  Resolver \/ ConnectFails \/ ServerCloses \/ Poll \/ Err \/ Detach

-----------------------------------------------------------------------------
(* Every member of the state has its type.                                 *)
TlsTypeOK ==
  /\ pc \in {"idle", "open", "wait", "free"}
  /\ pcb \in {"none", "resolving", "connecting", "open"}
  /\ alloc \in BOOLEAN /\ complete \in BOOLEAN /\ stored \in BOOLEAN
  /\ error \in {"none", "timeout", "generic"}
  /\ callback \in {"none", "detach", "error"}
  /\ result \in BOOLEAN
  /\ outcome \in {"none", "failed", "sent", "timeout"}
  /\ stray \in BOOLEAN

(* A callback finds its state freed only where the waiting task has once   *)
(* overtaken the end of tls_client_close: otherwise, while the stack knows *)
(* the state and no callback is under way, it is allocated.                *)
CallbacksHaveState == pcb # "none" /\ callback = "none" => alloc \/ stray

(* A request that the poll callback has ended is reported as failed,       *)
(* however soon the task looks: the error is set before complete.          *)
TimeoutIsReported == pc = "free" /\ outcome = "timeout" => ~result \/ stray
=============================================================================
