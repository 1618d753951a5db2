------------------------------- MODULE Uplink -------------------------------
(***************************************************************************)
(* The uplink: the task that composes an update every API_REQUEST_INTERVAL *)
(* seconds, the one that sends the updates and asks the service for        *)
(* commands over TlsClient, and the parser that takes the answers.         *)
(*                                                                         *)
(* A tick is a second.  Updates are counted; a command is its number in    *)
(* the order the service hands them out, 0 is a text without a command.    *)
(* The service hands a command out once, when it gets the request.         *)
(***************************************************************************)
EXTENDS TlsClient, Rtos

CONSTANTS
  Interval,   \* API_REQUEST_INTERVAL, in seconds
  DataLen,    \* places in sensor_data_queue (5)
  ResponseLen,\* places in response_queue (5)
  MaxCommands,\* bound: commands the service hands out
  MaxSilent   \* bound: requests without an answer that are counted

ASSUME UplinkAssumption ==
  /\ Interval \in Nat /\ DataLen \in Nat /\ ResponseLen \in Nat
  /\ MaxCommands \in Nat /\ MaxSilent \in Nat

VARIABLES
  data,       \* updates in sensor_data_queue
  compose,    \* seconds until the next update
  counter,    \* of get_server_commands_task
  delay,      \* seconds left of that task's vTaskDelay
  asking,     \* the request under way is one for commands
  handed,     \* commands the service has handed out
  answer,     \* what state->response holds once it is stored
  leftover,   \* what the place of the local array `response' holds
  responses,  \* response_queue
  silent,     \* history: requests for commands that brought no answer
  taken       \* history: how often the parser has taken each command

uplink == <<data, compose, counter, delay, asking, handed, answer, leftover,
            responses, silent, taken>>
allVars == <<vars, uplink>>

UplinkInit ==
  /\ Init
  /\ data = 0 /\ compose = Interval
  /\ counter = 0 /\ delay = 1
  /\ asking = FALSE /\ handed = 0 /\ answer = 0 /\ leftover = 0
  /\ responses = << >> /\ silent = 0
  /\ taken = [c \in 1..MaxCommands |-> 0]

-----------------------------------------------------------------------------
(* process_and_send_sensor_data_task                                       *)
Compose ==
  /\ compose = 0 /\ compose' = Interval
  /\ data' = IF data < DataLen THEN data + 1 ELSE data
  /\ UNCHANGED <<vars, counter, delay, asking, handed, answer, leftover, responses,
                 silent, taken>>

-----------------------------------------------------------------------------
(* get_server_commands_task.  Beyond 5 the value of counter is the same.   *)
(* A program that has gone astray is not followed into another request.    *)
Ready == pc = "idle" /\ delay = 0 /\ ~stray
Count == counter' = IF counter < 5 THEN counter + 1 ELSE 5

SendUpdate ==
  /\ Ready /\ data > 0
  /\ Begin
  /\ data' = data - 1
  /\ Count /\ asking' = FALSE
  /\ UNCHANGED <<compose, delay, handed, answer, leftover, responses, silent, taken>>

AskForCommands ==
  /\ Ready /\ data = 0 /\ counter >= 5
  /\ Begin
  /\ counter' = 1 /\ asking' = TRUE /\ answer' = 0
  /\ UNCHANGED <<data, compose, delay, handed, leftover, responses, silent, taken>>

NothingToDo ==
  /\ Ready /\ data = 0 /\ counter < 5
  /\ Count /\ delay' = 1
  /\ UNCHANGED <<vars, data, compose, asking, handed, answer, leftover, responses,
                 silent, taken>>

\* while (!state->complete) vTaskDelay(1000)
StillWaiting ==
  /\ pc = "wait" /\ ~complete /\ delay = 0
  /\ delay' = 1
  /\ UNCHANGED <<vars, data, compose, counter, asking, handed, answer, leftover,
                 responses, silent, taken>>

Completes == delay = 0 /\ ReadError /\ UNCHANGED uplink

Opens == (OpenStarts \/ OpenConnectFails) /\ UNCHANGED uplink

(* The array is not initialised: when no response was stored, it holds     *)
(* what an earlier call left there, or something that is no command.       *)
Texts(has) == IF has THEN {answer} ELSE {leftover, 0}

(* The request returns; the text in the array goes to the parser.          *)
Returned(has) ==
  /\ delay' = 1
  /\ IF asking
     THEN /\ leftover' \in Texts(has)
          /\ responses' = SendNoWait(responses, ResponseLen, leftover')
          /\ silent' = IF has \/ silent = MaxSilent THEN silent ELSE silent + 1
     ELSE UNCHANGED <<leftover, responses, silent>>
  /\ UNCHANGED <<data, compose, counter, asking, handed, answer, taken>>

Returns ==
  \/ Free /\ Returned(stored)
  \/ OpenFails /\ Returned(FALSE)

-----------------------------------------------------------------------------
(* The network, and the service: it gets the request, and the answer, or a *)
(* part that holds no command, arrives.                                    *)
Requested ==
  /\ Connected
  /\ \/ asking /\ handed < MaxCommands /\ handed' = handed + 1 /\ answer' = handed'
     \/ UNCHANGED <<handed, answer>>
  /\ UNCHANGED <<data, compose, counter, delay, asking, leftover, responses, silent, taken>>

Network == (Callbacks \/ Receive) /\ UNCHANGED uplink

(* parse_server_commands_task                                              *)

\* mutant: the text stays in the queue
Peeked(q) == q

Received(q) == Tail(q)

Parse ==
  /\ responses # << >>
  /\ responses' = Received(responses)
  /\ LET c == Head(responses)
     IN  taken' = IF c = 0 \/ taken[c] > MaxSilent THEN taken ELSE [taken EXCEPT ![c] = @ + 1]
  /\ UNCHANGED <<vars, data, compose, counter, delay, asking, handed, answer, leftover,
                 silent>>

(* A second passes when none of the two tasks is due.                      *)
Tick ==
  /\ delay > 0 /\ compose > 0
  /\ delay' = delay - 1 /\ compose' = compose - 1
  /\ UNCHANGED <<vars, data, counter, asking, handed, answer, leftover, responses,
                 silent, taken>>

-----------------------------------------------------------------------------
Requester ==
  SendUpdate \/ AskForCommands \/ NothingToDo \/ StillWaiting \/ Completes \/ Opens \/ Returns

Astray == stray /\ UNCHANGED allVars

UplinkNext == Compose \/ Requester \/ Requested \/ Network \/ Parse \/ Tick \/ Astray

UplinkSpec == UplinkInit /\ [][UplinkNext]_allVars

(* The tasks run and time passes; a callback that has begun ends, the      *)
(* resolver answers and the stack's timer calls the poll callback.         *)
FairSpec ==
  /\ UplinkSpec
  /\ WF_allVars(Compose) /\ WF_allVars(Requester) /\ WF_allVars(Parse) /\ WF_allVars(Tick)
  /\ WF_allVars(Detach /\ UNCHANGED uplink)
  /\ WF_allVars(Resolver /\ UNCHANGED uplink)
  /\ WF_allVars(Poll /\ UNCHANGED uplink)

-----------------------------------------------------------------------------
(* Every variable has its type, and the queues keep to their lengths.      *)
TypeOK ==
  /\ TlsTypeOK
  /\ data \in 0..DataLen /\ compose \in 0..Interval
  /\ counter \in 0..5 /\ delay \in 0..1 /\ asking \in BOOLEAN
  /\ handed \in 0..MaxCommands /\ answer \in 0..handed /\ leftover \in 0..handed
  /\ responses \in Seq(0..handed) /\ Len(responses) <= ResponseLen
  /\ silent \in 0..MaxSilent
  /\ taken \in [1..MaxCommands -> 0..(MaxSilent + 1)]

(* A command is obeyed again only because a later request for commands     *)
(* brought no answer: each such request can repeat one command once.       *)
RepeatNeedsSilence ==
  ~stray /\ silent < MaxSilent => \A c \in 1..MaxCommands : taken[c] <= 1 + silent

(* Every request returns, whatever the server does: a silent server is     *)
(* ended by the poll callback.                                             *)
RequestEnds == pc = "wait" ~> pc = "idle" \/ stray
=============================================================================
