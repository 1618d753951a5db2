-------------------------------- MODULE Boot --------------------------------
(***************************************************************************)
(* The wiring of the program: DeviceRegistry::initialize, in a task of its *)
(* own, creates the handlers, registers them and subscribes the            *)
(* controller; setup_task subscribes the connection, the screen and the    *)
(* logger; and the handlers publish to whoever has subscribed so far.      *)
(*                                                                         *)
(* Neither of the two tasks waits for the other, and nothing is locked.  A *)
(* subscriber is added to a std::vector, whose storage moves when it is    *)
(* full, while the handler's task may be in the middle of it, and the      *)
(* other task may be adding another one.  The fan's write handler, to      *)
(* which nobody subscribes, is left out.                                   *)
(***************************************************************************)
EXTENDS Naturals, Sequences

CONSTANT Publishers   \* the handlers whose publishing is followed

Sensors == {"CO2", "TEMPERATURE", "REL_HUMIDITY", "FAN_COUNTER", "PRESSURE"}
Settings == {"FAN_SPEED", "CO2_TARGET", "MODE"}
Types == Sensors \cup Settings

BootAssumption == Publishers \subseteq Types

VARIABLES
  todo,        \* what initialize() and setup_task have left to do
  adding,      \* the vector as the task found it that is adding to it
  created,     \* handlers whose task runs
  fanctrl,     \* the FanController exists
  registered,  \* read_handlers: the handlers that are found
  subscribers, \* the vector of each handler
  storage,     \* the size of each vector's storage
  handle,      \* the queue to which the connection and the knob command
  sending,     \* what send_reading has left, and the storage that it is in
  to,          \* the receiver each handler has last sent to
  unheard,     \* history: subscriptions that found no handler
  clashed      \* history: vectors to which two tasks added at a time

registry == <<created, fanctrl, registered, handle>>
vectors == <<adding, subscribers, storage, unheard, clashed>>
loops == <<sending, to>>
vars == <<todo, registry, vectors, loops>>

-----------------------------------------------------------------------------
Ops(name, args) == [i \in 1..Len(args) |-> <<name, args[i]>>]

Subscribe(receiver, types) ==
  [i \in 1..Len(types) |-> <<"subscribe", types[i], receiver>>]

\* mutant: the controller is made when the handlers have been registered
ControllerLast ==
  Ops("create", << "CO2", "TEMPERATURE", "REL_HUMIDITY", "FAN_COUNTER", "PRESSURE" >>)
    \o Ops("add", << "CO2", "TEMPERATURE", "REL_HUMIDITY", "FAN_COUNTER", "PRESSURE" >>)
    \o << <<"fanctrl">> >>
    \o Subscribe("controller", << "CO2", "FAN_COUNTER" >>)
    \o Ops("create", << "FAN_SPEED", "CO2_TARGET", "MODE" >>)
    \o Ops("add", << "FAN_SPEED", "CO2_TARGET", "MODE" >>)

Initialize ==
  Ops("create", << "CO2", "TEMPERATURE", "REL_HUMIDITY", "FAN_COUNTER", "PRESSURE" >>)
    \o << <<"fanctrl">> >>
    \o Ops("add", << "CO2", "TEMPERATURE", "REL_HUMIDITY", "FAN_COUNTER", "PRESSURE" >>)
    \o Subscribe("controller", << "CO2", "FAN_COUNTER" >>)
    \o Ops("create", << "FAN_SPEED", "CO2_TARGET", "MODE" >>)
    \o Ops("add", << "FAN_SPEED", "CO2_TARGET", "MODE" >>)

SetupTask ==
  Subscribe("connection",
            << "CO2", "REL_HUMIDITY", "TEMPERATURE", "CO2_TARGET", "FAN_SPEED" >>)
    \o << <<"handle", "connection">> >>
    \o Subscribe("screen",
         << "CO2", "TEMPERATURE", "REL_HUMIDITY", "PRESSURE", "FAN_SPEED", "CO2_TARGET" >>)
    \o << <<"handle", "rotary">> >>
    \o Subscribe("logger", << "CO2_TARGET", "FAN_SPEED", "MODE" >>)

NoLoop == [left |-> << >>, in |-> 0]

Init ==
  /\ todo = [init |-> Initialize, setup |-> SetupTask]
  /\ adding = [init |-> << >>, setup |-> << >>]
  /\ created = {} /\ fanctrl = FALSE /\ registered = {}
  /\ subscribers = [t \in Types |-> << >>]
  /\ storage = [t \in Types |-> 0]
  /\ handle = [x \in {"connection", "rotary"} |-> "none"]
  /\ sending = [t \in Publishers |-> NoLoop]
  /\ to = [t \in Publishers |-> "nobody"]
  /\ unheard = {} /\ clashed = {}

-----------------------------------------------------------------------------
(* The next operation of a task is called `name'.                          *)
Does(task, name) == todo[task] # << >> /\ Head(todo[task])[1] = name

Arg(task) == Head(todo[task])[2]

Done(task) == todo' = [todo EXCEPT ![task] = Tail(@)]

CreateHandler ==
  /\ Does("init", "create") /\ Done("init")
  /\ created' = created \cup {Arg("init")}
  /\ UNCHANGED <<fanctrl, registered, handle, vectors, loops>>

CreateController ==
  /\ Does("init", "fanctrl") /\ Done("init")
  /\ fanctrl' = TRUE
  /\ UNCHANGED <<created, registered, handle, vectors, loops>>

\* add_register_handler keeps the first handler of a type
AddRegisterHandler ==
  /\ Does("init", "add") /\ Done("init")
  /\ registered' = registered \cup {Arg("init")}
  /\ UNCHANGED <<created, fanctrl, handle, vectors, loops>>

(* get_write_queue_handle does not look whether there is a controller; a   *)
(* member of no object is some word of the processor's boot memory.        *)
GetWriteQueueHandle ==
  /\ Does("setup", "handle") /\ Done("setup")
  /\ handle' = [handle EXCEPT ![Arg("setup")] = IF fanctrl THEN "controller" ELSE "wrong"]
  /\ UNCHANGED <<created, fanctrl, registered, vectors, loops>>

(* subscribe_to_handler: "Handler not found", or push_back, which reads    *)
(* where the vector ends and then writes the receiver and the new end.     *)
NotFound(task) ==
  /\ Does(task, "subscribe") /\ Done(task)
  /\ adding[task] = << >> /\ Arg(task) \notin registered
  /\ unheard' = unheard \cup {<<Arg(task), Head(todo[task])[3]>>}
  /\ UNCHANGED <<adding, subscribers, storage, clashed, registry, loops>>

Find(task) ==
  /\ Does(task, "subscribe")
  /\ adding[task] = << >> /\ Arg(task) \in registered
  /\ adding' = [adding EXCEPT ![task] = << subscribers[Arg(task)] >>]
  /\ UNCHANGED <<todo, subscribers, storage, unheard, clashed, registry, loops>>

(* The storage is doubled when it is full.                                 *)
Grown(size, n) == IF n < size THEN size ELSE IF n = 0 THEN 1 ELSE 2 * n

PushBack(task) ==
  /\ adding[task] # << >> /\ adding' = [adding EXCEPT ![task] = << >>]
  /\ Done(task)
  /\ LET t == Arg(task)
         q == adding[task][1]
     IN  /\ subscribers' = [subscribers EXCEPT ![t] = Append(q, Head(todo[task])[3])]
         /\ storage' = [storage EXCEPT ![t] = Grown(@, Len(q))]
         /\ clashed' = IF q = subscribers[t] THEN clashed ELSE clashed \cup {t}
  /\ UNCHANGED <<unheard, registry, loops>>

SubscribeTo(task) == NotFound(task) \/ Find(task) \/ PushBack(task)

RunInit == CreateHandler \/ CreateController \/ AddRegisterHandler \/ SubscribeTo("init")

RunSetup == GetWriteQueueHandle \/ SubscribeTo("setup")

-----------------------------------------------------------------------------
\* mutant: the loop ends after the first receiver
SendToFirst(t) ==
  /\ t \in created
  /\ sending[t].left = << >> /\ subscribers[t] # << >>
  /\ sending' = [sending EXCEPT ![t] =
                   [left |-> << subscribers[t][1] >>, in |-> storage[t]]]
  /\ UNCHANGED <<todo, registry, vectors, to>>

(* send_reading: the loop goes over the storage that it finds first, as    *)
(* far as the vector reached then.                                         *)
BeginSending(t) ==
  /\ t \in created
  /\ sending[t].left = << >> /\ subscribers[t] # << >>
  /\ sending' = [sending EXCEPT ![t] = [left |-> subscribers[t], in |-> storage[t]]]
  /\ UNCHANGED <<todo, registry, vectors, to>>

(* When the vector has moved meanwhile, the loop is in freed memory, and   *)
(* the receiver that it reads there may be anything.                       *)
SendReading(t) ==
  /\ sending[t].left # << >>
  /\ \E r \in {Head(sending[t].left)} \cup
              IF sending[t].in = storage[t] THEN {} ELSE {"freed"} :
       to' = [to EXCEPT ![t] = r]
  /\ sending' = [sending EXCEPT ![t].left = Tail(@)]
  /\ UNCHANGED <<todo, registry, vectors>>

Publish(t) == BeginSending(t) \/ SendReading(t)

Next == RunInit \/ RunSetup \/ \E t \in Publishers : Publish(t)

Spec == Init /\ [][Next]_vars

(* The tasks run; the handlers publish once a second.                      *)
Fairness ==
  /\ WF_vars(RunInit) /\ WF_vars(RunSetup)
  /\ \A t \in Publishers : WF_vars(Publish(t))

FairSpec == Spec /\ Fairness

-----------------------------------------------------------------------------
Receivers == {"controller", "connection", "screen", "logger"}

(* Who is to be subscribed to what                                         *)
Wanted ==
  {<<"CO2", "controller">>, <<"FAN_COUNTER", "controller">>} \cup
  ({"CO2", "REL_HUMIDITY", "TEMPERATURE", "CO2_TARGET", "FAN_SPEED"} \X {"connection"}) \cup
  ({"CO2", "TEMPERATURE", "REL_HUMIDITY", "PRESSURE", "FAN_SPEED", "CO2_TARGET"}
     \X {"screen"}) \cup
  (Settings \X {"logger"})

(* Every variable has its type, and a vector fits its storage.             *)
TypeOK ==
  /\ created \subseteq Types /\ registered \subseteq created
  /\ fanctrl \in BOOLEAN
  /\ handle \in [{"connection", "rotary"} -> {"none", "controller", "wrong"}]
  /\ subscribers \in [Types -> Seq(Receivers)]
  /\ \A t \in Types : Len(subscribers[t]) <= storage[t]
  /\ to \in [Publishers -> Receivers \cup {"nobody", "freed"}]
  /\ unheard \subseteq Wanted /\ clashed \subseteq Types

Hears(receiver) ==
  \E t \in Types : \E i \in DOMAIN subscribers[t] : subscribers[t][i] = receiver

(* However the two tasks interleave, the program is never wired so that    *)
(* readings arrive and commands get lost: if setup_task is so early that   *)
(* it takes the controller's queue when there is no controller, nothing    *)
(* that it has subscribed until then hears anything.                       *)
WhoHearsCanCommand ==
  /\ Hears("connection") => handle["connection"] # "wrong"
  /\ Hears("connection") \/ Hears("screen") => handle["rotary"] # "wrong"

(* Every receiver gets the readings that it is meant to get, over and      *)
(* over, those that subscribe while a reading is being sent included,      *)
(* unless its subscription came too early, or the two tasks have added to  *)
(* the same vector at a time; initialize() never asks too early.  And      *)
(* readings do not go through freed memory for ever.                       *)
SubscribersAreFed ==
  /\ \A w \in Wanted : w[1] \in Publishers =>
       \/ []<>(to[w[1]] = w[2])
       \/ <>(w \in unheard /\ w[2] # "controller")
       \/ <>(w[1] \in clashed)
  /\ \A t \in Publishers : <>[](to[t] # "freed")
=============================================================================
