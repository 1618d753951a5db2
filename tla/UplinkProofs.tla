---------------------------- MODULE UplinkProofs ----------------------------
(***************************************************************************)
(* Proofs about TlsClient as Uplink puts it to work, and about the texts   *)
(* and commands of Uplink itself, for every time-out, interval, length of  *)
(* the queues and number of commands.                                      *)
(***************************************************************************)
EXTENDS Uplink, FiniteSets, FiniteSetTheorems, TLAPS

(* What makes CallbacksHaveState inductive: as long as nothing has gone    *)
(* astray, a request that is complete, or over, is one that the stack has  *)
(* forgotten, or that the callback under way is about to make it forget;   *)
(* and then its state is there.                                            *)
Forgotten == pcb = "none" \/ callback # "none"

Owned ==
  ~stray =>
    /\ pc \in {"idle", "open", "wait", "free"}
    /\ pc # "idle" \/ callback # "none" => alloc
    /\ pc = "open" => ~complete /\ pcb = "none" /\ callback = "none"
    /\ pc = "free" => complete
    /\ complete \/ pc = "idle" => Forgotten

(* What makes TimeoutIsReported inductive: the error stays set.            *)
Reported ==
  /\ outcome = "timeout" => error # "none" \/ stray
  /\ TimeoutIsReported

ClientStep ==
  \/ Begin \/ OpenFails \/ OpenStarts \/ OpenConnectFails \/ ReadError \/ Free
  \/ Callbacks \/ Receive \/ Connected
  \/ UNCHANGED vars

(* Every step of Uplink is, for the client, one of its own or none.        *)
LEMMA StepsOfClient == ASSUME [UplinkNext]_allVars PROVE ClientStep
<1>1. CASE UNCHANGED allVars
  BY <1>1 DEF allVars, ClientStep
<1>2. CASE Compose \/ Parse \/ Tick \/ Astray
  BY <1>2 DEF Compose, Parse, Tick, Astray, allVars, ClientStep
<1>3. CASE Requested \/ Network
  BY <1>3 DEF Requested, Network, ClientStep
<1>4. CASE Requester
  BY <1>4 DEF Requester, SendUpdate, AskForCommands, NothingToDo, StillWaiting,
              Completes, Opens, Returns, ClientStep
<1>5. QED
  BY <1>1, <1>2, <1>3, <1>4 DEF UplinkNext

LEMMA OwnedStep == ASSUME Owned, ClientStep PROVE Owned'
<1> USE DEF Owned, Forgotten
<1>1. CASE Begin
  BY <1>1 DEF Begin
<1>2. CASE OpenFails \/ OpenStarts \/ OpenConnectFails
  BY <1>2 DEF OpenFails, OpenStarts, OpenConnectFails
<1>3. CASE ReadError \/ Free
  BY <1>3 DEF ReadError, Free, state
<1>4. CASE Resolver
  BY <1>4 DEF Resolver, DnsFails, DnsFound, Called, Close
<1>5. CASE ConnectFails \/ ServerCloses \/ Err
  BY <1>5 DEF ConnectFails, ServerCloses, Err, Called, Close
<1>6. CASE Poll
  BY <1>6 DEF Poll, PollError, Called, Close
<1>7. CASE Detach
  BY <1>7 DEF Detach, ForgetPcb
<1>8. CASE Receive \/ Connected
  BY <1>8 DEF Receive, Connected, Called
<1>9. CASE UNCHANGED vars
  BY <1>9 DEF vars, state
<1>10. QED
  BY <1>1, <1>2, <1>3, <1>4, <1>5, <1>6, <1>7, <1>8, <1>9 DEF ClientStep, Callbacks

LEMMA ReportedStep == ASSUME Owned, Reported, ClientStep PROVE Reported'
<1> USE DEF Reported, TimeoutIsReported
<1>1. CASE Begin
  BY <1>1 DEF Begin
<1>2. CASE OpenFails \/ OpenStarts \/ OpenConnectFails
  BY <1>2 DEF OpenFails, OpenStarts, OpenConnectFails
<1>3. CASE ReadError \/ Free
  BY <1>3 DEF ReadError, Free, state
<1>4. CASE Resolver
  BY <1>4 DEF Resolver, DnsFails, DnsFound, Called, Close
<1>5. CASE ConnectFails \/ ServerCloses \/ Err
  BY <1>5 DEF ConnectFails, ServerCloses, Err, Called, Close
<1>6. CASE Poll
  BY <1>6 DEF Poll, PollError, Called, Close, Owned, Forgotten
<1>7. CASE Detach
  BY <1>7 DEF Detach, ForgetPcb
<1>8. CASE Receive \/ Connected
  BY <1>8 DEF Receive, Connected, Called
<1>9. CASE UNCHANGED vars
  BY <1>9 DEF vars, state
<1>10. QED
  BY <1>1, <1>2, <1>3, <1>4, <1>5, <1>6, <1>7, <1>8, <1>9 DEF ClientStep, Callbacks

(* No callback of the network stack begins on a request's state after      *)
(* send_tls_request has freed it, however the two threads interleave,      *)
(* unless send_tls_request has once freed a state while the callback that  *)
(* completed it was still closing the connection, or the resolver has      *)
(* refused a name.                                                         *)
THEOREM StateOutlivesCallbacks == UplinkSpec => []CallbacksHaveState
<1>1. UplinkInit => Owned
  BY DEF UplinkInit, Init, Owned, Forgotten
<1>2. Owned /\ [UplinkNext]_allVars => Owned'
  BY StepsOfClient, OwnedStep
<1>3. Owned => CallbacksHaveState
  BY DEF Owned, Forgotten, CallbacksHaveState
<1>4. QED
  BY <1>1, <1>2, <1>3, PTL DEF UplinkSpec

(* A request that the poll callback ends is reported as failed, wherever   *)
(* the waiting task comes in between.                                      *)
THEOREM TimeoutsAreReported == UplinkSpec => []TimeoutIsReported
<1>1. UplinkInit => Owned /\ Reported
  BY DEF UplinkInit, Init, Owned, Forgotten, Reported, TimeoutIsReported
<1>2. Owned /\ Reported /\ [UplinkNext]_allVars => (Owned /\ Reported)'
  BY StepsOfClient, OwnedStep, ReportedStep
<1>3. Reported => TimeoutIsReported
  BY DEF Reported
<1>4. QED
  BY <1>1, <1>2, <1>3, PTL DEF UplinkSpec
-----------------------------------------------------------------------------
(* Types.  The client's are kept by its own steps; those of Uplink by the  *)
(* steps of the tasks, where the numbers of commands in the texts are      *)
(* bounded by those the service has handed out.                            *)
LEMMA TlsTypesKept == ASSUME TlsTypeOK, ClientStep PROVE TlsTypeOK'
<1> USE DEF TlsTypeOK
<1>1. CASE Begin
  BY <1>1 DEF Begin
<1>2. CASE OpenFails \/ OpenStarts \/ OpenConnectFails
  BY <1>2 DEF OpenFails, OpenStarts, OpenConnectFails
<1>3. CASE ReadError
  <2>1. result' \in BOOLEAN
    BY <1>3 DEF ReadError
  <2>2. QED
    BY <1>3, <2>1 DEF ReadError, state
<1>4. CASE Free
  BY <1>4 DEF Free
<1>5. CASE Resolver
  BY <1>5 DEF Resolver, DnsFails, DnsFound, Close
<1>6. CASE ConnectFails \/ ServerCloses \/ Err
  BY <1>6 DEF ConnectFails, ServerCloses, Err, Close
<1>7. CASE Poll
  BY <1>7 DEF Poll, PollError, Close
<1>8. CASE Detach
  BY <1>8 DEF Detach, ForgetPcb
<1>9. CASE Receive \/ Connected
  BY <1>9 DEF Receive, Connected
<1>10. CASE UNCHANGED vars
  BY <1>10 DEF vars, state
<1>11. QED
  BY <1>1, <1>2, <1>3, <1>4, <1>5, <1>6, <1>7, <1>8, <1>9, <1>10 DEF ClientStep, Callbacks

(* What the two tasks keep for themselves.                                 *)
TasksOK ==
  /\ data \in 0..DataLen /\ compose \in 0..Interval
  /\ counter \in 0..5 /\ delay \in 0..1 /\ asking \in BOOLEAN
  /\ silent \in 0..MaxSilent

(* What the service has handed out, and where its texts are.               *)
TextsOK ==
  /\ handed \in 0..MaxCommands /\ answer \in 0..handed /\ leftover \in 0..handed
  /\ responses \in Seq(0..handed) /\ Len(responses) <= ResponseLen

TakenOK == taken \in [1..MaxCommands -> 0..(MaxSilent + 1)]

LEMMA TasksKept == ASSUME TasksOK, [UplinkNext]_allVars PROVE TasksOK'
<1> USE UplinkAssumption DEF TasksOK
<1>1. CASE Compose
  BY <1>1 DEF Compose
<1>2. CASE SendUpdate
  <2>1. data > 0 /\ data' = data - 1 /\ ~asking' /\ asking' \in BOOLEAN
    BY <1>2 DEF SendUpdate
  <2>2. counter' \in 0..5
    BY <1>2 DEF SendUpdate, Count
  <2>3. UNCHANGED <<compose, delay, silent>>
    BY <1>2 DEF SendUpdate
  <2>4. QED
    BY <2>1, <2>2, <2>3
<1>3. CASE AskForCommands
  BY <1>3 DEF AskForCommands
<1>4. CASE NothingToDo
  BY <1>4 DEF NothingToDo, Count
<1>5. CASE StillWaiting
  BY <1>5 DEF StillWaiting
<1>6. CASE Completes \/ Opens \/ Network
  BY <1>6 DEF Completes, Opens, Network, uplink
<1>7. ASSUME NEW has, Returned(has) PROVE TasksOK'
  <2>1. delay' = 1 /\ UNCHANGED <<data, compose, counter, asking>>
    BY <1>7 DEF Returned
  <2>2. CASE asking
    BY <1>7, <2>1, <2>2 DEF Returned
  <2>3. CASE ~asking
    BY <1>7, <2>1, <2>3 DEF Returned
  <2>4. QED
    BY <2>2, <2>3
<1>8. CASE Requested \/ Parse
  BY <1>8 DEF Requested, Parse
<1>9. CASE Tick
  BY <1>9 DEF Tick
<1>10. CASE UNCHANGED allVars
  BY <1>10 DEF allVars, uplink
<1>11. QED
  BY <1>1, <1>2, <1>3, <1>4, <1>5, <1>6, <1>7, <1>8, <1>9, <1>10
     DEF UplinkNext, Requester, Returns, Astray

LEMMA TextsKept == ASSUME TextsOK, [UplinkNext]_allVars PROVE TextsOK'
<1> USE UplinkAssumption DEF TextsOK
<1>1. CASE Compose \/ SendUpdate \/ NothingToDo \/ StillWaiting \/ Tick
  BY <1>1 DEF Compose, SendUpdate, NothingToDo, StillWaiting, Tick
<1>2. CASE AskForCommands
  BY <1>2 DEF AskForCommands
<1>3. CASE Completes \/ Opens \/ Network
  BY <1>3 DEF Completes, Opens, Network, uplink
<1>4. ASSUME NEW has, Returned(has) PROVE TextsOK'
  <2>1. UNCHANGED <<handed, answer>>
    BY <1>4 DEF Returned
  <2>2. CASE ~asking
    BY <1>4, <2>1, <2>2 DEF Returned
  <2>3. CASE asking
    <3>1. leftover' \in 0..handed
      BY <1>4, <2>3 DEF Returned, Texts
    <3>2. \/ responses' = responses
          \/ /\ Len(responses) < ResponseLen
             /\ responses' = Append(responses, leftover')
      <4>1. responses' = SendNoWait(responses, ResponseLen, leftover')
        BY <1>4, <2>3 DEF Returned
      <4>2. QED
        BY <4>1 DEF SendNoWait
    <3>3. responses' \in Seq(0..handed) /\ Len(responses') <= ResponseLen
      <4>1. CASE responses' = responses
        BY <4>1
      <4>2. ASSUME Len(responses) < ResponseLen, responses' = Append(responses, leftover')
            PROVE  responses' \in Seq(0..handed) /\ Len(responses') <= ResponseLen
        BY <3>1, <4>2, Len(responses) \in Nat
      <4>3. QED
        BY <3>2, <4>1, <4>2
    <3>4. QED
      BY <2>1, <3>1, <3>3
  <2>4. QED
    BY <2>2, <2>3
<1>5. CASE Requested
  <2>1. /\ handed' \in 0..MaxCommands /\ answer' \in 0..handed'
        /\ 0..handed \subseteq 0..handed'
    BY <1>5 DEF Requested
  <2>2. responses \in Seq(0..handed')
    BY <2>1
  <2>3. QED
    BY <1>5, <2>1, <2>2 DEF Requested
<1>6. CASE Parse
  BY <1>6 DEF Parse, Received
<1>7. CASE UNCHANGED allVars
  BY <1>7 DEF allVars, uplink
<1>8. QED
  BY <1>1, <1>2, <1>3, <1>4, <1>5, <1>6, <1>7 DEF UplinkNext, Requester, Returns, Astray

LEMMA TakenKept == ASSUME TextsOK, TakenOK, [UplinkNext]_allVars PROVE TakenOK'
<1> USE UplinkAssumption DEF TakenOK
<1>1. CASE Parse
  <2> DEFINE c == Head(responses)
  <2>1. c \in 0..MaxCommands
    BY <1>1 DEF Parse, TextsOK
  <2>2. \/ taken' = taken
        \/ c # 0 /\ ~(taken[c] > MaxSilent) /\ taken' = [taken EXCEPT ![c] = @ + 1]
    BY <1>1 DEF Parse
  <2> HIDE DEF c
  <2>3. QED
    BY <2>1, <2>2
<1>2. ASSUME NEW has, Returned(has) PROVE UNCHANGED taken
  BY <1>2 DEF Returned
<1>3. CASE ~Parse
  <2>1. UNCHANGED taken
    BY <1>2, <1>3 DEF UplinkNext, Compose, Requester, SendUpdate, AskForCommands, NothingToDo,
       StillWaiting, Completes, Opens, Returns, Requested, Network, Tick,
       Astray, allVars, uplink
  <2>2. QED
    BY <2>1
<1>4. QED
  BY <1>1, <1>3

LEMMA TypeSplit == TypeOK <=> TlsTypeOK /\ TasksOK /\ TextsOK /\ TakenOK
BY DEF TypeOK, TasksOK, TextsOK, TakenOK

LEMMA TypesAtFirst == UplinkInit => TypeOK
<1> SUFFICES ASSUME UplinkInit PROVE TypeOK
  OBVIOUS
<1>1. TlsTypeOK
  BY DEF UplinkInit, Init, TlsTypeOK
<1>2. TasksOK
  <2>1. /\ data = 0 /\ compose = Interval /\ counter = 0 /\ delay = 1 /\ silent = 0
        /\ asking \in BOOLEAN
    BY DEF UplinkInit
  <2>2. QED
    BY <2>1, UplinkAssumption DEF TasksOK
<1>3. TextsOK
  BY UplinkAssumption DEF UplinkInit, TextsOK
<1>4. TakenOK
  BY UplinkAssumption DEF UplinkInit, TakenOK
<1>5. QED
  BY <1>1, <1>2, <1>3, <1>4, TypeSplit

LEMMA TypesKept == TypeOK /\ [UplinkNext]_allVars => TypeOK'
<1> SUFFICES ASSUME TypeOK, [UplinkNext]_allVars PROVE TypeOK'
  OBVIOUS
<1>1. TlsTypeOK /\ TasksOK /\ TextsOK /\ TakenOK
  BY TypeSplit
<1>2. TlsTypeOK'
  BY <1>1, StepsOfClient, TlsTypesKept
<1>3. TasksOK' /\ TextsOK' /\ TakenOK'
  BY <1>1, TasksKept, TextsKept, TakenKept
<1>4. QED
  BY <1>2, <1>3 DEF TypeOK, TasksOK, TextsOK, TakenOK

(* Every variable keeps its type, whatever the network does: the queues    *)
(* keep to their lengths, and no text holds a command that the service has *)
(* not handed out.                                                         *)
THEOREM TypeCorrect == UplinkSpec => []TypeOK
BY TypesAtFirst, TypesKept, PTL DEF UplinkSpec
-----------------------------------------------------------------------------
(* How often a command waits in a queue, and what that number does when a  *)
(* text is added and when the first one is taken.                          *)
Places(q, c) == {i \in 1..Len(q) : q[i] = c}
Queued(q, c) == Cardinality(Places(q, c))

LEMMA QueuedCounts ==
  ASSUME NEW S, NEW q \in Seq(S), NEW c
  PROVE  IsFiniteSet(Places(q, c)) /\ Queued(q, c) \in Nat
<1>1. Len(q) \in Nat
  OBVIOUS
<1>2. IsFiniteSet(1..Len(q))
  BY <1>1, FS_Interval
<1>3. IsFiniteSet(Places(q, c))
  BY <1>2, FS_Subset DEF Places
<1>4. QED
  BY <1>3, FS_CardinalityType DEF Queued

LEMMA QueuedAppend ==
  ASSUME NEW S, NEW q \in Seq(S), NEW x \in S, NEW c
  PROVE  Queued(Append(q, x), c) = Queued(q, c) + IF x = c THEN 1 ELSE 0
<1> DEFINE n == Len(q) + 1
           p == Append(q, x)
<1>1. Len(q) \in Nat /\ p \in Seq(S) /\ Len(p) = n /\ p[n] = x
  OBVIOUS
<1>2. \A i \in 1..Len(q) : p[i] = q[i]
  OBVIOUS
<1>3. 1..n = 1..Len(q) \cup {n} /\ n \notin 1..Len(q)
  BY <1>1
<1> HIDE DEF n, p
<1>4. CASE x = c
  <2>1. Places(p, c) = Places(q, c) \cup {n} /\ n \notin Places(q, c)
    BY <1>1, <1>2, <1>3, <1>4 DEF Places
  <2>2. QED
    BY <1>4, <2>1, QueuedCounts, FS_AddElement DEF Queued, p
<1>5. CASE x # c
  <2>1. Places(p, c) = Places(q, c)
    BY <1>1, <1>2, <1>3, <1>5 DEF Places
  <2>2. QED
    BY <1>5, <2>1, QueuedCounts DEF Queued, p
<1>6. QED
  BY <1>4, <1>5

(* The places of the tail are those after the first, one further on.       *)
LEMMA QueuedTail ==
  ASSUME NEW S, NEW q \in Seq(S), q # << >>, NEW c
  PROVE  (IF Head(q) = c THEN 1 ELSE 0) + Queued(Tail(q), c) <= Queued(q, c)
<1> DEFINE Later == Places(q, c) \ {1}
           f == [i \in Later |-> i - 1]
<1>1. /\ Len(q) \in Nat /\ Len(q) >= 1 /\ Tail(q) \in Seq(S)
      /\ Len(Tail(q)) = Len(q) - 1 /\ Head(q) = q[1]
      /\ \A i \in 1..Len(Tail(q)) : Tail(q)[i] = q[i + 1]
  OBVIOUS
<1>2. f \in Surjection(Later, Places(Tail(q), c))
  <2>1. ASSUME NEW i \in Later PROVE i - 1 \in Places(Tail(q), c)
    <3>1. i \in 2..Len(q) /\ q[i] = c
      BY <1>1 DEF Places
    <3>2. i - 1 \in 1..Len(Tail(q)) /\ i = (i - 1) + 1
      BY <1>1, <3>1
    <3>3. QED
      BY <1>1, <3>1, <3>2 DEF Places
  <2>2. ASSUME NEW j \in Places(Tail(q), c) PROVE \E i \in Later : f[i] = j
    <3>1. j \in 1..Len(Tail(q)) /\ q[j + 1] = c
      BY <1>1 DEF Places
    <3>2. j + 1 \in 1..Len(q) /\ j + 1 # 1 /\ (j + 1) - 1 = j
      BY <1>1, <3>1
    <3>3. j + 1 \in Later
      BY <3>1, <3>2 DEF Places
    <3>4. QED
      BY <3>2, <3>3
  <2>3. f \in [Later -> Places(Tail(q), c)]
    BY <2>1
  <2>4. QED
    BY <2>2, <2>3 DEF Surjection
<1> HIDE DEF f
<1>3. IsFiniteSet(Places(q, c)) /\ Queued(q, c) \in Nat /\ Queued(Tail(q), c) \in Nat
  BY <1>1, QueuedCounts
<1>4. /\ IsFiniteSet(Later)
      /\ Cardinality(Later) = IF 1 \in Places(q, c) THEN Queued(q, c) - 1 ELSE Queued(q, c)
  BY <1>3, FS_RemoveElement DEF Queued
<1>5. Queued(Tail(q), c) <= Cardinality(Later)
  BY <1>2, <1>4, FS_Surjection DEF Queued
<1>6. Head(q) = c <=> 1 \in Places(q, c)
  BY <1>1 DEF Places
<1> HIDE DEF Later
<1>7. QED
  BY <1>3, <1>4, <1>5, <1>6

(* What makes RepeatNeedsSilence inductive.  A command that the service    *)
(* has handed out is in the answer that is due, or waits for the parser,   *)
(* or has been taken, each of them at most once as long as every request   *)
(* brought its answer; one more of them for every request that did not.    *)
Due(c) == IF asking /\ pc # "idle" /\ answer = c THEN 1 ELSE 0

Accounted ==
  silent < MaxSilent =>
    \A c \in 1..MaxCommands :
      taken[c] + Queued(responses, c) + Due(c) <= IF c > handed THEN 0 ELSE 1 + silent

LEMMA DueIsOne == ASSUME NEW c PROVE Due(c) \in 0..1
BY DEF Due

(* A step that leaves the queue and what was taken alone, and makes no     *)
(* further command due.                                                    *)
LEMMA AccountKept ==
  ASSUME TypeOK, Accounted, UNCHANGED <<handed, responses, silent, taken>>,
         \A c \in 1..MaxCommands : Due(c)' <= Due(c)
  PROVE  Accounted'
<1> SUFFICES ASSUME silent < MaxSilent, NEW c \in 1..MaxCommands
             PROVE  taken[c] + Queued(responses, c) + Due(c)'
                      <= IF c > handed THEN 0 ELSE 1 + silent
  BY DEF Accounted
<1>1. /\ taken[c] \in Nat /\ Queued(responses, c) \in Nat
      /\ Due(c) \in Nat /\ Due(c)' \in Nat
  BY QueuedCounts, DueIsOne, UplinkAssumption DEF TypeOK, Due
<1>2. taken[c] + Queued(responses, c) + Due(c) <= IF c > handed THEN 0 ELSE 1 + silent
  BY DEF Accounted
<1>3. handed \in Nat /\ silent \in Nat /\ Due(c)' <= Due(c)
  BY UplinkAssumption DEF TypeOK
<1>4. QED
  BY <1>1, <1>2, <1>3

LEMMA StepsThatKeepAccounts ==
  ASSUME TypeOK, Accounted, [UplinkNext]_allVars, ~Parse, ~Requested, ~Returns
  PROVE  Accounted'
<1>1. UNCHANGED <<handed, responses, silent, taken>>
  BY DEF UplinkNext, Requester, Compose, SendUpdate, AskForCommands, NothingToDo,
         StillWaiting, Completes, Opens, Network, Tick, Astray, allVars, uplink
<1>2. CASE SendUpdate \/ AskForCommands
  <2>1. \A c \in 1..MaxCommands : ~(asking' /\ answer' = c)
    BY <1>2 DEF SendUpdate, AskForCommands
  <2>2. \A c \in 1..MaxCommands : Due(c)' <= Due(c)
    BY <2>1 DEF Due
  <2>3. QED
    BY <1>1, <2>2, AccountKept
<1>3. CASE ~(SendUpdate \/ AskForCommands)
  <2>1. UNCHANGED <<asking, answer>>
    BY <1>3 DEF UplinkNext, Requester, Compose, NothingToDo,
         StillWaiting, Completes, Opens, Network, Tick, Astray, allVars, uplink
  <2>2. pc' = "idle" <=> pc = "idle"
    <3>1. CASE Completes
      BY <3>1 DEF Completes, ReadError
    <3>2. CASE Opens
      BY <3>2 DEF Opens, OpenStarts, OpenConnectFails
    <3>3. CASE Network
      BY <3>3 DEF Network, Callbacks, Resolver, DnsFails, DnsFound, ConnectFails,
                  ServerCloses, Poll, Err, Detach, Receive
    <3>4. CASE UNCHANGED vars
      BY <3>4 DEF vars
    <3>5. QED
      BY <1>3, <3>1, <3>2, <3>3, <3>4 DEF UplinkNext, Requester, Compose, NothingToDo,
         StillWaiting, Tick, Astray, allVars
  <2>3. \A c \in 1..MaxCommands : Due(c)' <= Due(c)
    BY <2>1, <2>2 DEF Due
  <2>4. QED
    BY <1>1, <2>3, AccountKept
<1>4. QED
  BY <1>2, <1>3

(* The request returns.  The answer that was due is added to the queue, or *)
(* what an earlier call left is, and then one more request brought none.   *)
LEMMA ReturnKeepsAccounts ==
  ASSUME TypeOK, Accounted, NEW has \in BOOLEAN, pc # "idle", pc' = "idle", Returned(has)
  PROVE  Accounted'
<1> SUFFICES ASSUME silent' < MaxSilent, NEW c \in 1..MaxCommands
             PROVE  taken'[c] + Queued(responses', c) + Due(c)'
                      <= IF c > handed' THEN 0 ELSE 1 + silent'
  BY DEF Accounted
<1>1. /\ handed' = handed /\ taken' = taken /\ Due(c)' = 0
      /\ taken[c] \in Nat /\ handed \in Nat /\ silent \in Nat /\ MaxSilent \in Nat
      /\ responses \in Seq(0..handed) /\ answer \in 0..handed /\ leftover \in 0..handed
  BY UplinkAssumption DEF Returned, Due, TypeOK
<1>2. Queued(responses, c) \in Nat /\ Due(c) \in 0..1
  BY <1>1, QueuedCounts, DueIsOne
<1>3. CASE ~asking
  <2>1. responses' = responses /\ silent' = silent /\ Due(c) = 0
    BY <1>3 DEF Returned, Due
  <2>2. taken[c] + Queued(responses, c) <= IF c > handed THEN 0 ELSE 1 + silent
    BY <1>1, <1>2, <2>1 DEF Accounted
  <2>3. QED
    BY <1>1, <1>2, <2>1, <2>2
<1>4. CASE asking
  <2>1. leftover' \in Texts(has) /\ leftover' \in 0..handed
    BY <1>1, <1>4 DEF Returned, Texts
  <2>2. silent' = IF has \/ silent = MaxSilent THEN silent ELSE silent + 1
    BY <1>4 DEF Returned
  <2>3. silent < MaxSilent
    BY <1>1, <2>2
  <2>4. taken[c] + Queued(responses, c) + Due(c) <= IF c > handed THEN 0 ELSE 1 + silent
    BY <2>3 DEF Accounted
  <2>5. responses' = SendNoWait(responses, ResponseLen, leftover')
    BY <1>4 DEF Returned
  <2>6. responses' = responses \/ responses' = Append(responses, leftover')
    BY <2>5 DEF SendNoWait
  <2>7. /\ Queued(responses', c) \in Nat
        /\ Queued(responses', c) <= Queued(responses, c) + IF leftover' = c THEN 1 ELSE 0
    <3>1. Queued(Append(responses, leftover'), c)
            = Queued(responses, c) + IF leftover' = c THEN 1 ELSE 0
      BY <1>1, <2>1, QueuedAppend
    <3>2. CASE responses' = responses
      BY <1>2, <3>2
    <3>3. CASE responses' = Append(responses, leftover')
      BY <1>2, <3>1, <3>3
    <3>4. QED
      BY <2>6, <3>2, <3>3
  <2> DEFINE n == Queued(responses, c)
             m == Queued(responses', c)
             d == Due(c)
  <2>n. /\ n \in Nat /\ m \in Nat /\ d \in 0..1
        /\ m <= n + IF leftover' = c THEN 1 ELSE 0
        /\ taken[c] + n + d <= IF c > handed THEN 0 ELSE 1 + silent
    BY <1>2, <2>4, <2>7
  <2>m. SUFFICES taken[c] + m <= IF c > handed THEN 0 ELSE 1 + silent'
    BY <1>1, <2>n
  <2>8. CASE has
    <3>1. leftover' = answer /\ silent' = silent
      BY <2>1, <2>2, <2>8 DEF Texts
    <3>2. d = IF leftover' = c THEN 1 ELSE 0
      BY <1>4, <3>1 DEF Due
    <3> HIDE DEF n, m, d
    <3>3. QED
      BY <1>1, <2>n, <3>1, <3>2
  <2>9. CASE ~has
    <3>1. silent' = silent + 1
      BY <2>2, <2>3, <2>9, <1>1
    <3>2. leftover' = c => ~(c > handed)
      BY <1>1, <2>1
    <3> HIDE DEF n, m, d
    <3>3. QED
      BY <1>1, <2>n, <3>1, <3>2
  <2>10. QED
    BY <2>8, <2>9
<1>5. QED
  BY <1>3, <1>4

(* The service hands out a command that was nowhere before.                *)
LEMMA RequestKeepsAccounts ==
  ASSUME TypeOK, Accounted, Requested
  PROVE  Accounted'
<1>1. /\ UNCHANGED <<asking, responses, silent, taken>> /\ pc' = pc
  BY DEF Requested, Connected
<1>2. CASE UNCHANGED <<handed, answer>>
  <2>1. \A c \in 1..MaxCommands : Due(c)' <= Due(c)
    BY <1>1, <1>2 DEF Due
  <2>2. QED
    BY <1>1, <1>2, <2>1, AccountKept
<1>3. CASE handed' = handed + 1 /\ answer' = handed'
  <2> SUFFICES ASSUME silent < MaxSilent, NEW c \in 1..MaxCommands
               PROVE  taken[c] + Queued(responses, c) + Due(c)'
                        <= IF c > handed' THEN 0 ELSE 1 + silent
    BY <1>1 DEF Accounted
  <2>1. /\ taken[c] \in Nat /\ handed \in Nat /\ silent \in Nat
        /\ Queued(responses, c) \in Nat /\ Due(c) \in 0..1 /\ Due(c)' \in 0..1
    BY QueuedCounts, DueIsOne, UplinkAssumption DEF TypeOK, Due
  <2>2. taken[c] + Queued(responses, c) + Due(c) <= IF c > handed THEN 0 ELSE 1 + silent
    BY DEF Accounted
  <2>3. Due(c)' = 1 => c = handed + 1
    BY <1>3 DEF Due
  <2>4. QED
    BY <1>3, <2>1, <2>2, <2>3
<1>4. QED
  BY <1>2, <1>3 DEF Requested

(* The parser takes the first text of the queue.                           *)
LEMMA ParseKeepsAccounts ==
  ASSUME TypeOK, Accounted, Parse
  PROVE  Accounted'
<1> SUFFICES ASSUME silent < MaxSilent, NEW c \in 1..MaxCommands
             PROVE  taken'[c] + Queued(responses', c) + Due(c)'
                      <= IF c > handed' THEN 0 ELSE 1 + silent'
  BY DEF Accounted, Parse
<1>1. /\ responses # << >> /\ responses' = Tail(responses)
      /\ UNCHANGED <<pc, asking, answer, handed, silent>>
  BY DEF Parse, Received, vars
<1>2. /\ taken \in [1..MaxCommands -> Nat] /\ handed \in Nat /\ silent \in Nat
      /\ responses \in Seq(0..handed) /\ Head(responses) \in 0..handed
  BY <1>1, UplinkAssumption DEF TypeOK
<1>3. /\ Queued(responses, c) \in Nat /\ Queued(responses', c) \in Nat
      /\ (IF Head(responses) = c THEN 1 ELSE 0) + Queued(responses', c)
           <= Queued(responses, c)
  <2>1. Tail(responses) \in Seq(0..handed)
    BY <1>1, <1>2
  <2>2. Queued(responses, c) \in Nat /\ Queued(Tail(responses), c) \in Nat
    BY <1>2, <2>1, QueuedCounts
  <2>3. (IF Head(responses) = c THEN 1 ELSE 0) + Queued(Tail(responses), c)
           <= Queued(responses, c)
    BY <1>1, <1>2, QueuedTail
  <2>4. QED
    BY <1>1, <2>2, <2>3
<1>4. taken'[c] \in Nat /\ taken'[c] <= taken[c] + IF Head(responses) = c THEN 1 ELSE 0
  <2> DEFINE h == Head(responses)
  <2>1. taken' = taken \/ taken' = [taken EXCEPT ![h] = @ + 1]
    BY DEF Parse
  <2> HIDE DEF h
  <2>2. taken[c] \in Nat /\ h \in Nat
    BY <1>2 DEF h
  <2>3. CASE taken' = taken
    BY <2>2, <2>3
  <2>4. CASE taken' = [taken EXCEPT ![h] = @ + 1]
    BY <1>2, <2>2, <2>4 DEF h
  <2>5. QED
    BY <2>1, <2>3, <2>4
<1>5. taken[c] + Queued(responses, c) + Due(c) <= IF c > handed THEN 0 ELSE 1 + silent
  BY DEF Accounted
<1>6. Due(c)' = Due(c) /\ Due(c) \in 0..1
  BY <1>1, DueIsOne DEF Due
<1> DEFINE n == Queued(responses, c)
           m == Queued(responses', c)
           d == Due(c)
           e == Due(c)'
           t == taken'[c]
           h == IF Head(responses) = c THEN 1 ELSE 0
<1>7. /\ n \in Nat /\ m \in Nat /\ d \in Nat /\ e = d /\ t \in Nat /\ taken[c] \in Nat
      /\ h \in Nat /\ h + m <= n /\ t <= taken[c] + h
      /\ taken[c] + n + d <= IF c > handed THEN 0 ELSE 1 + silent
  BY <1>2, <1>3, <1>4, <1>5, <1>6
<1>8. handed' = handed /\ silent' = silent
  BY <1>1
<1> HIDE DEF n, m, d, e, t, h
<1>9. t + m + e <= IF c > handed' THEN 0 ELSE 1 + silent'
  BY <1>2, <1>7, <1>8
<1>10. QED
  BY <1>9 DEF t, m, e

LEMMA AccountedStep == TypeOK /\ Accounted /\ [UplinkNext]_allVars => Accounted'
<1> SUFFICES ASSUME TypeOK, Accounted, [UplinkNext]_allVars PROVE Accounted'
  OBVIOUS
<1>1. CASE Parse
  BY <1>1, ParseKeepsAccounts
<1>2. CASE Requested
  BY <1>2, RequestKeepsAccounts
<1>3. CASE Returns
  <2>1. CASE Free /\ Returned(stored)
    <3>1. pc # "idle" /\ pc' = "idle" /\ stored \in BOOLEAN
      BY <2>1 DEF Free, TypeOK, TlsTypeOK
    <3>2. QED
      BY <2>1, <3>1, ReturnKeepsAccounts
  <2>2. CASE OpenFails /\ Returned(FALSE)
    <3>1. pc # "idle" /\ pc' = "idle"
      BY <2>2 DEF OpenFails
    <3>2. QED
      BY <2>2, <3>1, ReturnKeepsAccounts
  <2>3. QED
    <3>1. (Free /\ Returned(stored)) \/ (OpenFails /\ Returned(FALSE))
      BY <1>3 DEF Returns
    <3>2. QED
      BY <2>1, <2>2, <3>1, Zenon
<1>4. QED
  BY <1>1, <1>2, <1>3, StepsThatKeepAccounts

(* A command of the service is obeyed once, and at most once more for each *)
(* request for commands that brought no answer, however the answers and    *)
(* the queue's limit fall together.                                        *)
THEOREM RepeatsAreCounted == UplinkSpec => []RepeatNeedsSilence
<1>1. UplinkInit => Accounted
  <2> SUFFICES ASSUME UplinkInit, NEW c \in 1..MaxCommands
               PROVE  taken[c] + Queued(responses, c) + Due(c)
                        <= IF c > handed THEN 0 ELSE 1 + silent
    BY DEF Accounted
  <2>1. taken[c] = 0 /\ Due(c) = 0 /\ silent = 0
    BY DEF UplinkInit, Due
  <2>2. Queued(responses, c) = 0
    <3>1. responses = << >> /\ Len(responses) = 0
      BY DEF UplinkInit
    <3>2. Places(responses, c) = {}
      BY <3>1 DEF Places
    <3>3. QED
      BY <3>2, FS_EmptySet DEF Queued
  <2>3. QED
    BY <2>1, <2>2
<1>2. TypeOK /\ Accounted => RepeatNeedsSilence
  <2> SUFFICES ASSUME TypeOK, Accounted, ~stray, silent < MaxSilent, NEW c \in 1..MaxCommands
               PROVE  taken[c] <= 1 + silent
    BY DEF RepeatNeedsSilence
  <2>1. /\ taken[c] \in Nat /\ handed \in Nat /\ silent \in Nat
        /\ Queued(responses, c) \in Nat /\ Due(c) \in 0..1
    BY QueuedCounts, DueIsOne, UplinkAssumption DEF TypeOK
  <2>2. taken[c] + Queued(responses, c) + Due(c) <= IF c > handed THEN 0 ELSE 1 + silent
    BY DEF Accounted
  <2>3. QED
    BY <2>1, <2>2
<1>3. QED
  BY <1>1, <1>2, TypesAtFirst, TypesKept, AccountedStep, PTL DEF UplinkSpec
=============================================================================
