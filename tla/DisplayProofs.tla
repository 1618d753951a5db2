--------------------------- MODULE DisplayProofs ----------------------------
(***************************************************************************)
(* Proofs about Screen and Ssd1306 as MCDisplay runs them, for any fields  *)
(* watched, lengths of the queues, tasks that draw and number of drawings. *)
(***************************************************************************)
EXTENDS MCDisplay, TLAPS

-----------------------------------------------------------------------------
(* The display                                                             *)

LEMMA BytesOfAddress ==
  /\ DOMAIN Display!Address = 1..6
  /\ \A i \in 1..6 : Display!Address[i] \in {0, 7, 33, 34, 127}
BY DEF Display!Address, Display!ColAddr, Display!PageAddr

(* The command that the display waits for the rest of.                     *)
Pending ==
  /\ pend \in Seq(0..127) /\ Len(pend) <= 2
  /\ pend # << >> => pend[1] \in {33, 34}

(* What the commands have set: the window, its pointers and the start line.*)
Window ==
  /\ Pending
  /\ cols \in (0..127) \X (0..127) /\ pages \in (0..7) \X (0..7)
  /\ home \subseteq {33, 34}
  /\ startLine \in {0, 63}

(* What show() has reached in each task, and what is on the display.       *)
Shows ==
  /\ buffer \in 0..MaxDrawings
  /\ step \in [Display!Tasks -> 0..8]
  /\ holder \in Display!Tasks \cup {Display!Free}
  /\ ram \in (Nat \cup {Garbage}) \X (Nat \cup {Garbage})

LEMMA ElementOf == ASSUME NEW S, NEW q \in Seq(S), NEW i \in 1..Len(q) PROVE q[i] \in S
OBVIOUS

(* A byte of Address, the only ones that the tasks send, keeps the window  *)
(* in its bounds: the only one that sets the start line is 127.            *)
LEMMA ByteKeepsWindow ==
  ASSUME Window, NEW b \in {0, 7, 33, 34, 127},
         Display!FirstByte(b) \/ Display!MiddleByte(b) \/ Display!LastByte(b)
  PROVE  Window'
<1>1. CASE Display!FirstByte(b)
  <2>1. pend' = IF b \in {33, 34} THEN << b >> ELSE << >>
    BY <1>1 DEF Display!FirstByte, Display!ColAddr, Display!PageAddr
  <2>2. CASE b \in {33, 34}
    <3>1. pend' = << b >>
      BY <2>1, <2>2
    <3>2. << b >> \in Seq(0..127) /\ Len(<< b >>) = 1 /\ << b >>[1] = b
      OBVIOUS
    <3>3. Pending'
      BY <2>2, <3>1, <3>2 DEF Pending
    <3>4. startLine' = startLine /\ UNCHANGED <<cols, pages, home>>
      BY <1>1, <2>2 DEF Display!FirstByte
    <3>5. QED
      BY <3>3, <3>4 DEF Window
  <2>3. CASE b \notin {33, 34}
    <3>1. Pending'
      BY <2>1, <2>3 DEF Pending
    <3>2. startLine' = IF b \in 64..127 THEN b - 64 ELSE startLine
      BY <1>1 DEF Display!FirstByte
    <3>3. startLine' \in {0, 63}
      BY <3>2 DEF Window
    <3>4. UNCHANGED <<cols, pages, home>>
      BY <1>1 DEF Display!FirstByte
    <3>5. QED
      BY <3>1, <3>3, <3>4 DEF Window
  <2>4. QED
    BY <2>2, <2>3
<1>2. CASE Display!MiddleByte(b)
  <2>1. /\ Len(pend) = 1 /\ pend' = Append(pend, b)
        /\ UNCHANGED <<cols, pages, home, startLine>>
    BY <1>2 DEF Display!MiddleByte
  <2>2. pend \in Seq(0..127) /\ pend # << >> /\ pend[1] \in {33, 34}
    <3>1. pend # << >>
      BY <2>1
    <3>2. QED
      BY <3>1 DEF Window, Pending
  <2>3. pend' \in Seq(0..127) /\ Len(pend') = 2 /\ pend'[1] = pend[1]
    <3>1. pend' = Append(pend, b) /\ Len(pend) = 1 /\ b \in 0..127
      BY <2>1
    <3>2. ASSUME NEW q \in Seq(0..127), Len(q) = 1, NEW x \in 0..127
          PROVE  /\ Append(q, x) \in Seq(0..127) /\ Len(Append(q, x)) = 2
                 /\ Append(q, x)[1] = q[1]
      <4>1. Append(q, x) \in Seq(0..127) /\ Len(Append(q, x)) = Len(q) + 1
        OBVIOUS
      <4>2. \A i \in 1..Len(q) : Append(q, x)[i] = q[i]
        OBVIOUS
      <4>3. QED
        BY <3>2, <4>1, <4>2
    <3>3. QED
      BY <2>2, <3>1, <3>2, Zenon
  <2>4. Pending'
    BY <2>2, <2>3 DEF Pending
  <2>5. QED
    BY <2>1, <2>4 DEF Window
<1>3. CASE Display!LastByte(b)
  <2>1. Len(pend) = 2 /\ pend' = << >> /\ home' = home \cup {pend[1]} /\ UNCHANGED startLine
    BY <1>3 DEF Display!LastByte
  <2>2. pend[1] \in {33, 34} /\ pend[2] \in 0..127
    <3>1. pend # << >>
      BY <2>1
    <3>2. pend \in Seq(0..127)
      BY DEF Window, Pending
    <3>3. pend[2] \in 0..127
      <4>1. Len(pend) = 2
        BY <2>1
      <4>2. 2 \in 1..Len(pend)
        BY <4>1
      <4>3. QED
        BY <3>2, <4>2, ElementOf, Zenon
    <3>4. QED
      BY <3>1, <3>3 DEF Window, Pending
  <2>3. /\ cols' = <<pend[2], b>> \/ cols' = cols
        /\ pages' = <<pend[2] % 8, b % 8>> \/ pages' = pages
    BY <1>3 DEF Display!LastByte
  <2> DEFINE x == pend[2]
             y == pend[2] % 8
             z == b % 8
  <2>4. x \in 0..127 /\ y \in 0..7 /\ z \in 0..7 /\ b \in 0..127
    BY <2>2
  <2>5. Pending'
    BY <2>1 DEF Pending
  <2>6. home' \subseteq {33, 34} /\ startLine' \in {0, 63}
    BY <2>1, <2>2 DEF Window
  <2>7. cols \in (0..127) \X (0..127) /\ pages \in (0..7) \X (0..7)
    BY DEF Window
  <2> HIDE DEF x, y, z
  <2>8. <<x, b>> \in (0..127) \X (0..127) /\ <<y, z>> \in (0..7) \X (0..7)
    BY <2>4
  <2>9. cols' \in (0..127) \X (0..127)
    BY <2>3, <2>7, <2>8 DEF x
  <2>10. pages' \in (0..7) \X (0..7)
    BY <2>3, <2>7, <2>8 DEF y, z
  <2>11. QED
    BY <2>5, <2>6, <2>9, <2>10 DEF Window
<1>4. QED
  BY <1>1, <1>2, <1>3

LEMMA WindowKept == ASSUME Window, Shows, Display!Next PROVE Window'
<1>1. CASE Display!Repaint
  BY <1>1 DEF Display!Repaint, Window, Pending
<1>2. ASSUME NEW t \in Display!Tasks, Display!Draw(t) PROVE Window'
  BY <1>2 DEF Display!Draw, Window, Pending
<1>3. ASSUME NEW t \in Display!Tasks, Display!SendCmd(t) PROVE Window'
  <2> DEFINE b == Display!Address[step[t]]
  <2>1. b \in {0, 7, 33, 34, 127}
    BY <1>3, BytesOfAddress DEF Display!SendCmd
  <2>2. Display!FirstByte(b) \/ Display!MiddleByte(b) \/ Display!LastByte(b)
    BY <1>3 DEF Display!SendCmd
  <2> HIDE DEF b
  <2>3. QED
    BY <2>1, <2>2, ByteKeepsWindow
<1>4. ASSUME NEW t \in Display!Tasks, Display!SendUpper(t) PROVE Window'
  BY <1>4 DEF Display!SendUpper, Window, Pending
<1>5. ASSUME NEW t \in Display!Tasks, Display!SendLower(t) PROVE Window'
  <2>1. UNCHANGED <<pend, cols, pages, startLine>> /\ home' \subseteq home
    BY <1>5 DEF Display!SendLower
  <2>2. QED
    BY <2>1 DEF Window, Pending
<1>6. QED
  BY <1>1, <1>2, <1>3, <1>4, <1>5 DEF Display!Next, Display!Showing

LEMMA ShowsKept == ASSUME Shows, Display!Next PROVE Shows'
<1> USE MCAssumption DEF Shows, Display!DisplayAssumption
<1>1. CASE Display!Repaint
  <2>1. step' = [step EXCEPT ![Repainter] = 1] /\ step \in [Display!Tasks -> 0..8]
    BY <1>1 DEF Display!Repaint
  <2>2. step' \in [Display!Tasks -> 0..8]
    BY <2>1 DEF Display!Tasks
  <2>3. QED
    BY <1>1, <2>2 DEF Display!Repaint
<1>2. ASSUME NEW t \in Display!Tasks, Display!Draw(t) PROVE Shows'
  <2>1. /\ buffer < MaxDrawings /\ buffer' = buffer + 1
        /\ step' = [step EXCEPT ![t] = IF t = Repainter THEN 0 ELSE 1]
        /\ UNCHANGED <<holder, ram>>
    BY <1>2 DEF Display!Draw
  <2>2. QED
    BY <2>1
<1>3. ASSUME NEW t \in Display!Tasks, Display!SendCmd(t) PROVE Shows'
  <2>1. step[t] \in 1..6 /\ step' = [step EXCEPT ![t] = @ + 1] /\ UNCHANGED <<buffer, holder, ram>>
    BY <1>3, BytesOfAddress DEF Display!SendCmd
  <2>2. QED
    BY <2>1
<1>4. ASSUME NEW t \in Display!Tasks, Display!SendUpper(t) PROVE Shows'
  <2>1. ram' = <<buffer, ram[2]>> \/ ram' = <<Garbage, Garbage>>
    BY <1>4 DEF Display!SendUpper
  <2>2. ram' \in (Nat \cup {Garbage}) \X (Nat \cup {Garbage})
    BY <2>1
  <2>3. QED
    BY <1>4, <2>2 DEF Display!SendUpper
<1>5. ASSUME NEW t \in Display!Tasks, Display!SendLower(t) PROVE Shows'
  <2>1. ram' = <<ram[1], buffer>> \/ ram' = ram
    BY <1>5 DEF Display!SendLower
  <2>2. ram' \in (Nat \cup {Garbage}) \X (Nat \cup {Garbage})
    BY <2>1
  <2>3. QED
    BY <1>5, <2>2 DEF Display!SendLower
<1>6. QED
  BY <1>1, <1>2, <1>3, <1>4, <1>5 DEF Display!Next, Display!Showing

-----------------------------------------------------------------------------
(* The screen.  What makes the types of Screen inductive: the operations   *)
(* that the tasks have left are operations, with the argument that they    *)
(* need.                                                                   *)
Ops ==
  ({"fill", "restore"} \X BOOLEAN) \cup ({"text", "blit"} \X Fields) \cup {<<"speed">>}

Lists == todo \in [Tasks -> Seq(Ops)]

LEMMA OpsAreOps ==
  /\ \A b \in BOOLEAN : <<"fill", b>> \in Ops /\ <<"restore", b>> \in Ops
  /\ \A f \in Fields : <<"text", f>> \in Ops /\ <<"blit", f>> \in Ops
  /\ <<"speed">> \in Ops
BY DEF Ops

LEMMA InkedIsList ==
  ASSUME NEW f \in Fields, NEW b \in BOOLEAN
  PROVE  Inked(f, b) \in Seq(Ops)
<1>1. /\ <<"fill", b>> \in Ops /\ <<"text", f>> \in Ops /\ <<"blit", f>> \in Ops
  BY OpsAreOps
<1>2. ASSUME NEW x \in Ops, NEW y \in Ops, NEW z \in Ops PROVE << x, y, z >> \in Seq(Ops)
  OBVIOUS
<1>3. QED
  BY <1>1, <1>2, Zenon DEF Inked

LEMMA ClearedIsList == ASSUME NEW f \in Fields PROVE Cleared(f) \in Seq(Ops)
<1>1. /\ <<"fill", FALSE>> \in Ops /\ <<"text", f>> \in Ops /\ <<"blit", f>> \in Ops
  BY OpsAreOps
<1>2. ASSUME NEW x \in Ops, NEW y \in Ops, NEW z \in Ops, NEW v \in Ops
      PROVE  << x, y, z, v >> \in Seq(Ops)
  OBVIOUS
<1>3. QED
  BY <1>1, <1>2, Zenon DEF Cleared

LEMMA NamesAreFields == {"mode", "reading", "speed", "target"} = Fields
BY DEF Fields

LEMMA InitialIsList ==
  ASSUME NEW b \in BOOLEAN PROVE SetInitialValues(b) \in Seq(Ops)
<1>1. Inked("target", ~b) \in Seq(Ops) /\ Inked("speed", b) \in Seq(Ops)
  BY InkedIsList, NamesAreFields
<1>2. Cleared("mode") \in Seq(Ops) /\ << <<"restore", b>> >> \in Seq(Ops)
  <2>1. ASSUME NEW x \in Ops PROVE << x >> \in Seq(Ops)
    OBVIOUS
  <2>2. QED
    BY <2>1, ClearedIsList, NamesAreFields, OpsAreOps, Zenon
<1> DEFINE p == Inked("target", ~b)
           q == Inked("speed", b)
           r == Cleared("mode")
           s == << <<"restore", b>> >>
<1>3. SetInitialValues(b) = p \o q \o r \o s
  BY DEF SetInitialValues
<1> HIDE DEF p, q, r, s
<1>4. p \o q \o r \o s \in Seq(Ops)
  <2>1. p \in Seq(Ops) /\ q \in Seq(Ops) /\ r \in Seq(Ops) /\ s \in Seq(Ops)
    BY <1>1, <1>2 DEF p, q, r, s
  <2>2. QED
    BY <2>1
<1>5. QED
  BY <1>3, <1>4

(* The argument of an operation that a task is about to do.                *)
LEMMA ArgOf ==
  ASSUME Lists, NEW t \in Tasks
  PROVE  /\ Does(t, "fill") \/ Does(t, "restore") => Arg(t) \in BOOLEAN
         /\ Does(t, "text") \/ Does(t, "blit") => Arg(t) \in Fields
         /\ todo[t] # << >> => Rest(t) \in Seq(Ops)
<1> SUFFICES ASSUME todo[t] # << >>
             PROVE  /\ Does(t, "fill") \/ Does(t, "restore") => Arg(t) \in BOOLEAN
                    /\ Does(t, "text") \/ Does(t, "blit") => Arg(t) \in Fields
                    /\ Rest(t) \in Seq(Ops)
  BY DEF Does
<1> DEFINE o == Head(todo[t])
<1>1. todo[t] \in Seq(Ops)
  BY DEF Lists
<1>2. o \in Ops /\ Rest(t) \in Seq(Ops)
  BY <1>1 DEF Rest
<1> HIDE DEF o
<1>3. /\ o[1] \in {"fill", "restore"} => o[2] \in BOOLEAN
      /\ o[1] \in {"text", "blit"} => o[2] \in Fields
  BY <1>2 DEF Ops
<1>4. QED
  BY <1>2, <1>3 DEF Does, Arg, o

(* A task that goes on with a list of operations.                          *)
LEMMA GoesOn ==
  ASSUME Lists, NEW t \in Tasks, NEW ops \in Seq(Ops), Goes(t, ops)
  PROVE  Lists'
BY DEF Lists, Goes

LEMMA ListsKept == ASSUME Lists, TypeOK, [Next]_vars PROVE Lists'
<1>1. ASSUME NEW f, Publish(f) PROVE Lists'
  BY <1>1 DEF Publish, Lists
<1>2. CASE SendCommand
  BY <1>2 DEF SendCommand, Lists
<1>3. CASE ReceiveReading
  <2>1. Goes("screen_task", OpsFor(Head(readings))) /\ Head(readings) \in Fields
    BY <1>3 DEF ReceiveReading, TypeOK
  <2>2. << >> \in Seq(Ops) /\ << <<"speed">> >> \in Seq(Ops)
    BY OpsAreOps
  <2>3. OpsFor(Head(readings)) \in Seq(Ops)
    BY <2>1, <2>2, ClearedIsList DEF OpsFor
  <2>4. QED
    BY <2>1, <2>3, GoesOn DEF Tasks
<1>4. CASE ReceiveControl
  <2>1. CASE OnMode
    BY <2>1, ClearedIsList, NamesAreFields, GoesOn DEF OnMode, Tasks
  <2>2. CASE OnSpeed
    <3> DEFINE p == Inked("speed", TRUE)
               q == Inked("target", FALSE)
    <3>1. p \in Seq(Ops) /\ q \in Seq(Ops)
      BY InkedIsList, NamesAreFields
    <3>2. Goes("set_target_task", p \o q)
      BY <2>2 DEF OnSpeed
    <3> HIDE DEF p, q
    <3>3. p \o q \in Seq(Ops)
      BY <3>1
    <3>4. QED
      BY <3>2, <3>3, GoesOn DEF Tasks
  <2>3. CASE OnTarget
    <3> DEFINE p == Inked("target", TRUE)
               q == IF dehighlight THEN Inked("speed", FALSE) ELSE << >>
    <3>1. p \in Seq(Ops) /\ q \in Seq(Ops)
      <4>1. Inked("target", TRUE) \in Seq(Ops) /\ Inked("speed", FALSE) \in Seq(Ops)
        BY InkedIsList, NamesAreFields
      <4>2. << >> \in Seq(Ops)
        OBVIOUS
      <4>3. QED
        BY <4>1, <4>2, Zenon
    <3>2. Goes("set_target_task", p \o q)
      BY <2>3 DEF OnTarget
    <3> HIDE DEF p, q
    <3>3. p \o q \in Seq(Ops)
      BY <3>1
    <3>4. QED
      BY <3>2, <3>3, GoesOn DEF Tasks
  <2>4. QED
    BY <1>4, <2>1, <2>2, <2>3 DEF ReceiveControl
<1>5. ASSUME NEW t \in Tasks, Run(t) PROVE Lists'
  <2>1. todo[t] # << >>
    BY <1>5 DEF Run, Fill, Text, Blit, CallWithManual, Restore, Does
  <2>2. Rest(t) \in Seq(Ops)
    BY <2>1, ArgOf
  <2>3. CASE Goes(t, Rest(t))
    BY <2>2, <2>3, GoesOn
  <2>4. CASE Goes(t, Inked("speed", manual) \o Rest(t))
    <3> DEFINE p == Inked("speed", manual)
               q == Rest(t)
    <3>1. p \in Seq(Ops) /\ q \in Seq(Ops)
      BY <2>2, InkedIsList, NamesAreFields DEF TypeOK
    <3> HIDE DEF p, q
    <3>2. p \o q \in Seq(Ops)
      BY <3>1
    <3>3. QED
      BY <2>4, <3>2, GoesOn DEF p, q
  <2>5. QED
    BY <1>5, <2>3, <2>4 DEF Run, Fill, Text, Blit, CallWithManual, Restore
<1>6. CASE UNCHANGED vars
  BY <1>6 DEF vars, Lists
<1>7. QED
  BY <1>1, <1>2, <1>3, <1>4, <1>5, <1>6 DEF Next

(* What xQueueGenericSend does to a queue that keeps to its length.        *)
LEMMA SendKeepsLength ==
  ASSUME NEW S, NEW q \in Seq(S), NEW cap \in Nat, Len(q) <= cap, NEW x \in S
  PROVE  SendNoWait(q, cap, x) \in Seq(S) /\ Len(SendNoWait(q, cap, x)) <= cap
<1>1. CASE Len(q) < cap
  <2>1. Append(q, x) \in Seq(S) /\ Len(Append(q, x)) = Len(q) + 1 /\ Len(q) \in Nat
    OBVIOUS
  <2>2. QED
    BY <1>1, <2>1 DEF SendNoWait
<1>2. CASE ~(Len(q) < cap)
  BY <1>2 DEF SendNoWait
<1>3. QED
  BY <1>1, <1>2

LEMMA ScreenTypesKept == ASSUME Lists, TypeOK, [Next]_vars PROVE TypeOK'
<1> USE DEF picture, members
<1>1. ASSUME NEW f \in {"reading", "speed"}, Publish(f) PROVE TypeOK'
  <2>1. readings' \in Seq(Fields) /\ Len(readings') <= ReadingsLen
    BY <1>1, SendKeepsLength, NamesAreFields, MCAssumption
       DEF Publish, TypeOK, ScreenAssumption
  <2>2. QED
    BY <1>1, <2>1 DEF Publish, TypeOK
<1>2. CASE SendCommand
  <2>1. PICK c \in {"mode", "speed", "target"} :
               controls' = SendNoWait(controls, ControlsLen, c)
    BY <1>2 DEF SendCommand
  <2>2. controls' \in Seq(Fields) /\ Len(controls') <= ControlsLen
    BY <2>1, SendKeepsLength, NamesAreFields, MCAssumption DEF TypeOK, ScreenAssumption
  <2>3. commands' \in 0..MaxCommands
    BY <1>2, MCAssumption DEF SendCommand, TypeOK, ScreenAssumption
  <2>4. QED
    BY <1>2, <2>2, <2>3 DEF SendCommand, TypeOK
<1>3. CASE ReceiveReading
  <2>1. readings' \in Seq(Fields) /\ Len(readings') <= ReadingsLen
    BY <1>3, MCAssumption DEF ReceiveReading, TypeOK, ScreenAssumption
  <2>2. QED
    BY <1>3, <2>1 DEF ReceiveReading, TypeOK
<1>4. CASE ReceiveControl
  <2>1. controls' \in Seq(Fields) /\ Len(controls') <= ControlsLen
    BY <1>4, MCAssumption DEF ReceiveControl, TypeOK, ScreenAssumption
  <2>2. manual' \in BOOLEAN /\ dehighlight' \in BOOLEAN
    BY <1>4 DEF ReceiveControl, OnMode, OnSpeed, OnTarget, TypeOK
  <2>3. QED
    BY <1>4, <2>1, <2>2 DEF ReceiveControl, TypeOK
<1>5. ASSUME NEW t \in Tasks, Fill(t) PROVE TypeOK'
  <2>1. blitBuf' = [lit |-> Arg(t), of |-> {}] /\ Arg(t) \in BOOLEAN
    BY <1>5, ArgOf DEF Fill
  <2>2. blitBuf' \in [lit : BOOLEAN, of : SUBSET Fields]
    BY <2>1
  <2>3. QED
    BY <1>5, <2>2 DEF Fill, TypeOK
<1>6. ASSUME NEW t \in Tasks, Text(t) PROVE TypeOK'
  <2>1. Arg(t) \in Fields /\ blitBuf' = [blitBuf EXCEPT !.of = @ \cup {Arg(t)}]
    BY <1>6, ArgOf DEF Text
  <2>2. blitBuf' \in [lit : BOOLEAN, of : SUBSET Fields]
    BY <2>1 DEF TypeOK
  <2>3. QED
    BY <1>6, <2>2 DEF Text, TypeOK
<1>7. ASSUME NEW t \in Tasks, Blit(t) PROVE TypeOK'
  <2>1. frame' = [f \in Watched |->
                    IF f = Arg(t)
                    THEN [lit |-> blitBuf.lit, own |-> blitBuf.of \subseteq {f}]
                    ELSE frame[f]]
    BY <1>7 DEF Blit
  <2>2. ASSUME NEW f \in Watched
        PROVE  [lit |-> blitBuf.lit, own |-> blitBuf.of \subseteq {f}]
                 \in [lit : BOOLEAN, own : BOOLEAN]
    BY DEF TypeOK
  <2>3. frame' \in [Watched -> [lit : BOOLEAN, own : BOOLEAN]]
    BY <2>1, <2>2 DEF TypeOK
  <2>4. QED
    BY <1>7, <2>3 DEF Blit, TypeOK
<1>8. ASSUME NEW t \in Tasks, CallWithManual(t) \/ Restore(t) PROVE TypeOK'
  <2>1. manual' \in BOOLEAN
    BY <1>8, ArgOf DEF CallWithManual, Restore, TypeOK
  <2>2. QED
    BY <1>8, <2>1 DEF CallWithManual, Restore, TypeOK
<1>9. CASE UNCHANGED vars
  BY <1>9 DEF vars, TypeOK
<1>10. QED
  BY <1>1, <1>2, <1>3, <1>4, <1>5, <1>6, <1>7, <1>8, <1>9 DEF Next, Run

-----------------------------------------------------------------------------
(* The two together.                                                       *)
DisplayInv == Lists /\ TypeOK /\ Window /\ Shows

LEMMA DisplayStarts == MCInit => DisplayInv
<1> SUFFICES ASSUME MCInit PROVE DisplayInv
  OBVIOUS
<1>1. Lists
  <2>1. PICK b \in BOOLEAN :
          todo = [t \in Tasks |->
                    IF t = "setup_task" THEN SetInitialValues(b) ELSE << >>]
    BY DEF MCInit, Init
  <2>2. SetInitialValues(b) \in Seq(Ops) /\ << >> \in Seq(Ops)
    BY InitialIsList
  <2>3. QED
    BY <2>1, <2>2 DEF Lists
<1>2. TypeOK
  <2>1. /\ readings = << >> /\ controls = << >> /\ commands = 0
        /\ manual \in BOOLEAN /\ dehighlight \in BOOLEAN
    BY DEF MCInit, Init
  <2>2. blitBuf \in [lit : BOOLEAN, of : SUBSET Fields]
    BY DEF MCInit, Init
  <2>3. frame \in [Watched -> [lit : BOOLEAN, own : BOOLEAN]]
    BY DEF MCInit, Init
  <2>4. QED
    BY <2>1, <2>2, <2>3, MCAssumption DEF TypeOK, ScreenAssumption
<1>3. Window
  BY DEF MCInit, Display!Init, Display!ColAddr, Display!PageAddr, Window, Pending
<1>4. Shows
  BY MCAssumption DEF MCInit, Display!Init, Display!DisplayAssumption, Shows
<1>5. QED
  BY <1>1, <1>2, <1>3, <1>4 DEF DisplayInv

LEMMA DisplayGoesOn == DisplayInv /\ [MCNext]_all => DisplayInv'
<1> SUFFICES ASSUME DisplayInv, [MCNext]_all PROVE DisplayInv'
  OBVIOUS
<1>1. CASE [Next]_vars /\ UNCHANGED shown
  <2>1. Lists' /\ TypeOK'
    BY <1>1, ListsKept, ScreenTypesKept DEF DisplayInv
  <2>2. Window' /\ Shows'
    BY <1>1 DEF shown, DisplayInv, Window, Pending, Shows
  <2>3. QED
    BY <2>1, <2>2 DEF DisplayInv
<1>2. CASE Display!Next /\ UNCHANGED vars
  <2>1. Lists' /\ TypeOK'
    BY <1>2, ListsKept, ScreenTypesKept DEF DisplayInv
  <2>2. Window' /\ Shows'
    BY <1>2, WindowKept, ShowsKept DEF DisplayInv
  <2>3. QED
    BY <2>1, <2>2 DEF DisplayInv
<1>3. QED
  BY <1>1, <1>2 DEF MCNext, all

(* Every variable of the two modules keeps its type: the queues keep to    *)
(* their lengths, every task draws fields and only fields, and the display *)
(* never waits for more than the third byte of a command, whichever tasks  *)
(* the bytes come from.                                                    *)
THEOREM TypesCorrect == MCSpec => []TypesOK
<1>1. DisplayInv => TypesOK
  <2> SUFFICES ASSUME DisplayInv PROVE TypesOK
    OBVIOUS
  <2>1. Display!TypeOK
    BY DEF DisplayInv, Window, Pending, Shows, Display!TypeOK, Display!ColAddr, Display!PageAddr
  <2>2. QED
    BY <2>1 DEF DisplayInv, TypesOK
<1>2. QED
  BY <1>1, DisplayStarts, DisplayGoesOn, PTL DEF MCSpec

(* Whatever the tasks' commands turn into when they mix, the display never *)
(* shows the picture more than one line too low.                           *)
THEOREM AtMostOneLine == MCSpec => []OffByOneLine
<1>1. DisplayInv => OffByOneLine
  BY DEF DisplayInv, Window, OffByOneLine, Display!OffByOneLine
<1>2. QED
  BY <1>1, DisplayStarts, DisplayGoesOn, PTL DEF MCSpec
=============================================================================
