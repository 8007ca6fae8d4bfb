------------------------------ MODULE RfToolProofs ------------------------------
(***************************************************************************)
(* Proofs about RfTool, for any number of frames and intervals and any     *)
(* bounds: who has the modem, that a run has something to go on by, and    *)
(* that its intervals do not mix. And about its frame, for any options.    *)
(***************************************************************************)
EXTENDS RfTool, RfFrame, SeqFacts

--------------------------------------------------------------------------------
(* Who has the modem.                                                      *)

Typed ==
  /\ rf \in [on_going : BOOLEAN, mode : Modes, sync : BOOLEAN, continuous : BOOLEAN,
             count : Nat, wait : BOOLEAN]
  /\ tool \in BOOLEAN /\ done \in BOOLEAN

LendInv == Typed /\ ToolAgrees

LEMMA LendInitially == RfInit => LendInv
<1> SUFFICES ASSUME RfInit PROVE LendInv
  OBVIOUS
<1>1. /\ rf = [on_going |-> FALSE, mode |-> "tx", sync |-> FALSE, continuous |-> FALSE,
               count |-> 0, wait |-> FALSE]
      /\ tool = FALSE /\ done = FALSE
  BY DEF RfInit, NoRun, Options
<1>2. Typed
  BY <1>1 DEF Typed, Modes
<1>3. rf.on_going = FALSE
  BY <1>1
<1> QED
  BY <1>1, <1>2, <1>3 DEF LendInv, ToolAgrees

\* What leaves the run, control and its message alone does not touch the loan.
LEMMA OthersKeep ==
  ASSUME LendInv, UNCHANGED <<rf, tool, done>>
  PROVE  LendInv'
BY DEF LendInv, Typed, ToolAgrees

\* What a start schedules is all that the mode needs, or it failed.
LEMMA LaunchTakes ==
  ASSUME NEW p, NEW n \in Nat, NEW ops, p.mode \in Modes, Launch(p, n, ops)
  PROVE  Whole(p) \in Nat /\ n <= Whole(p)
<1>1. Len(Operations(p.mode)) \in Nat
  BY DEF Operations, Modes
<1>2. CASE Waits(p)
  BY <1>2 DEF Launch, Whole
<1>3. CASE ~Waits(p)
  BY <1>1, <1>3 DEF Launch, Whole, Schedule
<1> QED
  BY <1>2, <1>3

\* A start lends the modem to the run, or hands it back at once when it failed.
LEMMA StartKeeps ==
  ASSUME LendInv, NEW mode \in Modes, NEW sync \in BOOLEAN, NEW continuous \in BOOLEAN,
         NEW n \in Nat, Start(Options(mode, sync, continuous), n)
  PROVE  LendInv'
<1> DEFINE p == Options(mode, sync, continuous)
<1>1. p.mode = mode
  BY DEF Options
<1>2. Whole(p) \in Nat /\ n <= Whole(p)
  BY <1>1, LaunchTakes DEF Start
<1>3. /\ rf' = [p EXCEPT !.on_going = (n = Whole(p))] /\ tool' = TRUE /\ done' = (n < Whole(p))
  BY DEF Start
<1>4. p \in [on_going : BOOLEAN, mode : Modes, sync : BOOLEAN, continuous : BOOLEAN,
             count : Nat, wait : BOOLEAN]
  BY DEF Options
<1> HIDE DEF p
<1>5. CASE n = Whole(p)
  <2>0. (n = Whole(p)) = TRUE /\ (n < Whole(p)) = FALSE
    BY <1>2, <1>5
  <2>1. rf' = [p EXCEPT !.on_going = TRUE] /\ tool' = TRUE /\ done' = FALSE
    BY <1>3, <2>0, Zenon
  <2>2. /\ rf'.on_going = TRUE
        /\ rf' \in [on_going : BOOLEAN, mode : Modes, sync : BOOLEAN, continuous : BOOLEAN,
                   count : Nat, wait : BOOLEAN]
    BY <1>4, <2>1
  <2>3. Typed'
    BY <2>1, <2>2 DEF Typed
  <2> QED
    BY <2>1, <2>2, <2>3 DEF LendInv, ToolAgrees
<1>6. CASE n < Whole(p)
  <2>0. (n = Whole(p)) = FALSE /\ (n < Whole(p)) = TRUE
    BY <1>2, <1>6
  <2>1. rf' = [p EXCEPT !.on_going = FALSE] /\ tool' = TRUE /\ done' = TRUE
    BY <1>3, <2>0, Zenon
  <2>2. /\ rf'.on_going = FALSE
        /\ rf' \in [on_going : BOOLEAN, mode : Modes, sync : BOOLEAN, continuous : BOOLEAN,
                   count : Nat, wait : BOOLEAN]
    BY <1>4, <2>1
  <2>3. Typed'
    BY <2>1, <2>2 DEF Typed
  <2> QED
    BY <2>1, <2>2, <2>3 DEF LendInv, ToolAgrees
<1> QED
  BY <1>2, <1>5, <1>6

\* The scheduler and the modem do not touch what decides about the loan.
LEMMA SurroundingsKeep ==
  ASSUME LendInv, SchedulerRuns \/ ModemRuns \/ UNCHANGED vars
  PROVE  LendInv'
<1>1. UNCHANGED <<rf, tool, done>>
  BY DEF SchedulerRuns, OwnTurn, StrayTurn, Turn, ModemRuns, Hears, Ends, vars
<1> QED
  BY <1>1, OthersKeep

\* The thread ends a run only together with the message that hands the modem back.
LEMMA ThreadKeeps ==
  ASSUME LendInv, ThreadRuns
  PROVE  LendInv'
<1>1. CASE TakeCmdDone
  BY <1>1 DEF TakeCmdDone, LendInv, Typed, ToolAgrees
<1>2. CASE TakeSynced \/ TakeCont \/ OtherDone \/ Drop
  BY <1>2, OthersKeep DEF TakeSynced, TakeCont, OtherDone, Drop
<1>3. Counted \in Nat
  BY DEF Counted, LendInv, Typed
<1>4. CASE LastInterval
  BY <1>3, <1>4 DEF LastInterval, LendInv, Typed, ToolAgrees
<1>5. ASSUME NEW n \in 0 .. 2, TakePcc(n)
      PROVE  LendInv'
  BY <1>5 DEF TakePcc, LendInv, Typed, ToolAgrees
<1>6. ASSUME NEW n \in 0 .. 2, Restart(n)
      PROVE  LendInv'
  <2>1. (Waits(rf) /\ n = 1) \in BOOLEAN
    BY DEF Waits
  <2> QED
    BY <1>3, <1>6, <2>1 DEF Restart, LendInv, Typed, ToolAgrees
<1> QED
  BY <1>1, <1>2, <1>4, <1>5, <1>6 DEF ThreadRuns

LEMMA LendInductive ==
  ASSUME LendInv, [RfNext]_vars
  PROVE  LendInv'
<1>1. CASE User
  <2>1. CASE Stop
    BY <2>1, OthersKeep DEF Stop
  <2>2. ASSUME NEW mode \in Modes, NEW sync \in BOOLEAN, NEW continuous \in BOOLEAN,
               NEW n \in 0 .. 2, Start(Options(mode, sync, continuous), n)
        PROVE  LendInv'
    BY <2>2, StartKeeps
  <2> QED
    BY <1>1, <2>1, <2>2 DEF User
<1>2. CASE NoteWait
  BY <1>2 DEF NoteWait, LendInv, Typed, ToolAgrees
<1>3. CASE SchedulerRuns \/ ModemRuns \/ UNCHANGED vars
  BY <1>3, SurroundingsKeep
<1>4. CASE ThreadRuns
  BY <1>4, ThreadKeeps
<1>5. CASE TakeDone
  BY <1>5 DEF TakeDone, LendInv, Typed, ToolAgrees, NoRun, Options, Modes
<1> QED
  BY <1>1, <1>2, <1>3, <1>4, <1>5 DEF RfNext

\* Control has lent the modem exactly to a run that is on going or about to be handed
\* back, for any number of frames, intervals, commands and failures
\* (dect_phy_rf_tool_cmd_done, dect_phy_ctrl_rf_tool_cmd).
THEOREM ToolAlwaysAgrees == RfSpec => []ToolAgrees
<1>1. LendInv => ToolAgrees
  BY DEF LendInv
<1> QED
  BY <1>1, LendInitially, LendInductive, PTL DEF RfSpec

--------------------------------------------------------------------------------
(* Types.                                                                  *)

ItemOps == {"tx", "rx", "cont"}
Items == [op : ItemOps, left : Nat \ {0}]
ModemOps == ItemOps \cup {"sync", "heard"}
Events ==
  {AllDone(op) : op \in ItemOps}
    \cup {Event("completed", "cont"), Event("completed", "sync"), Event("pcc", "sync"),
          Event("cmd_done", "")}

TypeOK ==
  /\ Typed /\ shell \in {"idle", "sync"} /\ hitch \in BOOLEAN /\ astray \in BOOLEAN
  /\ list \in Seq(Items) /\ strays \in Seq(Items)
  /\ modem \in Seq(ModemOps) /\ queue \in Seq(Events)

LEMMA EventType ==
  /\ \A op \in ItemOps : AllDone(op) \in Events
  /\ Event("completed", "cont") \in Events /\ Event("completed", "sync") \in Events
  /\ Event("pcc", "sync") \in Events /\ Event("cmd_done", "") \in Events
BY DEF Events

LEMMA NothingType == <<>> \in Seq(Items) /\ <<>> \in Seq(ModemOps) /\ <<>> \in Seq(Events)
OBVIOUS

\* What a mode schedules.
LEMMA OperationsType ==
  ASSUME NEW mode \in Modes
  PROVE  /\ Operations(mode) \in Seq(ItemOps) /\ Len(Operations(mode)) \in 1 .. 2
         /\ \A i \in 1 .. Len(Operations(mode)) : Operations(mode)[i] \in ItemOps
<1>1. \A a, b \in ItemOps : <<a>> \in Seq(ItemOps) /\ <<a, b>> \in Seq(ItemOps)
  OBVIOUS
<1>2. CASE mode = "rx_tx"
  <2>1. Operations(mode) = <<"rx", "tx">>
    BY <1>2 DEF Operations
  <2> QED
    BY <2>1 DEF ItemOps
<1>3. CASE mode = "rx_cont"
  <2>1. Operations(mode) = <<"cont">>
    BY <1>3 DEF Operations
  <2> QED
    BY <2>1 DEF ItemOps
<1>4. CASE mode \in {"tx", "rx"}
  <2>1. Operations(mode) = <<mode>>
    BY <1>4 DEF Operations
  <2> QED
    BY <1>4, <2>1 DEF ItemOps
<1> QED
  BY <1>2, <1>3, <1>4 DEF Modes

LEMMA ItemType == ASSUME NEW op \in ItemOps PROVE Item(op) \in Items /\ Item(op).op = op
<1>1. Frames \in Nat \ {0}
  BY RfAssumption
<1> QED
  BY <1>1 DEF Item, Items

LEMMA ScheduleGives ==
  ASSUME NEW mode \in Modes, NEW n \in Nat, Schedule(mode, n), list \in Seq(Items), strays \in Seq(Items)
  PROVE  /\ list' \in Seq(Items) /\ strays' \in Seq(Items) /\ n <= Len(Operations(mode))
         /\ Len(list') = n /\ \A i \in 1 .. n : list'[i] = Item(Operations(mode)[i])
<1>1. /\ n <= Len(Operations(mode)) /\ list' = [i \in 1 .. n |-> Item(Operations(mode)[i])]
      /\ strays' = strays \o list
  BY DEF Schedule
<1>2. \A i \in 1 .. n : Item(Operations(mode)[i]) \in Items
  BY <1>1, OperationsType, ItemType
<1>3. list' \in Seq(Items) /\ Len(list') = n
  BY <1>1, <1>2
<1>4. strays' \in Seq(Items)
  BY <1>1, HoldsConcat
<1> QED
  BY <1>1, <1>3, <1>4

\* What a start leaves in the list and gives the modem.
LEMMA LaunchGives ==
  ASSUME NEW p, p.mode \in Modes, NEW n \in Nat, NEW ops \in Seq(ModemOps), Launch(p, n, ops),
         list \in Seq(Items), strays \in Seq(Items)
  PROVE  /\ list' \in Seq(Items) /\ strays' \in Seq(Items) /\ modem' \in Seq(ModemOps)
         /\ strays' = strays \o list /\ ToSet(ops) \subseteq ToSet(modem')
<1>1. CASE Waits(p)
  <2>1. /\ list' = <<>> /\ strays' = strays \o list
        /\ modem' = ops \o IF n = 1 THEN <<"sync">> ELSE <<>>
    BY <1>1 DEF Launch
  <2>2. <<>> \in Seq(ModemOps) /\ <<"sync">> \in Seq(ModemOps) /\ <<>> \in Seq(Items)
    BY DEF ModemOps
  <2> DEFINE more == IF n = 1 THEN <<"sync">> ELSE <<>>
  <2>3. more \in Seq(ModemOps) /\ modem' = ops \o more
    BY <2>1, <2>2
  <2> HIDE DEF more
  <2>4. modem' \in Seq(ModemOps) /\ ToSet(ops) \subseteq ToSet(modem')
    BY <2>3, HoldsConcat
  <2>5. strays' \in Seq(Items)
    BY <2>1, HoldsConcat
  <2> QED
    BY <2>1, <2>2, <2>4, <2>5
<1>2. CASE ~Waits(p)
  BY <1>2, ScheduleGives DEF Launch, Schedule
<1> QED
  BY <1>1, <1>2

LEMMA TailType ==
  ASSUME NEW T, NEW s \in Seq(T), s # <<>>
  PROVE  Tail(s) \in Seq(T) /\ Head(s) \in T
BY HoldsTail

\* What a turn makes of its item, and where it may put it.
LEMMA TurnGives ==
  ASSUME TypeOK, NEW item \in Items, NEW outcome, Turn(item, outcome)
  PROVE  /\ modem' \in Seq(ModemOps) /\ queue' \in Seq(Events)
         /\ Again(item, outcome) \in Seq(Items)
         /\ ToSet(modem) \subseteq ToSet(modem') /\ ToSet(queue) \subseteq ToSet(queue')
         /\ item.op \in ModemOps /\ AllDone(item.op) \in Events
<1>1. item.op \in ItemOps /\ item.left \in Nat \ {0}
  BY DEF Items
<1>2. item.op \in ModemOps /\ AllDone(item.op) \in Events
  BY <1>1, EventType DEF ModemOps
<1>3. modem' \in Seq(ModemOps) /\ ToSet(modem) \subseteq ToSet(modem')
  <2>1. modem' = modem \/ modem' = Append(modem, item.op)
    BY DEF Turn
  <2>2. modem \in Seq(ModemOps)
    BY DEF TypeOK
  <2>3. /\ Append(modem, item.op) \in Seq(ModemOps)
        /\ ToSet(modem) \subseteq ToSet(Append(modem, item.op))
    BY <1>2, <2>2, HoldsAppend
  <2> QED
    BY <2>1, <2>2, <2>3
<1>4. queue' \in Seq(Events) /\ ToSet(queue) \subseteq ToSet(queue')
  <2>1. queue' = queue \/ queue' = Append(queue, AllDone(item.op))
    BY DEF Turn
  <2>2. queue \in Seq(Events)
    BY DEF TypeOK
  <2>3. /\ Append(queue, AllDone(item.op)) \in Seq(Events)
        /\ ToSet(queue) \subseteq ToSet(Append(queue, AllDone(item.op)))
    BY <1>2, <2>2, HoldsAppend
  <2> QED
    BY <2>1, <2>2, <2>3
<1>5. Again(item, outcome) \in Seq(Items)
  <2>1. CASE item.left > 1 /\ outcome \in {"sent", "failed"}
    <3>1. Again(item, outcome) = <<[item EXCEPT !.left = @ - 1]>>
      BY <2>1 DEF Again
    <3>2. item.left - 1 \in Nat \ {0}
      BY <1>1, <2>1
    <3>3. [item EXCEPT !.left = @ - 1] \in Items
      BY <3>2 DEF Items
    <3> QED
      BY <3>1, <3>3
  <2>2. CASE ~(item.left > 1 /\ outcome \in {"sent", "failed"})
    <3>1. Again(item, outcome) = <<>>
      BY <2>2 DEF Again
    <3> QED
      BY <3>1
  <2> QED
    BY <2>1, <2>2
<1> QED
  BY <1>2, <1>3, <1>4, <1>5

LEMMA InitTypes == RfInit => TypeOK
<1> SUFFICES ASSUME RfInit PROVE TypeOK
  OBVIOUS
<1>1. /\ list = <<>> /\ strays = <<>> /\ modem = <<>> /\ queue = <<>> /\ shell = "idle"
      /\ hitch = FALSE /\ astray = FALSE
  BY DEF RfInit
<1>2. Typed
  BY LendInitially DEF LendInv
<1> QED
  BY <1>1, <1>2, NothingType DEF TypeOK

LEMMA SchedulerTypes ==
  ASSUME TypeOK, Typed', SchedulerRuns
  PROVE  TypeOK'
<1>1. PICK outcome : OwnTurn(outcome) \/ StrayTurn(outcome)
  BY DEF SchedulerRuns
<1>2. CASE OwnTurn(outcome)
  <2> DEFINE item == Head(list)
  <2>1. /\ list # <<>> /\ Turn(item, outcome) /\ list' = Tail(list) \o Again(item, outcome)
        /\ hitch' \in BOOLEAN /\ astray' \in BOOLEAN /\ strays' = strays /\ shell' = shell
    BY <1>2 DEF OwnTurn, Turn, TypeOK, users
  <2>2. item \in Items /\ Tail(list) \in Seq(Items)
    BY <2>1, TailType DEF TypeOK
  <2> HIDE DEF item
  <2>3. /\ modem' \in Seq(ModemOps) /\ queue' \in Seq(Events) /\ Again(item, outcome) \in Seq(Items)
    BY <2>1, <2>2, TurnGives
  <2>4. list' \in Seq(Items)
    BY <2>1, <2>2, <2>3, HoldsConcat
  <2> QED
    BY <2>1, <2>3, <2>4 DEF TypeOK
<1>3. CASE StrayTurn(outcome)
  <2> DEFINE item == Head(strays)
  <2>1. /\ strays # <<>> /\ Turn(item, outcome) /\ strays' = Tail(strays) \o Again(item, outcome)
        /\ UNCHANGED <<list, hitch, astray, shell>>
    BY <1>3 DEF StrayTurn, Turn, users
  <2>2. item \in Items /\ Tail(strays) \in Seq(Items)
    BY <2>1, TailType DEF TypeOK
  <2> HIDE DEF item
  <2>3. /\ modem' \in Seq(ModemOps) /\ queue' \in Seq(Events) /\ Again(item, outcome) \in Seq(Items)
    BY <2>1, <2>2, TurnGives
  <2>4. strays' \in Seq(Items)
    BY <2>1, <2>2, <2>3, HoldsConcat
  <2> QED
    BY <2>1, <2>3, <2>4 DEF TypeOK
<1> QED
  BY <1>1, <1>2, <1>3

LEMMA ToldType ==
  ASSUME NEW op \in ModemOps
  PROVE  Told(op) \in Seq(Events)
<1>1. \A e \in Events : <<e>> \in Seq(Events)
  OBVIOUS
<1>2. <<>> \in Seq(Events)
  OBVIOUS
<1>3. CASE op \in {"rx", "tx"}
  <2>1. Told(op) = <<AllDone(op)>> /\ AllDone(op) \in Events
    BY <1>3, EventType DEF Told, ItemOps
  <2> QED
    BY <1>1, <2>1
<1>4. CASE op \notin {"rx", "tx"}
  <2>1. \/ Told(op) = <<Event("completed", "cont")>> \/ Told(op) = <<Event("completed", "sync")>>
        \/ Told(op) = <<>>
    BY <1>4 DEF Told
  <2> QED
    BY <1>1, <1>2, <2>1, EventType
<1> QED
  BY <1>3, <1>4

LEMMA ModemTypes ==
  ASSUME TypeOK, ModemRuns
  PROVE  TypeOK'
<1>1. PICK i \in DOMAIN modem : Hears(i) \/ Ends(i)
  BY DEF ModemRuns
<1>2. i \in 1 .. Len(modem) /\ modem[i] \in ModemOps
  BY LenProperties, ElementOfSeq DEF TypeOK
<1>3. UNCHANGED <<rf, list, strays, tool, done, shell, hitch, astray>>
  BY <1>1 DEF Hears, Ends, users, bounds
<1>4. CASE Hears(i)
  <2>1. modem' = [modem EXCEPT ![i] = "heard"] /\ queue' = Append(queue, Event("pcc", "sync"))
    BY <1>4 DEF Hears
  <2>2. modem' \in Seq(ModemOps)
    BY <1>2, <2>1, ExceptSeq DEF TypeOK, ModemOps
  <2>3. queue' \in Seq(Events)
    BY <2>1, HoldsAppend, EventType DEF TypeOK
  <2> QED
    BY <1>3, <2>2, <2>3 DEF TypeOK, Typed
<1>5. CASE Ends(i)
  <2>1. modem' = RemoveAt(modem, i) /\ queue' = queue \o Told(modem[i])
    BY <1>5 DEF Ends
  <2>2. modem' \in Seq(ModemOps)
    BY <1>2, <2>1, RemoveAtProperties DEF TypeOK
  <2>3. queue' \in Seq(Events)
    BY <1>2, <2>1, ToldType, HoldsConcat DEF TypeOK
  <2> QED
    BY <1>3, <2>2, <2>3 DEF TypeOK, Typed
<1> QED
  BY <1>1, <1>4, <1>5

LEMMA ThreadTypes ==
  ASSUME TypeOK, Typed', ThreadRuns
  PROVE  TypeOK'
<1>1. queue # <<>> /\ Tail(queue) \in Seq(Events)
  <2>1. queue # <<>>
    BY DEF ThreadRuns, TakeCmdDone, TakeSynced, TakeCont, LastInterval, OtherDone, Drop, TakePcc,
           Restart, Handles, Takes
  <2> QED
    BY <2>1, TailType DEF TypeOK
<1>2. Event("cmd_done", "") \in Events /\ AllDone("cont") \in Events
  BY EventType DEF ItemOps
<1>3. CASE TakeCmdDone \/ TakeCont \/ LastInterval \/ OtherDone \/ Drop
  <2>1. /\ UNCHANGED <<list, strays, modem, shell, hitch, astray>>
        /\ \/ queue' = Tail(queue)
           \/ \E e \in {Event("cmd_done", ""), AllDone("cont")} : queue' = Append(Tail(queue), e)
    BY <1>3 DEF TakeCmdDone, TakeCont, LastInterval, OtherDone, Drop, users, bounds
  <2>2. \A e \in Events : Append(Tail(queue), e) \in Seq(Events)
    BY <1>1, HoldsAppend
  <2>3. queue' \in Seq(Events)
    BY <1>1, <1>2, <2>1, <2>2
  <2> QED
    BY <2>1, <2>3 DEF TypeOK
<1>4. CASE TakeSynced
  <2>1. /\ UNCHANGED <<list, strays, modem, shell, hitch, astray>>
        /\ queue' = Tail(queue) \o IF rf.wait THEN <<Event("cmd_done", "")>> ELSE <<>>
    BY <1>4 DEF TakeSynced, users, bounds
  <2>2. (IF rf.wait THEN <<Event("cmd_done", "")>> ELSE <<>>) \in Seq(Events)
    <3>1. \A e \in Events : <<e>> \in Seq(Events)
      OBVIOUS
    <3> QED
      BY <1>2, <3>1, NothingType
  <2>3. queue' \in Seq(Events)
    BY <1>1, <2>1, <2>2, HoldsConcat
  <2> QED
    BY <2>1, <2>3 DEF TypeOK
<1>5. ASSUME NEW n \in 0 .. 2, TakePcc(n)
      PROVE  TypeOK'
  <2>1. /\ queue' = Tail(queue) /\ UNCHANGED <<modem, shell, astray>>
        /\ Schedule(rf.mode, n) \/ UNCHANGED <<list, strays>>
        /\ hitch' \in BOOLEAN
    BY <1>5 DEF TakePcc, users, TypeOK
  <2>2. rf.mode \in Modes
    BY DEF TypeOK, Typed
  <2>3. list' \in Seq(Items) /\ strays' \in Seq(Items)
    BY <2>1, <2>2, ScheduleGives DEF TypeOK
  <2> QED
    BY <1>1, <2>1, <2>3 DEF TypeOK
<1>6. ASSUME NEW n \in 0 .. 2, Restart(n)
      PROVE  TypeOK'
  <2>1. /\ queue' = Tail(queue) /\ UNCHANGED <<shell, astray>>
        /\ Launch(rf, n, modem) /\ hitch' \in BOOLEAN
    BY <1>6 DEF Restart, users, TypeOK
  <2>2. rf.mode \in Modes
    BY DEF TypeOK, Typed
  <2>3. list' \in Seq(Items) /\ strays' \in Seq(Items) /\ modem' \in Seq(ModemOps)
    BY <2>1, <2>2, LaunchGives DEF TypeOK
  <2> QED
    BY <1>1, <2>1, <2>3 DEF TypeOK
<1> QED
  BY <1>3, <1>4, <1>5, <1>6 DEF ThreadRuns

LEMMA NextTypes ==
  ASSUME TypeOK, LendInv, [RfNext]_vars
  PROVE  TypeOK' /\ LendInv'
<1>1. LendInv' /\ Typed'
  BY LendInductive DEF LendInv
<1>2. CASE SchedulerRuns \/ ModemRuns \/ ThreadRuns
  BY <1>1, <1>2, SchedulerTypes, ModemTypes, ThreadTypes
<1>3. CASE NoteWait
  <2>1. UNCHANGED <<list, strays, modem, queue, astray>> /\ shell' = "idle" /\ hitch' \in BOOLEAN
    BY <1>3 DEF NoteWait, TypeOK
  <2> QED
    BY <1>1, <2>1 DEF TypeOK
<1>4. CASE TakeDone
  <2>1. /\ UNCHANGED <<list, strays, queue, shell>> /\ modem' = <<>>
        /\ hitch' = FALSE /\ astray' = FALSE
    BY <1>4 DEF TakeDone, users
  <2> QED
    BY <1>1, <2>1, NothingType DEF TypeOK
<1>5. CASE UNCHANGED vars
  <2>1. UNCHANGED <<list, strays, modem, queue, shell, hitch, astray>>
    BY <1>5 DEF vars, users, bounds
  <2> QED
    BY <1>1, <2>1 DEF TypeOK
<1>6. CASE Stop
  <2>1. /\ UNCHANGED <<list, strays, modem, shell, hitch, astray>>
        /\ queue' = Append(queue, Event("cmd_done", ""))
    BY <1>6 DEF Stop, bounds
  <2>2. queue' \in Seq(Events)
    BY <2>1, EventType, HoldsAppend DEF TypeOK
  <2> QED
    BY <1>1, <2>1, <2>2 DEF TypeOK
<1>7. ASSUME NEW mode \in Modes, NEW sync \in BOOLEAN, NEW continuous \in BOOLEAN,
             NEW n \in 0 .. 2, Start(Options(mode, sync, continuous), n)
      PROVE  TypeOK'
  <2> DEFINE p == Options(mode, sync, continuous)
  <2>1. p.mode \in Modes
    BY DEF Options
  <2> HIDE DEF p
  <2>2. /\ Launch(p, n, <<>>) /\ queue' = queue /\ shell' \in {"idle", "sync"}
        /\ hitch' = FALSE /\ astray' \in BOOLEAN
    BY <1>7 DEF Start, p
  <2>3. list' \in Seq(Items) /\ strays' \in Seq(Items) /\ modem' \in Seq(ModemOps)
    <3>1. list \in Seq(Items) /\ strays \in Seq(Items) /\ n \in Nat /\ Launch(p, n, <<>>)
      BY <2>2 DEF TypeOK
    <3> QED
      BY <2>1, <3>1, LaunchGives, NothingType
  <2> QED
    BY <1>1, <2>2, <2>3 DEF TypeOK
<1> QED
  BY <1>1, <1>2, <1>3, <1>4, <1>5, <1>6, <1>7 DEF RfNext, User

--------------------------------------------------------------------------------
(* What the run goes on by.                                                *)

LEMMA HoldsContains ==
  ASSUME NEW T, NEW s \in Seq(T), NEW e
  PROVE  Contains(s, e) <=> e \in ToSet(s)
<1>1. DOMAIN s = 1 .. Len(s)
  BY LenProperties
<1> QED
  BY <1>1 DEF Contains, ToSet

\* The end of an operation that the interval goes by.
DoneEvents == {e \in Events : e.id \in {"all_done", "completed"} /\ Counts(e.op)}

\* The operation of the interval, listed, with the modem, or just over.
OnTheWay ==
  \/ \E item \in ToSet(list) : Counts(item.op)
  \/ \E op \in ToSet(modem) : Counts(op)
  \/ ToSet(queue) \cap DoneEvents # {}

\* The RX to synchronise, its header, or its end.
Synching ==
  \/ "sync" \in ToSet(modem) \/ "heard" \in ToSet(modem)
  \/ Event("pcc", "sync") \in ToSet(queue) \/ Event("completed", "sync") \in ToSet(queue)

Over == Event("cmd_done", "") \in ToSet(queue)

\* A run has something of its own that drives it, whatever is listed besides.
Going ==
  rf.on_going =>
    /\ rf.wait \/ shell = "sync" => Waits(rf)
    /\ shell = "idle" /\ ~Over /\ ~hitch => OnTheWay \/ (rf.wait /\ Synching)

GoInv == TypeOK /\ LendInv /\ Going

\* What takes nothing of this away.
LEMMA StillGoing ==
  ASSUME Going, UNCHANGED <<rf, shell>>, hitch => hitch', Over => Over',
         OnTheWay => OnTheWay' \/ hitch', Synching => Synching' \/ Over'
  PROVE  Going'
BY DEF Going, Waits

\* An event is taken and others are queued.
LEMMA Taken ==
  ASSUME queue \in Seq(Events), queue # <<>>, NEW more \in Seq(Events), queue' = Tail(queue) \o more
  PROVE  /\ Head(queue) \in Events /\ ToSet(queue) = {Head(queue)} \cup ToSet(Tail(queue))
         /\ ToSet(queue') = ToSet(Tail(queue)) \cup ToSet(more)
<1>1. Tail(queue) \in Seq(Events)
  BY HoldsTail
<1>2. ToSet(Tail(queue) \o more) = ToSet(Tail(queue)) \cup ToSet(more)
  BY <1>1, HoldsConcat
<1>3. Head(queue) \in Events /\ ToSet(queue) = {Head(queue)} \cup ToSet(Tail(queue))
  BY HoldsTail
<1> QED
  BY <1>2, <1>3

LEMMA TakenOnly ==
  ASSUME queue \in Seq(Events), queue # <<>>, queue' = Tail(queue)
  PROVE  /\ Head(queue) \in Events /\ ToSet(queue) = {Head(queue)} \cup ToSet(queue')
BY HoldsTail

LEMMA EventFacts ==
  /\ \A op \in ItemOps : AllDone(op).id = "all_done" /\ AllDone(op).op = op
  /\ Event("completed", "cont").id = "completed" /\ Event("completed", "cont").op = "cont"
  /\ Event("completed", "sync").id = "completed" /\ Event("completed", "sync").op = "sync"
  /\ Event("pcc", "sync").id = "pcc" /\ Event("cmd_done", "").id = "cmd_done"
BY DEF Event, AllDone

LEMMA CountsOps == \A op : Counts(op) => op \in ItemOps
BY DEF Counts, ItemOps

LEMMA DoneFacts ==
  /\ \A op \in ItemOps : AllDone(op) \in DoneEvents <=> Counts(op)
  /\ Event("completed", "cont") \in DoneEvents <=> Counts("cont")
  /\ Event("completed", "sync") \notin DoneEvents /\ Event("pcc", "sync") \notin DoneEvents
  /\ Event("cmd_done", "") \notin DoneEvents
  /\ \A e \in DoneEvents : e.id = "all_done" \/ (e.id = "completed" /\ e.op = "cont")
<1>1. ~Counts("sync")
  BY CountsOps DEF ItemOps
<1>2. \A op \in ItemOps : AllDone(op) \in DoneEvents <=> Counts(op)
  BY EventType, EventFacts DEF DoneEvents
<1>3. \A e \in Events : e.id = "completed" => e.op \in {"cont", "sync"}
  BY EventFacts DEF Events
<1> QED
  BY <1>1, <1>2, <1>3, EventType, EventFacts DEF DoneEvents

LEMMA OverIsEnding == ASSUME TypeOK PROVE Ending <=> Over
BY HoldsContains DEF TypeOK, Ending, Over

--------------------------------------------------------------------------------
(* The scheduler and the modem.                                            *)

\* A turn of an operation that counts keeps it on the way, or is given up.
LEMMA TurnGoesOn ==
  ASSUME TypeOK, NEW item \in Items, NEW outcome \in Outcomes(item), Turn(item, outcome),
         Counts(item.op)
  PROVE  \/ Counts(item.op)' /\ item.op \in ToSet(modem')
         \/ ToSet(queue') \cap DoneEvents' # {}
         \/ \E e \in ToSet(Again(item, outcome)) : Counts(e.op)'
         \/ outcome = "dropped" \/ (outcome = "failed" /\ item.op = "cont")
<1>1. Counts(item.op)' /\ DoneEvents' = DoneEvents
  BY DEF Turn, Counts, DoneEvents
<1>2. item.op \in ItemOps /\ item.left \in Nat \ {0} /\ item.op \in ModemOps /\ AllDone(item.op) \in Events
  BY TurnGives DEF Items
<1>3. outcome \in {"sent", "failed"} \/ (item.left > 1 /\ outcome \in {"concluded", "dropped"})
  BY DEF Outcomes
<1>4. CASE item.left > 1 /\ outcome \in {"sent", "failed"}
  <2> DEFINE e == [item EXCEPT !.left = @ - 1]
  <2>1. Again(item, outcome) = <<e>> /\ e.op = item.op
    BY <1>4 DEF Again, Items
  <2> HIDE DEF e
  <2>2. e \in ToSet(Again(item, outcome))
    BY <2>1, HoldsSingle
  <2>3. Counts(e.op)'
    BY <1>1, <2>1
  <2> QED
    BY <2>2, <2>3
<1>5. CASE item.left = 1 /\ outcome = "sent"
  <2>1. modem' = Append(modem, item.op)
    BY <1>5 DEF Turn
  <2> QED
    BY <1>1, <1>2, <2>1, HoldsAppend DEF TypeOK
<1>6. CASE outcome = "concluded" \/ (item.left = 1 /\ outcome = "failed" /\ item.op # "cont")
  <2>1. queue' = Append(queue, AllDone(item.op))
    BY <1>6 DEF Turn
  <2>2. queue \in Seq(Events)
    BY DEF TypeOK
  <2>3. AllDone(item.op) \in ToSet(queue')
    BY <1>2, <2>1, <2>2, HoldsAppend
  <2>4. AllDone(item.op) \in DoneEvents'
    BY <1>1, <1>2, DoneFacts
  <2> QED
    BY <2>3, <2>4
<1> QED
  BY <1>2, <1>3, <1>4, <1>5, <1>6

LEMMA SchedulerGoing ==
  ASSUME GoInv, SchedulerRuns
  PROVE  Going'
<1>0. TypeOK /\ Going
  BY DEF GoInv
<1>1. PICK outcome : OwnTurn(outcome) \/ StrayTurn(outcome)
  BY DEF SchedulerRuns
<1>2. \A op : Counts(op)' <=> Counts(op)
  BY <1>1 DEF OwnTurn, StrayTurn, Turn, Counts
<1>3. DoneEvents' = DoneEvents
  BY <1>1 DEF OwnTurn, StrayTurn, Turn, Counts, DoneEvents
<1>4. CASE OwnTurn(outcome)
  <2>0. list # <<>> /\ list \in Seq(Items)
    BY <1>0, <1>4 DEF OwnTurn, TypeOK
  <2> PICK item \in Items : item = Head(list)
    BY <2>0, HoldsTail
  <2>1. /\ list # <<>> /\ outcome \in Outcomes(item) /\ Turn(item, outcome)
        /\ list' = Tail(list) \o Again(item, outcome) /\ UNCHANGED <<rf, shell>>
        /\ hitch' = (hitch \/ /\ Counts(item.op)
                              /\ outcome = "dropped" \/ (outcome = "failed" /\ item.op = "cont"))
    BY <1>4 DEF OwnTurn, Turn, users
  <2>3. item \in Items /\ Tail(list) \in Seq(Items) /\ ToSet(list) = {item} \cup ToSet(Tail(list))
    BY <2>0, HoldsTail
  <2>4. /\ ToSet(modem) \subseteq ToSet(modem') /\ ToSet(queue) \subseteq ToSet(queue')
        /\ Again(item, outcome) \in Seq(Items)
    BY <1>0, <2>1, <2>3, TurnGives
  <2>5. ToSet(list') = ToSet(Tail(list)) \cup ToSet(Again(item, outcome))
    <3>1. ToSet(Tail(list) \o Again(item, outcome)) = ToSet(Tail(list)) \cup ToSet(Again(item, outcome))
      <4> DEFINE rest == Tail(list)  again == Again(item, outcome)
      <4>1. rest \in Seq(Items) /\ again \in Seq(Items)
        BY <2>3, <2>4
      <4> HIDE DEF rest, again
      <4>2. ToSet(rest \o again) = ToSet(rest) \cup ToSet(again)
        BY <4>1, HoldsConcat
      <4> QED
        BY <4>2 DEF rest, again
    <3> QED
      BY <2>1, <3>1
  <2>6. OnTheWay => OnTheWay' \/ hitch'
    <3>1. CASE \E op \in ToSet(modem) : Counts(op)
      BY <1>2, <2>4, <3>1 DEF OnTheWay
    <3>2. CASE ToSet(queue) \cap DoneEvents # {}
      BY <1>3, <2>4, <3>2 DEF OnTheWay
    <3>3. CASE \E e \in ToSet(Tail(list)) : Counts(e.op)
      BY <1>2, <2>5, <3>3 DEF OnTheWay
    <3>4. CASE Counts(item.op)
      <4>1. \/ Counts(item.op)' /\ item.op \in ToSet(modem')
            \/ ToSet(queue') \cap DoneEvents' # {}
            \/ \E e \in ToSet(Again(item, outcome)) : Counts(e.op)'
            \/ outcome = "dropped" \/ (outcome = "failed" /\ item.op = "cont")
        <5>1. TypeOK /\ item \in Items /\ outcome \in Outcomes(item) /\ Turn(item, outcome)
          BY <1>0, <2>1, <2>3
        <5> QED
          BY <3>4, <5>1, TurnGoesOn
      <4>2. CASE outcome = "dropped" \/ (outcome = "failed" /\ item.op = "cont")
        BY <2>1, <3>4, <4>2
      <4>3. CASE Counts(item.op)' /\ item.op \in ToSet(modem')
        BY <4>3 DEF OnTheWay
      <4>4. CASE ToSet(queue') \cap DoneEvents' # {}
        BY <4>4 DEF OnTheWay
      <4>5. CASE \E e \in ToSet(Again(item, outcome)) : Counts(e.op)'
        BY <2>5, <4>5 DEF OnTheWay
      <4> QED
        BY <4>1, <4>2, <4>3, <4>4, <4>5
    <3> QED
      <4>1. (\E e \in ToSet(list) : Counts(e.op)) =>
              Counts(item.op) \/ \E e \in ToSet(Tail(list)) : Counts(e.op)
        BY <2>3
      <4> QED
        BY <3>1, <3>2, <3>3, <3>4, <4>1 DEF OnTheWay
  <2>7. (Over => Over') /\ (Synching => Synching') /\ (hitch => hitch')
    BY <2>1, <2>4 DEF Over, Synching
  <2> QED
    BY <1>0, <2>1, <2>6, <2>7, StillGoing
<1>5. CASE StrayTurn(outcome)
  <2>0. strays # <<>> /\ strays \in Seq(Items)
    BY <1>0, <1>5 DEF StrayTurn, TypeOK
  <2> PICK item \in Items : item = Head(strays)
    BY <2>0, HoldsTail
  <2>1. /\ strays # <<>> /\ Turn(item, outcome) /\ UNCHANGED <<rf, shell, list, hitch>>
    BY <1>5 DEF StrayTurn, Turn, users
  <2>3. ToSet(modem) \subseteq ToSet(modem') /\ ToSet(queue) \subseteq ToSet(queue')
    BY <1>0, <2>1, TurnGives
  <2>4. OnTheWay => OnTheWay'
    BY <1>2, <1>3, <2>1, <2>3 DEF OnTheWay
  <2>5. (Over => Over') /\ (Synching => Synching') /\ (hitch => hitch')
    BY <2>1, <2>3 DEF Over, Synching
  <2> QED
    BY <1>0, <2>1, <2>4, <2>5, StillGoing
<1> QED
  BY <1>1, <1>4, <1>5

LEMMA ModemGoing ==
  ASSUME GoInv, ModemRuns
  PROVE  Going'
<1>0. TypeOK /\ Going /\ modem \in Seq(ModemOps) /\ queue \in Seq(Events)
  BY DEF GoInv, TypeOK
<1>1. PICK i \in DOMAIN modem : Hears(i) \/ Ends(i)
  BY DEF ModemRuns
<1>2. UNCHANGED <<rf, list, tool, shell, hitch>>
  BY <1>1 DEF Hears, Ends, users, bounds
<1>3. (\A op : Counts(op)' <=> Counts(op)) /\ DoneEvents' = DoneEvents
  BY <1>2 DEF Counts, DoneEvents
<1>4. i \in 1 .. Len(modem) /\ modem[i] \in ModemOps
  BY <1>0, LenProperties, ElementOfSeq
<1>5. CASE Hears(i)
  <2>1. /\ modem[i] = "sync" /\ modem' = [modem EXCEPT ![i] = "heard"]
        /\ queue' = Append(queue, Event("pcc", "sync"))
    BY <1>5 DEF Hears
  <2>2. "heard" \in ModemOps /\ ~Counts("sync")
    BY CountsOps DEF ModemOps, ItemOps
  <2>3. ToSet(modem) \subseteq {"sync"} \cup ToSet(modem')
    BY <1>0, <1>4, <2>1, <2>2, OthersHold
  <2>4. ToSet(queue') = ToSet(queue) \cup {Event("pcc", "sync")}
    <3>1. ToSet(Append(queue, Event("pcc", "sync"))) = ToSet(queue) \cup {Event("pcc", "sync")}
      <4>1. Event("pcc", "sync") \in Events
        BY EventType
      <4> QED
        BY <1>0, <4>1, HoldsAppend
    <3> QED
      BY <2>1, <3>1
  <2>5. OnTheWay => OnTheWay'
    <3>1. ASSUME NEW op \in ToSet(modem), Counts(op)
          PROVE  op \in ToSet(modem') /\ Counts(op)'
      BY <1>3, <2>2, <2>3, <3>1
    <3> QED
      BY <1>2, <1>3, <2>4, <3>1 DEF OnTheWay
  <2>6. (Over => Over') /\ Synching'
    BY <2>4 DEF Over, Synching
  <2> QED
    BY <1>0, <1>2, <2>5, <2>6, StillGoing
<1>6. CASE Ends(i)
  <2>1. modem' = RemoveAt(modem, i) /\ queue' = queue \o Told(modem[i])
    BY <1>6 DEF Ends
  <2>2. ToSet(modem) \subseteq {modem[i]} \cup ToSet(modem')
    BY <1>0, <1>4, <2>1, OthersHold
  <2>3. Told(modem[i]) \in Seq(Events)
    BY <1>4, ToldType
  <2>4. ToSet(queue') = ToSet(queue) \cup ToSet(Told(modem[i]))
    BY <1>0, <2>1, <2>3, HoldsConcat
  <2> DEFINE op == modem[i]
  <2>5. CASE ~rf.on_going
    BY <1>2, <2>5 DEF Going
  <2>6. CASE rf.on_going
    <3>1. tool
      BY <2>6 DEF GoInv, LendInv, ToolAgrees
    <3>2. op \in {"rx", "tx"} => Told(op) = <<AllDone(op)>>
      BY DEF Told
    <3>3. op = "cont" => Told(op) = <<Event("completed", "cont")>>
      BY <3>1 DEF Told
    <3>4. op \in {"sync", "heard"} => Told(op) = <<Event("completed", "sync")>>
      BY <3>1 DEF Told
    <3>5. Counts(op) => ToSet(queue') \cap DoneEvents # {}
      <4>1. SUFFICES ASSUME Counts(op)
                     PROVE  ToSet(queue') \cap DoneEvents # {}
        OBVIOUS
      <4>2. op \in ItemOps
        BY <4>1, CountsOps
      <4>3. CASE op \in {"rx", "tx"}
        <5>1. AllDone(op) \in ToSet(Told(op)) /\ AllDone(op) \in DoneEvents
          BY <3>2, <4>1, <4>2, <4>3, DoneFacts, HoldsSingle
        <5> QED
          BY <2>4, <5>1
      <4>4. CASE op = "cont"
        <5>1. Event("completed", "cont") \in ToSet(Told(op)) /\ Event("completed", "cont") \in DoneEvents
          BY <3>3, <4>1, <4>4, DoneFacts, HoldsSingle
        <5> QED
          BY <2>4, <5>1
      <4> QED
        BY <4>2, <4>3, <4>4 DEF ItemOps
    <3>6. OnTheWay => OnTheWay'
      <4>1. CASE \E o \in ToSet(modem) : Counts(o)
        <5>1. PICK o \in ToSet(modem) : Counts(o)
          BY <4>1
        <5>2. CASE o = op
          BY <1>3, <3>5, <5>1, <5>2 DEF OnTheWay
        <5>3. CASE o \in ToSet(modem')
          BY <1>3, <5>1, <5>3 DEF OnTheWay
        <5> QED
          BY <2>2, <5>2, <5>3
      <4> QED
        BY <1>2, <1>3, <2>4, <4>1 DEF OnTheWay
    <3>7. Synching => Synching'
      <4>1. CASE op \in {"sync", "heard"}
        <5>1. Event("completed", "sync") \in ToSet(queue')
          BY <2>4, <3>4, <4>1, HoldsSingle
        <5> QED
          BY <5>1 DEF Synching
      <4>2. CASE op \notin {"sync", "heard"}
        BY <2>2, <2>4, <4>2 DEF Synching
      <4> QED
        BY <4>1, <4>2
    <3>8. Over => Over'
      BY <2>4 DEF Over
    <3> QED
      BY <1>0, <1>2, <3>6, <3>7, <3>8, StillGoing
  <2> QED
    BY <2>5, <2>6
<1> QED
  BY <1>1, <1>5, <1>6

--------------------------------------------------------------------------------
(* The thread, control and the shell.                                      *)

\* What is scheduled counts, if all of it is.
LEMMA ScheduledCounts ==
  ASSUME NEW mode \in Modes, NEW n \in Nat, Schedule(mode, n), n = Len(Operations(mode)),
         list \in Seq(Items), strays \in Seq(Items), rf'.mode = mode
  PROVE  \E item \in ToSet(list') : Counts(item.op)'
<1>1. /\ list' \in Seq(Items) /\ Len(list') = n
      /\ \A i \in 1 .. n : list'[i] = Item(Operations(mode)[i])
  BY ScheduleGives
<1>2. n \in 1 .. 2 /\ DOMAIN list' = 1 .. n /\ n \in 1 .. n
  <2>1. n \in 1 .. 2
    BY OperationsType
  <2>2. DOMAIN list' = 1 .. n
    BY <1>1, LenProperties
  <2> QED
    BY <2>1, <2>2
<1>3. PICK op \in ItemOps : op = Operations(mode)[n]
  BY <1>2, OperationsType
<1>4. Item(op) \in ToSet(list') /\ Item(op).op = op
  BY <1>1, <1>2, <1>3, ItemType DEF ToSet
<1>5. Counts(op)'
  <2>1. CASE mode = "rx_tx"
    <3>1. Operations(mode) = <<"rx", "tx">> /\ n = 2
      BY <2>1 DEF Operations
    <3> QED
      BY <1>3, <3>1 DEF Counts
  <2>2. CASE mode = "rx_cont"
    <3>1. Operations(mode) = <<"cont">> /\ n = 1
      BY <2>2 DEF Operations
    <3>2. op = "cont"
      BY <1>3, <3>1
    <3> QED
      BY <2>2, <3>2 DEF Counts
  <2>3. CASE mode \in {"rx", "tx"}
    <3>1. Operations(mode) = <<mode>> /\ n = 1
      BY <2>3 DEF Operations
    <3>2. op = mode
      BY <1>3, <3>1
    <3> QED
      BY <2>3, <3>2 DEF Counts
  <2> QED
    BY <2>1, <2>2, <2>3 DEF Modes
<1> QED
  BY <1>4, <1>5

\* A start gives the run something to go on by.
LEMMA LaunchGoesOn ==
  ASSUME NEW p, NEW n \in Nat, NEW ops \in Seq(ModemOps), p.mode \in Modes, Launch(p, n, ops),
         list \in Seq(Items), strays \in Seq(Items), n = Whole(p), rf'.mode = p.mode
  PROVE  IF Waits(p) THEN "sync" \in ToSet(modem')
         ELSE \E item \in ToSet(list') : Counts(item.op)'
<1>1. CASE Waits(p)
  <2>1. n = 1 /\ modem' = ops \o <<"sync">>
    BY <1>1 DEF Launch, Whole
  <2>2. <<"sync">> \in Seq(ModemOps)
    BY DEF ModemOps
  <2>3. ToSet(ops \o <<"sync">>) = ToSet(ops) \cup ToSet(<<"sync">>)
    BY <2>2, HoldsConcat
  <2>4. "sync" \in ToSet(modem')
    BY <2>1, <2>3, HoldsSingle
  <2> QED
    BY <1>1, <2>4
<1>2. CASE ~Waits(p)
  BY <1>2, ScheduledCounts DEF Launch, Whole
<1> QED
  BY <1>1, <1>2

LEMMA ThreadGoing ==
  ASSUME GoInv, TypeOK', ThreadRuns
  PROVE  Going'
<1>0. TypeOK /\ Going /\ modem \in Seq(ModemOps) /\ queue \in Seq(Events) /\ rf.mode \in Modes
  BY DEF GoInv, TypeOK, Typed
<1>1. queue # <<>>
  BY DEF ThreadRuns, TakeCmdDone, TakeSynced, TakeCont, LastInterval, OtherDone, Drop, TakePcc,
         Restart, Handles, Takes
<1>2. /\ Head(queue) \in Events /\ ToSet(queue) = {Head(queue)} \cup ToSet(Tail(queue))
      /\ Tail(queue) \in Seq(Events)
  BY <1>0, <1>1, HoldsTail
<1>3. \A e \in Events : /\ Append(Tail(queue), e) \in Seq(Events)
                        /\ ToSet(Append(Tail(queue), e)) = ToSet(Tail(queue)) \cup {e}
  BY <1>2, HoldsAppend
<1>4. CASE TakeCmdDone \/ Drop
  <2>1. ~rf'.on_going
    BY <1>0, <1>4 DEF TakeCmdDone, Drop, TypeOK, Typed
  <2> QED
    BY <2>1 DEF Going
<1>5. CASE TakeSynced
  <2>1. /\ Head(queue) = Event("completed", "sync") /\ UNCHANGED <<rf, list, modem, shell, hitch>>
        /\ queue' = Tail(queue) \o IF rf.wait THEN <<Event("cmd_done", "")>> ELSE <<>>
    BY <1>5 DEF TakeSynced, Handles, Takes, users, bounds
  <2>2. CASE rf.wait
    <3>1. queue' = Append(Tail(queue), Event("cmd_done", ""))
      <4>1. Event("cmd_done", "") \in Events
        BY EventType
      <4>2. Append(Tail(queue), Event("cmd_done", "")) = Tail(queue) \o <<Event("cmd_done", "")>>
        BY <1>2, <4>1, AppendIsConcat
      <4> QED
        BY <2>1, <2>2, <4>2
    <3>2. Over'
      BY <1>3, <3>1, EventType DEF Over
    <3> QED
      BY <1>0, <2>1, <3>2 DEF Going, Waits
  <2>3. CASE ~rf.wait
    <3>1. ToSet(queue') = ToSet(Tail(queue))
      <4>1. queue' = Tail(queue) \o <<>>
        BY <2>1, <2>3
      <4> QED
        BY <1>2, <4>1
    <3>2. Head(queue) \notin DoneEvents /\ Head(queue) # Event("cmd_done", "")
      BY <2>1, DoneFacts, EventFacts
    <3>3. (OnTheWay => OnTheWay') /\ (Over => Over')
      BY <1>2, <2>1, <3>1, <3>2 DEF OnTheWay, Over, Counts, DoneEvents
    <3> QED
      BY <1>0, <2>1, <2>3, <3>3 DEF Going, Waits
  <2> QED
    BY <2>2, <2>3
<1>6. CASE TakeCont
  <2>1. /\ Head(queue) = Event("completed", "cont") /\ UNCHANGED <<rf, list, modem, shell, hitch>>
        /\ queue' = Append(Tail(queue), AllDone("cont"))
    BY <1>6 DEF TakeCont, Handles, Takes, users, bounds
  <2>2. "cont" \in ItemOps /\ AllDone("cont") \in Events
    BY EventType DEF ItemOps
  <2>3. ToSet(queue') = ToSet(Tail(queue)) \cup {AllDone("cont")}
    BY <1>3, <2>1, <2>2
  <2>4. (\A op : Counts(op)' <=> Counts(op)) /\ DoneEvents' = DoneEvents
    BY <2>1 DEF Counts, DoneEvents
  <2>5. Head(queue) \in DoneEvents => AllDone("cont") \in DoneEvents
    BY <2>1, <2>2, DoneFacts
  <2>6. OnTheWay => OnTheWay'
    BY <1>2, <2>1, <2>3, <2>4, <2>5 DEF OnTheWay
  <2>7. (Over => Over') /\ (Synching => Synching')
    <3>1. Head(queue) \notin {Event("cmd_done", ""), Event("pcc", "sync"), Event("completed", "sync")}
      BY <2>1, EventFacts
    <3> QED
      BY <1>2, <2>1, <2>3, <3>1 DEF Over, Synching
  <2> QED
    BY <1>0, <2>1, <2>6, <2>7, StillGoing
<1>7. CASE OtherDone
  <2>1. PICK op \in {"rx", "tx", "cont"} : Handles(AllDone(op)) /\ ~Counts(op)
    BY <1>7 DEF OtherDone
  <2>2. /\ Head(queue) = AllDone(op) /\ UNCHANGED <<rf, list, modem, shell, hitch>>
        /\ queue' = Tail(queue)
    BY <1>7, <2>1 DEF OtherDone, Handles, Takes, users, bounds
  <2>3. Head(queue) \notin DoneEvents
    BY <2>1, <2>2, DoneFacts DEF ItemOps
  <2>4. Head(queue) \notin {Event("cmd_done", ""), Event("pcc", "sync"), Event("completed", "sync")}
    BY <2>2, EventFacts DEF ItemOps
  <2>5. (\A o : Counts(o)' <=> Counts(o)) /\ DoneEvents' = DoneEvents
    BY <2>2 DEF Counts, DoneEvents
  <2>6. (OnTheWay => OnTheWay') /\ (Over => Over') /\ (Synching => Synching')
    BY <1>2, <2>2, <2>3, <2>4, <2>5 DEF OnTheWay, Over, Synching
  <2> QED
    BY <1>0, <2>2, <2>6, StillGoing
<1>8. CASE LastInterval
  <2>1. /\ queue' = Append(Tail(queue), Event("cmd_done", "")) /\ UNCHANGED shell
        /\ rf' = [rf EXCEPT !.count = Counted]
    BY <1>8 DEF LastInterval, users
  <2>2. Over'
    BY <1>3, <2>1, EventType DEF Over
  <2>3. rf'.on_going = rf.on_going /\ rf'.wait = rf.wait /\ (Waits(rf)' <=> Waits(rf))
    BY <1>0, <2>1 DEF TypeOK, Typed, Waits
  <2> QED
    BY <1>0, <2>1, <2>2, <2>3 DEF Going
<1>9. ASSUME NEW n \in 0 .. 2, TakePcc(n)
      PROVE  Going'
  <2>1. /\ Head(queue) = Event("pcc", "sync") /\ queue' = Tail(queue) /\ UNCHANGED <<modem, shell>>
    BY <1>9 DEF TakePcc, Handles, Takes, users
  <2>2. Head(queue) \notin DoneEvents /\ Head(queue) # Event("cmd_done", "")
    BY <2>1, DoneFacts, EventFacts
  <2>3. Over => Over'
    BY <1>2, <2>1, <2>2 DEF Over
  <2>4. CASE rf.wait
    <3>1. /\ Schedule(rf.mode, n) /\ rf' = [rf EXCEPT !.wait = FALSE]
          /\ hitch' = (hitch \/ n < Len(Operations(rf.mode)))
      BY <1>9, <2>4 DEF TakePcc
    <3>2. /\ rf'.on_going = rf.on_going /\ ~rf'.wait /\ rf'.mode = rf.mode
          /\ (Waits(rf)' <=> Waits(rf))
      BY <1>0, <3>1 DEF TypeOK, Typed, Waits
    <3>3. n <= Len(Operations(rf.mode)) /\ Len(Operations(rf.mode)) \in Nat
      BY <1>0, <3>1, OperationsType DEF Schedule
    <3>4. CASE n < Len(Operations(rf.mode))
      BY <1>0, <2>1, <3>1, <3>2, <3>4 DEF Going
    <3>5. CASE n = Len(Operations(rf.mode))
      <4> DEFINE p == Options(rf.mode, FALSE, FALSE)
      <4>1. p.mode = rf.mode /\ ~Waits(p)
        BY DEF Options, Waits
      <4>2. n = Whole(p)
        BY <3>5, <4>1 DEF Whole
      <4>3. Schedule(p.mode, n) /\ rf'.mode = p.mode
        BY <3>1, <3>2, <4>1
      <4> HIDE DEF p
      <4>4. \E item \in ToSet(list') : Counts(item.op)'
        BY <1>0, <3>2, <3>5, <4>1, <4>3, ScheduledCounts DEF TypeOK
      <4> QED
        BY <1>0, <2>1, <3>2, <4>4 DEF Going, OnTheWay
    <3> QED
      BY <3>3, <3>4, <3>5
  <2>5. CASE ~rf.wait
    <3>1. UNCHANGED <<rf, list, hitch>>
      BY <1>9, <2>5 DEF TakePcc
    <3>2. (\A o : Counts(o)' <=> Counts(o)) /\ DoneEvents' = DoneEvents
      BY <3>1 DEF Counts, DoneEvents
    <3>3. OnTheWay => OnTheWay'
      BY <1>2, <2>1, <2>2, <3>1, <3>2 DEF OnTheWay
    <3> QED
      BY <1>0, <2>1, <2>3, <2>5, <3>1, <3>3 DEF Going, Waits
  <2> QED
    BY <2>4, <2>5
<1>10. ASSUME NEW n \in 0 .. 2, Restart(n)
       PROVE  Going'
  <2>1. /\ queue' = Tail(queue) /\ Launch(rf, n, modem) /\ UNCHANGED shell
        /\ rf' = [rf EXCEPT !.count = Counted, !.wait = (Waits(rf) /\ n = 1)]
        /\ hitch' = (hitch \/ n < Whole(rf))
    BY <1>10 DEF Restart, users
  <2>2. /\ rf'.on_going = rf.on_going /\ (rf'.wait <=> Waits(rf) /\ n = 1) /\ rf'.mode = rf.mode
        /\ (Waits(rf)' <=> Waits(rf))
    BY <1>0, <2>1 DEF TypeOK, Typed, Waits
  <2>3. n <= Whole(rf) /\ Whole(rf) \in Nat /\ n \in Nat
    <3>1. n \in Nat
      OBVIOUS
    <3> QED
      BY <1>0, <2>1, <3>1, LaunchTakes
  <2>4. CASE n < Whole(rf)
    BY <1>0, <2>1, <2>2, <2>4 DEF Going
  <2>5. CASE n = Whole(rf)
    <3>1. IF Waits(rf) THEN "sync" \in ToSet(modem') ELSE \E item \in ToSet(list') : Counts(item.op)'
      BY <1>0, <2>1, <2>2, <2>3, <2>5, LaunchGoesOn DEF TypeOK
    <3>2. CASE Waits(rf)
      <4>1. rf'.wait /\ Synching'
        BY <2>2, <2>5, <3>1, <3>2 DEF Whole, Synching
      <4> QED
        BY <2>2, <3>2, <4>1 DEF Going
    <3>3. CASE ~Waits(rf)
      <4>1. OnTheWay'
        BY <3>1, <3>3 DEF OnTheWay
      <4> QED
        BY <1>0, <2>1, <2>2, <3>3, <4>1 DEF Going
    <3> QED
      BY <3>2, <3>3
  <2> QED
    BY <2>3, <2>4, <2>5
<1> QED
  BY <1>4, <1>5, <1>6, <1>7, <1>8, <1>9, <1>10 DEF ThreadRuns

LEMMA NoteGoing ==
  ASSUME GoInv, NoteWait
  PROVE  Going'
<1>0. TypeOK /\ Going /\ modem \in Seq(ModemOps)
  BY DEF GoInv, TypeOK
<1>1. /\ shell = "sync" /\ rf' = [rf EXCEPT !.wait = TRUE] /\ UNCHANGED modem
      /\ hitch' = (hitch \/ (~Contains(modem, "sync") /\ ~Contains(modem, "heard")))
  BY DEF NoteWait, Shell
<1>2. rf'.on_going = rf.on_going /\ rf'.wait /\ (Waits(rf)' <=> Waits(rf))
  BY <1>0, <1>1 DEF TypeOK, Typed, Waits
<1>3. /\ Contains(modem, "sync") <=> "sync" \in ToSet(modem)
      /\ Contains(modem, "heard") <=> "heard" \in ToSet(modem)
  BY <1>0, HoldsContains
<1>4. ~hitch' => Synching'
  BY <1>1, <1>3 DEF Synching
<1> QED
  BY <1>0, <1>1, <1>2, <1>4 DEF Going

LEMMA UserGoing ==
  ASSUME GoInv, User
  PROVE  Going'
<1>0. TypeOK /\ Going /\ list \in Seq(Items) /\ strays \in Seq(Items)
  BY DEF GoInv, TypeOK
<1>1. CASE Stop
  <2>1. queue' = Append(queue, Event("cmd_done", "")) /\ UNCHANGED <<rf, shell>>
    BY <1>1 DEF Stop
  <2>2. Over'
    <3>1. ToSet(Append(queue, Event("cmd_done", ""))) = ToSet(queue) \cup {Event("cmd_done", "")}
      <4>1. PICK e \in Events : e = Event("cmd_done", "")
        BY EventType
      <4>2. ToSet(Append(queue, e)) = ToSet(queue) \cup {e}
        BY <1>0, HoldsAppend DEF TypeOK
      <4> QED
        BY <4>1, <4>2
    <3> QED
      BY <2>1, <3>1 DEF Over
  <2> QED
    BY <1>0, <2>1, <2>2 DEF Going, Waits
<1>2. ASSUME NEW mode \in Modes, NEW sync \in BOOLEAN, NEW continuous \in BOOLEAN,
             NEW n \in 0 .. 2, Start(Options(mode, sync, continuous), n)
      PROVE  Going'
  <2>1. PICK p : p = Options(mode, sync, continuous)
    OBVIOUS
  <2>2. /\ p \in [on_going : BOOLEAN, mode : Modes, sync : BOOLEAN, continuous : BOOLEAN,
                  count : Nat, wait : BOOLEAN]
        /\ ~p.wait
    BY <2>1 DEF Options
  <2>3. Launch(p, n, <<>>) /\ n <= Whole(p) /\ Whole(p) \in Nat
    <3>1. n \in Nat /\ Launch(p, n, <<>>) /\ p.mode \in Modes
      BY <1>2, <2>1, <2>2 DEF Start
    <3> QED
      BY <3>1, LaunchTakes
  <2>4. /\ rf' = [p EXCEPT !.on_going = (n = Whole(p))]
        /\ shell' = IF Waits(p) /\ n = 1 THEN "sync" ELSE "idle"
    BY <1>2, <2>1 DEF Start
  <2>5. /\ rf'.on_going <=> n = Whole(p)
        /\ ~rf'.wait /\ rf'.mode = p.mode /\ (Waits(rf)' <=> Waits(p))
    BY <2>2, <2>4 DEF Waits
  <2>6. CASE n # Whole(p)
    BY <2>5, <2>6 DEF Going
  <2>7. CASE n = Whole(p) /\ Waits(p)
    <3>1. shell' = "sync"
      BY <2>4, <2>7 DEF Whole
    <3> QED
      BY <2>5, <2>7, <3>1 DEF Going
  <2>8. CASE n = Whole(p) /\ ~Waits(p)
    <3>1. \E item \in ToSet(list') : Counts(item.op)'
      <4>1. <<>> \in Seq(ModemOps) /\ n \in Nat /\ p.mode \in Modes
        BY <2>2
      <4> QED
        BY <1>0, <2>3, <2>5, <2>8, <4>1, LaunchGoesOn
    <3>2. shell' = "idle"
      BY <2>4, <2>8
    <3> QED
      BY <2>5, <3>1, <3>2 DEF Going, OnTheWay
  <2> QED
    BY <2>6, <2>7, <2>8
<1> QED
  BY <1>1, <1>2 DEF User

LEMMA SomePlace ==
  ASSUME NEW T, NEW s \in Seq(T), NEW D, D \subseteq DOMAIN s
  PROVE  Cardinality(D) \in Nat /\ (D # {} => Cardinality(D) >= 1)
<1>1. IsFiniteSet(D)
  BY LenProperties, FS_Interval, FS_Subset
<1> QED
  BY <1>1, FS_CardinalityType, FS_EmptySet

\* What the run goes on by is among its drivers.
LEMMA GoingDrives ==
  ASSUME TypeOK, rf.wait => Waits(rf), OnTheWay \/ (rf.wait /\ Synching)
  PROVE  Drivers >= 1
<1> DEFINE L == {i \in DOMAIN list : Counts(list[i].op)}
           S == {i \in DOMAIN strays : Counts(strays[i].op)}
           M == {i \in DOMAIN modem : Driver(modem[i])}
           Q == {i \in DOMAIN queue : DrivingEvent(queue[i])}
<1>1. /\ Cardinality(L) \in Nat /\ Cardinality(S) \in Nat /\ Cardinality(M) \in Nat
      /\ Cardinality(Q) \in Nat
      /\ (L # {} => Cardinality(L) >= 1) /\ (M # {} => Cardinality(M) >= 1)
      /\ (Q # {} => Cardinality(Q) >= 1)
  BY SomePlace DEF TypeOK
<1>2. Drivers = Cardinality(L) + Cardinality(S) + Cardinality(M) + Cardinality(Q)
  BY DEF Drivers
<1>3. L # {} \/ M # {} \/ Q # {}
  <2>1. CASE \E item \in ToSet(list) : Counts(item.op)
    BY <2>1 DEF ToSet
  <2>2. CASE \E op \in ToSet(modem) : Counts(op)
    BY <2>2 DEF ToSet, Driver
  <2>3. CASE ToSet(queue) \cap DoneEvents # {}
    <3>1. PICK i \in DOMAIN queue : queue[i] \in DoneEvents
      BY <2>3 DEF ToSet
    <3>2. DrivingEvent(queue[i])
      BY <3>1, DoneFacts, EventFacts DEF DrivingEvent, DoneEvents
    <3> QED
      BY <3>2
  <2>4. CASE rf.wait /\ Synching
    <3>1. Heard <=> Event("pcc", "sync") \in ToSet(queue)
      BY HoldsContains DEF Heard, TypeOK
    <3>2. CASE Event("pcc", "sync") \in ToSet(queue)
      <4>1. PICK i \in DOMAIN queue : queue[i] = Event("pcc", "sync")
        BY <3>2 DEF ToSet
      <4>2. DrivingEvent(queue[i])
        BY <2>4, <4>1, EventFacts DEF DrivingEvent
      <4> QED
        BY <4>2
    <3>3. CASE "sync" \in ToSet(modem)
      BY <2>4, <3>3 DEF ToSet, Driver
    <3>4. CASE "heard" \in ToSet(modem) /\ ~Heard
      BY <2>4, <3>4 DEF ToSet, Driver
    <3>5. CASE Event("completed", "sync") \in ToSet(queue) /\ ~Heard
      <4>1. PICK i \in DOMAIN queue : queue[i] = Event("completed", "sync")
        BY <3>5 DEF ToSet
      <4>2. DrivingEvent(queue[i])
        BY <2>4, <3>5, <4>1, EventFacts DEF DrivingEvent
      <4> QED
        BY <4>2
    <3> QED
      BY <2>4, <3>1, <3>2, <3>3, <3>4, <3>5 DEF Synching
  <2> QED
    BY <2>1, <2>2, <2>3, <2>4 DEF OnTheWay
<1> HIDE DEF L, S, M, Q
<1> QED
  BY <1>1, <1>2, <1>3

LEMMA GoingInitially == RfInit => GoInv
<1> SUFFICES ASSUME RfInit PROVE GoInv
  OBVIOUS
<1>1. ~rf.on_going
  BY DEF RfInit, NoRun, Options
<1> QED
  BY <1>1, InitTypes, LendInitially DEF GoInv, Going

LEMMA GoingStays ==
  ASSUME GoInv, [RfNext]_vars
  PROVE  GoInv'
<1>1. TypeOK' /\ LendInv' /\ TypeOK /\ Going
  BY NextTypes DEF GoInv
<1>2. CASE TakeDone
  <2>1. ~rf'.on_going
    BY <1>2 DEF TakeDone, NoRun, Options
  <2> QED
    BY <1>1, <2>1 DEF GoInv, Going
<1>3. CASE UNCHANGED vars
  BY <1>1, <1>3 DEF vars, users, bounds, GoInv, Going, Waits, Over, OnTheWay, Synching, Counts,
                    DoneEvents
<1>4. CASE ThreadRuns
  BY <1>1, <1>4, ThreadGoing DEF GoInv
<1>5. CASE SchedulerRuns \/ ModemRuns \/ NoteWait \/ User
  <2>1. Going'
    BY <1>5, SchedulerGoing, ModemGoing, NoteGoing, UserGoing
  <2> QED
    BY <1>1, <2>1 DEF GoInv
<1> QED
  BY <1>2, <1>3, <1>4, <1>5 DEF RfNext

\* A run that is on going has what drives it, unless it is about to end or met what the
\* code leaves unchecked: for any number of frames, intervals, commands and failures.
THEOREM RunsAreDriven == RfSpec => []Driven
<1>1. GoInv => Driven
  BY OverIsEnding, GoingDrives DEF GoInv, Going, Driven
<1> QED
  BY <1>1, GoingInitially, GoingStays, PTL DEF RfSpec

--------------------------------------------------------------------------------
(* The order of events.                                                    *)

\* Nothing of B comes after something of A.
NoneAfter(s, A, B) == \A i, j \in DOMAIN s : i < j /\ s[i] \in A => s[j] \notin B

LEMMA NoneAfterTail ==
  ASSUME NEW T, NEW s \in Seq(T), s # <<>>, NEW A, NEW B, NoneAfter(s, A, B)
  PROVE  /\ NoneAfter(Tail(s), A, B)
         /\ Head(s) \in A => ToSet(Tail(s)) \cap B = {}
<1>1. /\ Len(s) \in Nat \ {0} /\ Head(s) = s[1] /\ DOMAIN s = 1 .. Len(s)
  BY EmptySeq, LenProperties, HeadTailProperties
<1>2. /\ Tail(s) \in Seq(T) /\ Len(Tail(s)) = Len(s) - 1
      /\ \A i \in 1 .. Len(s) - 1 : Tail(s)[i] = s[i + 1]
  BY HeadTailProperties
<1>3. DOMAIN Tail(s) = 1 .. Len(s) - 1
  BY <1>2, LenProperties
<1>4. ASSUME NEW i \in DOMAIN Tail(s)
      PROVE  i + 1 \in DOMAIN s /\ Tail(s)[i] = s[i + 1] /\ 1 < i + 1 /\ 1 \in DOMAIN s
  BY <1>1, <1>2, <1>3
<1>5. NoneAfter(Tail(s), A, B)
  <2> SUFFICES ASSUME NEW i \in DOMAIN Tail(s), NEW j \in DOMAIN Tail(s), i < j, Tail(s)[i] \in A
               PROVE  Tail(s)[j] \notin B
    BY DEF NoneAfter
  <2>1. i + 1 \in DOMAIN s /\ j + 1 \in DOMAIN s /\ s[i + 1] \in A /\ Tail(s)[j] = s[j + 1]
    BY <1>4
  <2>2. i + 1 < j + 1
    BY <1>1, <1>3
  <2> QED
    BY <2>1, <2>2 DEF NoneAfter
<1>6. Head(s) \in A => ToSet(Tail(s)) \cap B = {}
  BY <1>1, <1>4 DEF NoneAfter, ToSet
<1> QED
  BY <1>5, <1>6

LEMMA NoneAfterAppend ==
  ASSUME NEW T, NEW s \in Seq(T), NEW e \in T, NEW A, NEW B, NoneAfter(s, A, B),
         e \in B => ToSet(s) \cap A = {}
  PROVE  NoneAfter(Append(s, e), A, B)
<1> DEFINE t == Append(s, e)
<1>1. /\ Len(s) \in Nat /\ DOMAIN s = 1 .. Len(s) /\ t \in Seq(T) /\ Len(t) = Len(s) + 1
      /\ \A i \in 1 .. Len(s) : t[i] = s[i]
      /\ t[Len(s) + 1] = e
  BY LenProperties, AppendProperties
<1>2. DOMAIN t = 1 .. Len(s) + 1
  BY <1>1, LenProperties
<1> HIDE DEF t
<1> SUFFICES ASSUME NEW i \in DOMAIN t, NEW j \in DOMAIN t, i < j, t[i] \in A
             PROVE  t[j] \notin B
  BY DEF NoneAfter, t
<1>3. i \in DOMAIN s /\ t[i] = s[i]
  BY <1>1, <1>2
<1>4. CASE j = Len(s) + 1
  <2>1. ToSet(s) \cap A # {}
    BY <1>3 DEF ToSet
  <2> QED
    BY <1>1, <1>4, <2>1
<1>5. CASE j \in DOMAIN s
  BY <1>1, <1>3, <1>5 DEF NoneAfter
<1> QED
  BY <1>1, <1>2, <1>4, <1>5

\* An e comes, and only things of I before it.
Reaches(s, e, I) == \E k \in DOMAIN s : s[k] = e /\ \A i \in 1 .. k - 1 : s[i] \in I

LEMMA ReachesConcat ==
  ASSUME NEW T, NEW s \in Seq(T), NEW more \in Seq(T), NEW e, NEW I, Reaches(s, e, I)
  PROVE  Reaches(s \o more, e, I)
<1> DEFINE t == s \o more
<1>1. /\ Len(s) \in Nat /\ Len(more) \in Nat /\ DOMAIN s = 1 .. Len(s)
      /\ t \in Seq(T) /\ Len(t) = Len(s) + Len(more)
      /\ \A i \in 1 .. Len(s) : t[i] = s[i]
  BY LenProperties, ConcatProperties
<1>2. DOMAIN t = 1 .. Len(s) + Len(more)
  BY <1>1, LenProperties
<1> HIDE DEF t
<1>3. PICK k \in DOMAIN s : s[k] = e /\ \A i \in 1 .. k - 1 : s[i] \in I
  BY DEF Reaches
<1>4. k \in DOMAIN t /\ t[k] = e
  BY <1>1, <1>2, <1>3
<1>5. \A i \in 1 .. k - 1 : t[i] \in I
  BY <1>1, <1>3
<1> QED
  BY <1>4, <1>5 DEF Reaches, t

LEMMA ReachesAppend ==
  ASSUME NEW T, NEW s \in Seq(T), NEW f \in T, NEW e, NEW I, Reaches(s, e, I)
  PROVE  Reaches(Append(s, f), e, I)
<1>1. Append(s, f) = s \o <<f>> /\ <<f>> \in Seq(T)
  BY AppendIsConcat
<1> QED
  BY <1>1, ReachesConcat

LEMMA ReachesTail ==
  ASSUME NEW T, NEW s \in Seq(T), s # <<>>, NEW e, NEW I, Reaches(s, e, I), Head(s) # e
  PROVE  Head(s) \in I /\ Reaches(Tail(s), e, I)
<1>1. /\ Len(s) \in Nat \ {0} /\ Head(s) = s[1] /\ DOMAIN s = 1 .. Len(s)
  BY EmptySeq, LenProperties, HeadTailProperties
<1>2. /\ Tail(s) \in Seq(T) /\ Len(Tail(s)) = Len(s) - 1
      /\ \A i \in 1 .. Len(s) - 1 : Tail(s)[i] = s[i + 1]
  BY HeadTailProperties
<1>3. DOMAIN Tail(s) = 1 .. Len(s) - 1
  BY <1>2, LenProperties
<1>4. PICK k \in DOMAIN s : s[k] = e /\ \A i \in 1 .. k - 1 : s[i] \in I
  BY DEF Reaches
<1>5. k # 1 /\ k \in 1 .. Len(s)
  BY <1>1, <1>4
<1>6. 1 \in 1 .. k - 1 /\ k - 1 \in 1 .. Len(s) - 1 /\ (k - 1) + 1 = k
  BY <1>1, <1>5
<1>7. Head(s) \in I
  BY <1>1, <1>4, <1>6
<1>8. k - 1 \in DOMAIN Tail(s) /\ Tail(s)[k - 1] = e
  BY <1>2, <1>3, <1>4, <1>6
<1>9. ASSUME NEW i \in 1 .. k - 1 - 1
      PROVE  Tail(s)[i] \in I
  <2>1. i + 1 \in 1 .. k - 1 /\ i \in 1 .. Len(s) - 1
    BY <1>1, <1>5
  <2> QED
    BY <1>2, <1>4, <2>1
<1> QED
  BY <1>7, <1>8, <1>9 DEF Reaches

LEMMA ReachesLast ==
  ASSUME NEW T, NEW s \in Seq(T), NEW e \in T, NEW I, ToSet(s) \subseteq I
  PROVE  Reaches(Append(s, e), e, I)
<1> DEFINE t == Append(s, e)
<1>1. /\ Len(s) \in Nat /\ DOMAIN s = 1 .. Len(s) /\ t \in Seq(T) /\ Len(t) = Len(s) + 1
      /\ \A i \in 1 .. Len(s) : t[i] = s[i]
      /\ t[Len(s) + 1] = e
  BY LenProperties, AppendProperties
<1>2. DOMAIN t = 1 .. Len(s) + 1
  BY <1>1, LenProperties
<1> HIDE DEF t
<1>3. \A i \in 1 .. Len(s) : t[i] \in I
  BY <1>1 DEF ToSet
<1>4. Len(s) + 1 \in DOMAIN t /\ (Len(s) + 1) - 1 = Len(s)
  BY <1>1, <1>2
<1> QED
  BY <1>1, <1>3, <1>4 DEF Reaches, t

\* Something reached is there.
LEMMA ReachesHas == ASSUME NEW s, NEW e, NEW I, Reaches(s, e, I) PROVE e \in ToSet(s)
BY DEF Reaches, ToSet

--------------------------------------------------------------------------------
(* One thing decides how a run goes on that shares the list with nothing.  *)

CountedItems == {item \in Items : Counts(item.op)}
CountedOps == {op \in ModemOps : Counts(op)}
CmdDone == Event("cmd_done", "")
Synced == Event("completed", "sync")
Header == Event("pcc", "sync")

\* How many operations that count are listed, with the modem, or just over; how many
\* RXs to synchronise there are; and headers.
OnWay == Number(list, CountedItems) + Number(modem, CountedOps) + Number(queue, DoneEvents)
Radio == Number(modem, {"sync", "heard"}) + Number(queue, {Synced})
Headers == Number(queue, {Header})

\* What the thread takes without doing anything to the run.
InertEvents == {e \in Events : e \notin DoneEvents /\ (e \in {Header, Synced} => ~rf.wait)}

\* RX and TX of a frame take turns.
TakesTurns ==
  \/ Len(list) <= 1
  \/ /\ Len(list) = 2 /\ rf.mode = "rx_tx"
     /\ \/ list[1].op = "rx" /\ list[2].op = "tx" /\ list[1].left = list[2].left
        \/ list[1].op = "tx" /\ list[2].op = "rx" /\ list[1].left = list[2].left + 1

Sorted ==
  /\ NoneAfter(queue, DoneEvents, {Header, Synced})
  /\ NoneAfter(queue, {Synced}, {Header})

OnTheMove == Number(modem, CountedOps) + Number(queue, DoneEvents) > 0

\* A run in the middle.
Steady ==
  /\ OnWay <= 1 /\ Radio <= 1 /\ Headers <= 1
  /\ shell = "sync" => ~rf.wait
  /\ rf.wait \/ shell = "sync" \/ "sync" \in ToSet(modem) => list = <<>> /\ OnWay = 0
  /\ "sync" \in ToSet(modem) => Headers = 0
  /\ OnTheMove => list = <<>> /\ Number(modem, {"sync", "heard"}) = 0
  /\ Sorted /\ TakesTurns

\* One that is about to end, or in the middle.
Single ==
  rf.on_going /\ ~astray =>
    /\ strays = <<>>
    /\ IF Over THEN Reaches(queue, CmdDone, InertEvents) ELSE Steady

OneInv == GoInv /\ Single

LEMMA Counters ==
  ASSUME TypeOK
  PROVE  /\ Number(list, CountedItems) \in Nat /\ Number(modem, CountedOps) \in Nat
         /\ Number(queue, DoneEvents) \in Nat /\ Number(modem, {"sync", "heard"}) \in Nat
         /\ Number(queue, {Synced}) \in Nat /\ Number(queue, {Header}) \in Nat
         /\ OnWay \in Nat /\ Radio \in Nat /\ Headers \in Nat
         /\ Headers = 0 <=> Header \notin ToSet(queue)
         /\ Number(queue, {Synced}) = 0 <=> Synced \notin ToSet(queue)
         /\ Number(queue, DoneEvents) = 0 <=> ToSet(queue) \cap DoneEvents = {}
         /\ Number(modem, {"sync", "heard"}) = 0 <=> {"sync", "heard"} \cap ToSet(modem) = {}
<1>1. /\ list \in Seq(Items) /\ modem \in Seq(ModemOps) /\ queue \in Seq(Events)
  BY DEF TypeOK
<1>2. /\ Number(list, CountedItems) \in Nat /\ Number(modem, CountedOps) \in Nat
      /\ Number(queue, DoneEvents) \in Nat /\ Number(modem, {"sync", "heard"}) \in Nat
      /\ Number(queue, {Synced}) \in Nat /\ Number(queue, {Header}) \in Nat
  BY <1>1, NumberNone
<1>3. Number(queue, {Header}) = 0 <=> ToSet(queue) \cap {Header} = {}
  BY <1>1, NumberNone
<1>4. Number(queue, {Synced}) = 0 <=> ToSet(queue) \cap {Synced} = {}
  BY <1>1, NumberNone
<1>5. Number(queue, DoneEvents) = 0 <=> ToSet(queue) \cap DoneEvents = {}
  BY <1>1, NumberNone
<1>6. Number(modem, {"sync", "heard"}) = 0 <=> ToSet(modem) \cap {"sync", "heard"} = {}
  BY <1>1, NumberNone
<1> QED
  BY <1>2, <1>3, <1>4, <1>5, <1>6 DEF OnWay, Radio, Headers

LEMMA PlacesBound ==
  ASSUME NEW T, NEW s \in Seq(T), NEW S, NEW D, D \subseteq PlacesOf(s, S)
  PROVE  Cardinality(D) \in Nat /\ Cardinality(D) <= Number(s, S)
<1>1. IsFiniteSet(PlacesOf(s, S))
  BY NumberType
<1>2. IsFiniteSet(D) /\ Cardinality(D) <= Cardinality(PlacesOf(s, S))
  BY <1>1, FS_Subset
<1> QED
  BY <1>2, FS_CardinalityType DEF Number

\* What drives a run in the middle is one thing.
LEMMA SteadyDrives ==
  ASSUME TypeOK, Steady, strays = <<>>, shell = "idle"
  PROVE  Drivers <= 1
<1> DEFINE L == {i \in DOMAIN list : Counts(list[i].op)}
           S == {i \in DOMAIN strays : Counts(strays[i].op)}
           M == {i \in DOMAIN modem : Driver(modem[i])}
           Q == {i \in DOMAIN queue : DrivingEvent(queue[i])}
           nl == Number(list, CountedItems)  nm == Number(modem, CountedOps)
           nq == Number(queue, DoneEvents)  ns == Number(modem, {"sync", "heard"})
           nc == Number(queue, {Synced})  nh == Number(queue, {Header})
<1>1. /\ list \in Seq(Items) /\ modem \in Seq(ModemOps) /\ queue \in Seq(Events)
      /\ \A i \in DOMAIN list : list[i] \in Items
      /\ \A i \in DOMAIN modem : modem[i] \in ModemOps
      /\ \A i \in DOMAIN queue : queue[i] \in Events
  <2>1. list \in Seq(Items) /\ modem \in Seq(ModemOps) /\ queue \in Seq(Events)
    BY DEF TypeOK
  <2> QED
    BY <2>1, LenProperties, ElementOfSeq
<1>2. /\ nl \in Nat /\ nm \in Nat /\ nq \in Nat /\ ns \in Nat /\ nc \in Nat /\ nh \in Nat
      /\ nl + nm + nq <= 1 /\ ns + nc <= 1 /\ nh <= 1
      /\ nh = 0 <=> Header \notin ToSet(queue)
  BY Counters DEF Steady, OnWay, Radio, Headers
<1>3. S = {} /\ Cardinality(S) = 0
  BY FS_EmptySet
<1>4. L \subseteq PlacesOf(list, CountedItems)
  BY <1>1 DEF PlacesOf, CountedItems
<1>5. \A e \in Events : DrivingEvent(e) =>
        e \in DoneEvents \/ (rf.wait /\ e = Header) \/ (rf.wait /\ e = Synced /\ ~Heard)
  <2> SUFFICES ASSUME NEW e \in Events, DrivingEvent(e), e \notin DoneEvents
               PROVE  (rf.wait /\ e = Header) \/ (rf.wait /\ e = Synced /\ ~Heard)
    OBVIOUS
  <2>1. CASE e = Header
    BY <2>1, EventFacts DEF DrivingEvent, Header
  <2>2. CASE e = Synced
    BY <2>2, EventFacts DEF DrivingEvent, Synced
  <2>3. CASE e = CmdDone
    BY <2>3, EventFacts DEF DrivingEvent, CmdDone, Synced
  <2>4. CASE e = Event("completed", "cont")
    <3>1. Counts("cont")
      BY <2>4, EventFacts DEF DrivingEvent
    <3> QED
      BY <2>4, <3>1, DoneFacts
  <2>5. CASE \E op \in ItemOps : e = AllDone(op)
    <3>1. PICK op \in ItemOps : e = AllDone(op)
      BY <2>5
    <3>2. e.id = "all_done" /\ e.op = op
      BY <3>1, EventFacts
    <3>3. e # Event("completed", "sync")
      BY <3>2, EventFacts
    <3>4. Counts(e.op)
      BY <3>2, <3>3 DEF DrivingEvent
    <3> QED
      BY <3>1, <3>2, <3>4, DoneFacts
  <2> QED
    BY <2>1, <2>2, <2>3, <2>4, <2>5 DEF Events, Header, Synced, CmdDone
<1>6. \A op \in ModemOps : Driver(op) => op \in CountedOps \/ op = "sync" \/ (op = "heard" /\ rf.wait /\ ~Heard)
  BY DEF Driver, CountedOps
<1>7. Heard <=> Header \in ToSet(queue)
  BY <1>1, HoldsContains DEF Heard, Header
<1>8. Drivers = Cardinality(L) + Cardinality(S) + Cardinality(M) + Cardinality(Q)
  BY DEF Drivers
<1>9. Cardinality(L) \in Nat /\ Cardinality(L) <= nl
  BY <1>1, <1>4, PlacesBound
<1>10. CASE ~rf.wait /\ "sync" \notin ToSet(modem)
  <2>1. M \subseteq PlacesOf(modem, CountedOps)
    BY <1>1, <1>6, <1>10 DEF PlacesOf, ToSet
  <2>2. Q \subseteq PlacesOf(queue, DoneEvents)
    BY <1>1, <1>5, <1>10 DEF PlacesOf
  <2>3. Cardinality(M) \in Nat /\ Cardinality(M) <= nm
    BY <1>1, <2>1, PlacesBound
  <2>4. Cardinality(Q) \in Nat /\ Cardinality(Q) <= nq
    BY <1>1, <2>2, PlacesBound
  <2> HIDE DEF L, S, M, Q, nl, nm, nq, ns, nc, nh
  <2> QED
    BY <1>2, <1>3, <1>8, <1>9, <2>3, <2>4
<1>11. CASE rf.wait \/ "sync" \in ToSet(modem)
  <2>1. list = <<>> /\ OnWay = 0
    BY <1>11 DEF Steady
  <2>2. nl = 0 /\ nm = 0 /\ nq = 0
    <3>1. OnWay = nl + nm + nq
      BY DEF OnWay
    <3> HIDE DEF nl, nm, nq
    <3> QED
      BY <1>2, <2>1, <3>1
  <2>3. /\ \A i \in DOMAIN modem : modem[i] \notin CountedOps
        /\ \A i \in DOMAIN queue : queue[i] \notin DoneEvents
    <3>1. nm = 0 <=> \A i \in DOMAIN modem : modem[i] \notin CountedOps
      BY <1>1, NumberType
    <3>2. nq = 0 <=> \A i \in DOMAIN queue : queue[i] \notin DoneEvents
      BY <1>1, NumberType
    <3> QED
      BY <2>2, <3>1, <3>2
  <2>4. CASE Heard
    <3>1. "sync" \notin ToSet(modem)
      BY <1>7, <2>4, Counters DEF Steady
    <3>2. M = {}
      BY <1>1, <1>6, <2>3, <2>4, <3>1 DEF ToSet
    <3>3. Q \subseteq PlacesOf(queue, {Header})
      BY <1>1, <1>5, <2>3, <2>4 DEF PlacesOf
    <3>4. Cardinality(Q) \in Nat /\ Cardinality(Q) <= nh
      BY <1>1, <3>3, PlacesBound
    <3>5. Cardinality(M) = 0
      BY <3>2, FS_EmptySet
    <3> HIDE DEF L, S, M, Q, nl, nm, nq, ns, nc, nh
    <3> QED
      BY <1>2, <1>3, <1>8, <1>9, <2>2, <3>4, <3>5
  <2>5. CASE ~Heard
    <3>1. Header \notin ToSet(queue)
      BY <1>7, <2>5
    <3>2. M \subseteq PlacesOf(modem, {"sync", "heard"})
      BY <1>1, <1>6, <2>3 DEF PlacesOf
    <3>3. Q \subseteq PlacesOf(queue, {Synced})
      BY <1>1, <1>5, <2>3, <3>1 DEF PlacesOf, ToSet
    <3>4. Cardinality(M) \in Nat /\ Cardinality(M) <= ns
      BY <1>1, <3>2, PlacesBound
    <3>5. Cardinality(Q) \in Nat /\ Cardinality(Q) <= nc
      BY <1>1, <3>3, PlacesBound
    <3> HIDE DEF L, S, M, Q, nl, nm, nq, ns, nc, nh
    <3> QED
      BY <1>2, <1>3, <1>8, <1>9, <2>2, <3>4, <3>5
  <2> QED
    BY <2>4, <2>5
<1> QED
  BY <1>10, <1>11

--------------------------------------------------------------------------------
(* The scheduler.                                                          *)

\* Only what the scheduler and the modem hold changes.
LEMMA SetsKept ==
  ASSUME UNCHANGED rf
  PROVE  /\ CountedItems' = CountedItems /\ CountedOps' = CountedOps /\ DoneEvents' = DoneEvents
         /\ InertEvents' = InertEvents
BY DEF CountedItems, CountedOps, DoneEvents, InertEvents, Counts

LEMMA NumberOther ==
  ASSUME NEW T, NEW s \in Seq(T), NEW e \in T, NEW S, e \notin S
  PROVE  Number(Append(s, e), S) = Number(s, S)
<1>1. Number(Append(s, e), S) = Number(s, S) + IF e \in S THEN 1 ELSE 0
  BY NumberAppend
<1>2. Number(s, S) \in Nat
  BY NumberType
<1> QED
  BY <1>1, <1>2

LEMMA OneLess ==
  ASSUME NEW item \in Items, item.left > 1
  PROVE  \E again \in Items : /\ again = [item EXCEPT !.left = @ - 1]
                              /\ again.op = item.op /\ again.left = item.left - 1
<1> DEFINE again == [item EXCEPT !.left = @ - 1]
<1>1. item.left \in Nat \ {0} /\ item.op \in ItemOps
  BY DEF Items
<1>2. item.left - 1 \in Nat \ {0}
  BY <1>1
<1>3. again \in Items /\ again.op = item.op /\ again.left = item.left - 1
  BY <1>2 DEF Items
<1> QED
  BY <1>3

\* A turn of a run in the middle.
LEMMA OwnTurnSteady ==
  ASSUME TypeOK, TypeOK', NEW outcome, OwnTurn(outcome), Steady, strays = <<>>, rf.on_going, ~astray'
  PROVE  Steady'
<1>0. list \in Seq(Items) /\ list # <<>> /\ modem \in Seq(ModemOps) /\ queue \in Seq(Events)
  BY DEF TypeOK, OwnTurn
<1> PICK item \in Items : item = Head(list)
  BY <1>0, HoldsTail
<1>1. /\ outcome \in Outcomes(item) /\ Turn(item, outcome)
      /\ list' = Tail(list) \o Again(item, outcome) /\ UNCHANGED <<rf, shell>>
      /\ ~(outcome = "concluded" /\ Len(list) > 1)
  BY DEF OwnTurn, Turn, users
<1> DEFINE b == IF item \in CountedItems THEN 1 ELSE 0
           nl == Number(Tail(list), CountedItems)  nm == Number(modem, CountedOps)
           nq == Number(queue, DoneEvents)
<1>2. /\ Tail(list) \in Seq(Items) /\ Number(list, CountedItems) = nl + b
      /\ nl \in Nat /\ nm \in Nat /\ nq \in Nat /\ b \in {0, 1}
  BY <1>0, HoldsTail, NumberTail, NumberNone
<1>3. /\ OnWay = nl + b + nm + nq /\ OnWay <= 1
      /\ "sync" \notin ToSet(modem) /\ ~rf.wait /\ shell # "sync" /\ nm + nq = 0
  <2>1. OnWay = nl + b + nm + nq
    BY <1>2 DEF OnWay
  <2> QED
    BY <1>0, <1>2, <2>1, Counters DEF Steady, OnTheMove
<1>4. "heard" \notin ToSet(modem)
  BY <1>0, <1>1, HoldsContains DEF Turn
<1>5. /\ item.op \in ItemOps /\ item.op \in ModemOps /\ item.left \in Nat \ {0}
      /\ AllDone(item.op) \in Events
      /\ item \in CountedItems <=> Counts(item.op)
  BY EventType DEF Items, ModemOps, CountedItems
<1>6. /\ item.op \in CountedOps <=> item \in CountedItems
      /\ AllDone(item.op) \in DoneEvents <=> item \in CountedItems
      /\ item.op \notin {"sync", "heard"} /\ AllDone(item.op) \notin {Header, Synced, CmdDone}
  BY <1>5, DoneFacts, EventFacts DEF CountedOps, ItemOps, Header, Synced, CmdDone
<1>7. /\ CountedItems' = CountedItems /\ CountedOps' = CountedOps /\ DoneEvents' = DoneEvents
  BY <1>1, SetsKept
\* The places of the item.
<1>8. \/ /\ list' = Append(Tail(list), [item EXCEPT !.left = @ - 1]) /\ item.left > 1
         /\ UNCHANGED <<modem, queue>> /\ outcome # "concluded"
      \/ /\ list' = Tail(list) /\ modem' = Append(modem, item.op) /\ UNCHANGED queue
         /\ item.left = 1 \/ outcome = "concluded"
      \/ /\ list' = Tail(list) /\ queue' = Append(queue, AllDone(item.op)) /\ UNCHANGED modem
         /\ item.left = 1 \/ outcome = "concluded"
      \/ /\ list' = Tail(list) /\ UNCHANGED <<modem, queue>>
  <2>1. outcome \in {"sent", "failed"} \/ (item.left > 1 /\ outcome \in {"concluded", "dropped"})
    BY <1>1 DEF Outcomes
  <2>2. CASE item.left > 1 /\ outcome \in {"sent", "failed"}
    <3>1. PICK again \in Items : again = [item EXCEPT !.left = @ - 1]
      BY <2>2, OneLess
    <3>2. Again(item, outcome) = <<again>>
      BY <2>2, <3>1 DEF Again
    <3>3. Append(Tail(list), again) = Tail(list) \o <<again>>
      BY <1>2, AppendIsConcat
    <3>4. UNCHANGED <<modem, queue>>
      BY <1>1, <1>5, <2>2 DEF Turn
    <3> QED
      BY <1>1, <2>2, <3>1, <3>2, <3>3, <3>4
  <2>3. CASE ~(item.left > 1 /\ outcome \in {"sent", "failed"})
    <3>1. Tail(list) \o Again(item, outcome) = Tail(list)
      BY <1>2, <2>3 DEF Again
    <3>2. list' = Tail(list)
      BY <1>1, <3>1
    <3> QED
      BY <1>1, <1>5, <2>1, <2>3, <3>2 DEF Turn
  <2> QED
    BY <2>2, <2>3
<1>9. /\ Number(list', CountedItems) \in Nat /\ Number(modem', CountedOps) \in Nat
      /\ Number(queue', DoneEvents) \in Nat
      /\ Number(list', CountedItems) + Number(modem', CountedOps) + Number(queue', DoneEvents)
           <= nl + b + nm + nq
      /\ Number(modem', CountedOps) + Number(queue', DoneEvents) > nm + nq =>
           list' = Tail(list) /\ b = 1 /\ (item.left = 1 \/ outcome = "concluded")
  <2>1. CASE /\ list' = Append(Tail(list), [item EXCEPT !.left = @ - 1]) /\ item.left > 1
             /\ UNCHANGED <<modem, queue>>
    <3>1. PICK again \in Items : again = [item EXCEPT !.left = @ - 1] /\ again.op = item.op
      BY <2>1, OneLess
    <3>2. again \in CountedItems <=> item \in CountedItems
      BY <3>1 DEF CountedItems
    <3>3. Number(Append(Tail(list), again), CountedItems)
            = Number(Tail(list), CountedItems) + IF again \in CountedItems THEN 1 ELSE 0
      <4>1. PICK rest \in Seq(Items) : rest = Tail(list)
        BY <1>2
      <4>2. Number(Append(rest, again), CountedItems)
              = Number(rest, CountedItems) + IF again \in CountedItems THEN 1 ELSE 0
        BY NumberAppend
      <4> QED
        BY <4>1, <4>2
    <3>4. Number(list', CountedItems) = nl + b
      BY <2>1, <3>1, <3>2, <3>3
    <3> HIDE DEF b, nl
    <3> QED
      BY <1>2, <2>1, <3>4
  <2>2. CASE /\ list' = Tail(list) /\ modem' = Append(modem, item.op) /\ UNCHANGED queue
             /\ item.left = 1 \/ outcome = "concluded"
    <3>1. Number(modem', CountedOps) = nm + IF item.op \in CountedOps THEN 1 ELSE 0
      BY <1>0, <1>5, <2>2, NumberAppend
    <3>2. Number(modem', CountedOps) = nm + b
      BY <1>6, <3>1
    <3> HIDE DEF b
    <3> QED
      BY <1>2, <2>2, <3>2
  <2>3. CASE /\ list' = Tail(list) /\ queue' = Append(queue, AllDone(item.op)) /\ UNCHANGED modem
             /\ item.left = 1 \/ outcome = "concluded"
    <3>1. Number(queue', DoneEvents) = nq + IF AllDone(item.op) \in DoneEvents THEN 1 ELSE 0
      BY <1>0, <1>5, <2>3, NumberAppend
    <3>2. Number(queue', DoneEvents) = nq + b
      BY <1>6, <3>1
    <3> HIDE DEF b
    <3> QED
      BY <1>2, <2>3, <3>2
  <2>4. CASE list' = Tail(list) /\ UNCHANGED <<modem, queue>>
    BY <1>2, <2>4
  <2> QED
    BY <1>8, <2>1, <2>2, <2>3, <2>4
<1>10. OnWay' <= 1
  <2>1. OnWay' = Number(list', CountedItems) + Number(modem', CountedOps) + Number(queue', DoneEvents)
    BY <1>7 DEF OnWay
  <2> HIDE DEF b, nl, nm, nq
  <2> QED
    BY <1>2, <1>3, <1>9, <2>1
<1>11. /\ Number(modem', {"sync", "heard"}) = Number(modem, {"sync", "heard"})
       /\ Number(queue', {Synced}) = Number(queue, {Synced})
       /\ Number(queue', {Header}) = Number(queue, {Header})
  <2>1. modem' = modem \/ modem' = Append(modem, item.op)
    BY <1>8
  <2>2. queue' = queue \/ queue' = Append(queue, AllDone(item.op))
    BY <1>8
  <2>3. Number(Append(modem, item.op), {"sync", "heard"}) = Number(modem, {"sync", "heard"})
    BY <1>0, <1>5, <1>6, NumberOther
  <2>4. \A S : AllDone(item.op) \notin S => Number(Append(queue, AllDone(item.op)), S) = Number(queue, S)
    BY <1>0, <1>5, NumberOther
  <2>5. AllDone(item.op) \notin {Synced} /\ AllDone(item.op) \notin {Header}
    BY <1>6
  <2> QED
    BY <2>1, <2>2, <2>3, <2>4, <2>5
<1>12. Radio' = Radio /\ Headers' = Headers
  BY <1>11 DEF Radio, Headers
<1>13. Number(modem, {"sync", "heard"}) = 0 /\ "sync" \notin ToSet(modem')
  <2>1. Number(modem, {"sync", "heard"}) = 0
    BY <1>3, <1>4, Counters
  <2>2. ToSet(Append(modem, item.op)) = ToSet(modem) \cup {item.op}
    BY <1>0, <1>5, HoldsAppend
  <2> QED
    BY <1>3, <1>6, <1>8, <2>1, <2>2
<1>14. Sorted'
  <2>1. queue' = queue \/ queue' = Append(queue, AllDone(item.op))
    BY <1>8
  <2>2. NoneAfter(queue, DoneEvents, {Header, Synced}) /\ NoneAfter(queue, {Synced}, {Header})
    BY DEF Steady, Sorted
  <2>3. /\ NoneAfter(Append(queue, AllDone(item.op)), DoneEvents, {Header, Synced})
        /\ NoneAfter(Append(queue, AllDone(item.op)), {Synced}, {Header})
    BY <1>0, <1>5, <1>6, <2>2, NoneAfterAppend
  <2> QED
    BY <1>7, <2>1, <2>2, <2>3 DEF Sorted, NoneAfter
\* The shape of the list.
<1>19. TakesTurns /\ (Len(list) <= 1 \/ Len(list) = 2)
  <2>1. TakesTurns
    BY DEF Steady
  <2>2. Len(list) <= 1 \/ Len(list) = 2
    BY <2>1, Zenon DEF TakesTurns
  <2> QED
    BY <2>1, <2>2
<1>20. Len(list') <= 1 => TakesTurns'
  BY Zenon DEF TakesTurns
<1>15. /\ Len(list) \in Nat /\ Len(Tail(list)) = Len(list) - 1 /\ list[1] = item /\ Len(list) >= 1
       /\ \A i \in 1 .. Len(list) - 1 : Tail(list)[i] = list[i + 1]
  <2>1. Len(list) \in Nat /\ Len(list) # 0
    BY <1>0, LenProperties, EmptySeq
  <2> QED
    BY <1>0, <2>1, HeadTailProperties
<1>21. Len(list) = 1 \/ Len(list) = 2
  <2>1. \A n \in Nat : n >= 1 /\ n <= 1 => n = 1
    OBVIOUS
  <2>2. Len(list) <= 1 => Len(list) = 1
    BY <1>15, <2>1
  <2> QED
    BY <1>19, <2>2, Zenon
<1>16. TakesTurns'
  <2>1. CASE /\ list' = Append(Tail(list), [item EXCEPT !.left = @ - 1]) /\ item.left > 1
    <3>1. PICK again \in Items : /\ again = [item EXCEPT !.left = @ - 1]
                                /\ again.op = item.op /\ again.left = item.left - 1
      BY <2>1, OneLess
    <3>2. /\ Len(list') = Len(Tail(list)) + 1 /\ list'[Len(Tail(list)) + 1] = again
          /\ \A i \in 1 .. Len(Tail(list)) : list'[i] = Tail(list)[i]
      BY <1>2, <2>1, <3>1, AppendProperties
    <3>3. again.op = item.op /\ again.left = item.left - 1
      BY <3>1
    <3>4. CASE Len(list) = 1
      <4>1. Len(list') = 1
        BY <1>15, <3>2, <3>4
      <4> QED
        BY <1>20, <4>1
    <3>5. CASE Len(list) = 2
      <4>1. /\ rf.mode = "rx_tx"
            /\ \/ item.op = "rx" /\ list[2].op = "tx" /\ item.left = list[2].left
               \/ item.op = "tx" /\ list[2].op = "rx" /\ item.left = list[2].left + 1
        BY <1>15, <1>19, <3>5 DEF TakesTurns
      <4>2. Len(list') = 2 /\ list'[1] = list[2] /\ list'[2] = again
        <5>1. Len(Tail(list)) = 1 /\ 1 \in 1 .. Len(Tail(list)) /\ Tail(list)[1] = list[2]
          BY <1>15, <3>5
        <5> QED
          BY <3>2, <5>1
      <4>3. list[2].left \in Nat
        <5>1. 2 \in 1 .. Len(list)
          BY <3>5
        <5>2. list[2] \in Items
          BY <1>0, <5>1, ElementOfSeq
        <5> QED
          BY <5>2 DEF Items
      <4>4. rf'.mode = "rx_tx"
        BY <1>1, <4>1
      <4>5. \/ list'[1].op = "tx" /\ list'[2].op = "rx" /\ list'[1].left = list'[2].left + 1
            \/ list'[1].op = "rx" /\ list'[2].op = "tx" /\ list'[1].left = list'[2].left
        BY <1>5, <3>3, <4>1, <4>2, <4>3
      <4> QED
        BY <4>2, <4>4, <4>5 DEF TakesTurns
    <3> QED
      BY <1>21, <3>4, <3>5
  <2>2. CASE list' = Tail(list)
    <3>1. CASE Len(list) = 1
      <4>1. Len(list') <= 1
        BY <1>15, <2>2, <3>1
      <4> QED
        BY <1>20, <4>1
    <3>2. CASE Len(list) = 2
      <4>1. Len(Tail(list)) = 1 /\ Len(list') = Len(Tail(list))
        BY <1>15, <2>2, <3>2
      <4>2. \A n : n = 1 => n <= 1
        OBVIOUS
      <4>3. Len(list') <= 1
        BY <4>1, <4>2, Zenon
      <4> QED
        BY <1>20, <4>3
    <3> QED
      BY <1>21, <3>1, <3>2
  <2> QED
    BY <1>8, <2>1, <2>2
<1>17. OnTheMove' => list' = <<>> /\ Number(modem', {"sync", "heard"}) = 0
  <2> SUFFICES ASSUME OnTheMove'
               PROVE  list' = <<>> /\ Number(modem', {"sync", "heard"}) = 0
    OBVIOUS
  <2>1. Number(modem', CountedOps) + Number(queue', DoneEvents) > 0
    BY <1>7 DEF OnTheMove
  <2>2. list' = Tail(list) /\ b = 1 /\ (item.left = 1 \/ outcome = "concluded")
    BY <1>3, <1>9, <2>1
  <2>3. Len(list) = 1
    <3>1. CASE Len(list) = 2
      <4>1. /\ rf.mode = "rx_tx"
            /\ \/ item.op = "rx"
               \/ item.op = "tx" /\ item.left = list[2].left + 1
        BY <1>15, <1>19, <3>1 DEF TakesTurns
      <4>2. item.op # "rx"
        BY <1>5, <2>2, <4>1 DEF Counts
      <4>3. list[2].left \in Nat \ {0}
        <5>1. 2 \in 1 .. Len(list)
          BY <3>1
        <5>2. list[2] \in Items
          BY <1>0, <5>1, ElementOfSeq
        <5> QED
          BY <5>2 DEF Items
      <4>4. item.left # 1
        BY <4>1, <4>2, <4>3
      <4> QED
        BY <1>1, <2>2, <3>1, <4>4
    <3> QED
      BY <1>21, <3>1
  <2>4. Len(list') = 0 /\ list' \in Seq(Items)
    BY <1>2, <1>15, <2>2, <2>3
  <2>5. list' = <<>>
    BY <2>4, EmptySeq
  <2> QED
    BY <1>11, <1>13, <2>5
<1>18. /\ shell' = shell /\ rf'.wait = rf.wait
  BY <1>1
<1> QED
  BY <1>3, <1>10, <1>12, <1>13, <1>14, <1>16, <1>17, <1>18 DEF Steady

LEMMA SchedulerSingle ==
  ASSUME OneInv, TypeOK', SchedulerRuns
  PROVE  Single'
<1>0. TypeOK /\ Single /\ queue \in Seq(Events)
  BY DEF OneInv, GoInv, TypeOK
<1>1. PICK outcome : OwnTurn(outcome) \/ StrayTurn(outcome)
  BY DEF SchedulerRuns
<1> SUFFICES ASSUME rf'.on_going, ~astray'
             PROVE  Single'
  BY DEF Single
<1>2. rf' = rf /\ rf.on_going /\ ~astray /\ strays = <<>>
  <2>1. CASE OwnTurn(outcome)
    <3>1. Turn(Head(list), outcome) /\ (astray => astray')
      BY <2>1 DEF OwnTurn
    <3> QED
      BY <1>0, <3>1 DEF Single, Turn
  <2>2. CASE StrayTurn(outcome)
    <3>1. Turn(Head(strays), outcome) /\ astray' = astray
      BY <2>2 DEF StrayTurn
    <3> QED
      BY <1>0, <3>1 DEF Single, Turn
  <2> QED
    BY <1>1, <2>1, <2>2
<1>3. OwnTurn(outcome) /\ strays' = <<>>
  BY <1>1, <1>2 DEF OwnTurn, StrayTurn
<1>4. \/ queue' = queue
      \/ \E op \in ItemOps : queue' = Append(queue, AllDone(op))
  <2>1. list \in Seq(Items) /\ list # <<>> /\ Turn(Head(list), outcome)
    BY <1>0, <1>3 DEF OwnTurn, TypeOK
  <2>2. Head(list) \in Items
    BY <2>1, HoldsTail
  <2> QED
    BY <2>1, <2>2 DEF Turn, Items
<1>5. \A op \in ItemOps : /\ AllDone(op) \in Events /\ AllDone(op) # CmdDone
                          /\ ToSet(Append(queue, AllDone(op))) = ToSet(queue) \cup {AllDone(op)}
  <2> SUFFICES ASSUME NEW op \in ItemOps
               PROVE  /\ AllDone(op) \in Events /\ AllDone(op) # CmdDone
                      /\ ToSet(Append(queue, AllDone(op))) = ToSet(queue) \cup {AllDone(op)}
    OBVIOUS
  <2>1. AllDone(op) \in Events /\ AllDone(op) # CmdDone
    BY EventType, EventFacts DEF CmdDone
  <2> QED
    BY <1>0, <2>1, HoldsAppend
<1>6. Over' <=> Over
  BY <1>4, <1>5 DEF Over, CmdDone
<1>7. CASE Over
  <2>1. Reaches(queue, CmdDone, InertEvents)
    BY <1>0, <1>2, <1>7 DEF Single
  <2>2. \A op \in ItemOps : Reaches(Append(queue, AllDone(op)), CmdDone, InertEvents)
    BY <1>0, <1>5, <2>1, ReachesAppend
  <2>3. Reaches(queue', CmdDone, InertEvents)
    BY <1>4, <2>1, <2>2
  <2>4. CmdDone' = CmdDone /\ InertEvents' = InertEvents
    BY <1>2, SetsKept DEF CmdDone
  <2> QED
    BY <1>3, <1>6, <1>7, <2>3, <2>4 DEF Single, Reaches
<1>8. CASE ~Over
  <2>1. Steady
    BY <1>0, <1>2, <1>8 DEF Single
  <2>2. Steady'
    BY <1>0, <1>2, <1>3, <2>1, OwnTurnSteady
  <2> QED
    BY <1>3, <1>6, <1>8, <2>2 DEF Single
<1> QED
  BY <1>7, <1>8

--------------------------------------------------------------------------------
(* The modem.                                                              *)

LEMMA PairHasTwo == ASSUME NEW a, NEW b, a # b PROVE Cardinality({a, b}) = 2
<1>1. IsFiniteSet({a}) /\ Cardinality({a}) = 1
  BY FS_Singleton
<1>2. Cardinality({a} \cup {b}) = Cardinality({a}) + 1
  BY <1>1, FS_AddElement
<1>3. {a} \cup {b} = {a, b}
  OBVIOUS
<1> QED
  BY <1>1, <1>2, <1>3

LEMMA NumberExcept ==
  ASSUME NEW T, NEW s \in Seq(T), NEW i \in 1 .. Len(s), NEW e \in T, NEW S,
         s[i] \in S <=> e \in S
  PROVE  Number([s EXCEPT ![i] = e], S) = Number(s, S)
<1>1. PlacesOf([s EXCEPT ![i] = e], S) = PlacesOf(s, S)
  <2>1. DOMAIN [s EXCEPT ![i] = e] = DOMAIN s
    OBVIOUS
  <2>2. \A j \in DOMAIN s : [s EXCEPT ![i] = e][j] \in S <=> s[j] \in S
    OBVIOUS
  <2> QED
    BY <2>1, <2>2 DEF PlacesOf
<1> QED
  BY <1>1 DEF Number

\* The RX to synchronise hears a header.
LEMMA HearsSteady ==
  ASSUME TypeOK, TypeOK', NEW i \in 1 .. Len(modem), Hears(i), Steady
  PROVE  Steady'
<1>0. modem \in Seq(ModemOps) /\ queue \in Seq(Events)
  BY DEF TypeOK
<1>1. /\ modem[i] = "sync" /\ modem' = [modem EXCEPT ![i] = "heard"]
      /\ queue' = Append(queue, Header)
      /\ UNCHANGED <<rf, list, shell>>
  BY DEF Hears, Header, users
<1>2. CountedItems' = CountedItems /\ CountedOps' = CountedOps /\ DoneEvents' = DoneEvents
  BY <1>1, SetsKept
<1>3. /\ Header \in Events /\ Header # Synced /\ Header \notin DoneEvents
      /\ "heard" \in ModemOps /\ "sync" \notin CountedOps /\ "heard" \notin CountedOps
  <2>1. Header \in Events /\ Header # Synced /\ Header \notin DoneEvents
    BY EventType, EventFacts, DoneFacts DEF Header, Synced
  <2>2. "heard" \in ModemOps /\ "sync" \notin ItemOps /\ "heard" \notin ItemOps
    BY DEF ModemOps, ItemOps
  <2>3. \A op \in CountedOps : op \in ItemOps
    BY CountsOps DEF CountedOps
  <2> QED
    BY <2>1, <2>2, <2>3
<1>4. "sync" \in ToSet(modem)
  BY <1>0, <1>1, LenProperties DEF ToSet
<1>5. /\ Number(modem', CountedOps) = Number(modem, CountedOps)
      /\ Number(modem', {"sync", "heard"}) = Number(modem, {"sync", "heard"})
  <2>1. modem[i] \in CountedOps <=> "heard" \in CountedOps
    BY <1>1, <1>3
  <2>2. modem[i] \in {"sync", "heard"} <=> "heard" \in {"sync", "heard"}
    BY <1>1
  <2>3. Number([modem EXCEPT ![i] = "heard"], CountedOps) = Number(modem, CountedOps)
    BY <1>0, <1>3, <2>1, NumberExcept
  <2>4. Number([modem EXCEPT ![i] = "heard"], {"sync", "heard"}) = Number(modem, {"sync", "heard"})
    BY <1>0, <1>3, <2>2, NumberExcept
  <2> QED
    BY <1>1, <2>3, <2>4
<1>6. /\ Number(queue', DoneEvents) = Number(queue, DoneEvents)
      /\ Number(queue', {Synced}) = Number(queue, {Synced})
  BY <1>0, <1>1, <1>3, NumberOther
<1>7. OnWay' = OnWay /\ Radio' = Radio
  <2>1. Synced' = Synced
    BY DEF Synced
  <2> QED
    BY <1>1, <1>2, <1>5, <1>6, <2>1 DEF OnWay, Radio
<1>8. Headers' = 1
  <2>1. Number(Append(queue, Header), {Header}) = Number(queue, {Header}) + IF Header \in {Header} THEN 1 ELSE 0
    BY <1>0, <1>3, NumberAppend
  <2>2. Number(queue, {Header}) = 0
    BY <1>4 DEF Steady, Headers
  <2>3. Header' = Header
    BY DEF Header
  <2> QED
    BY <1>1, <2>1, <2>2, <2>3 DEF Headers
<1>9. list = <<>> /\ OnWay = 0
  BY <1>4 DEF Steady
<1>10. /\ Number(modem, CountedOps) = 0 /\ Number(queue, DoneEvents) = 0
       /\ Number(modem, {"sync", "heard"}) # 0
  BY <1>4, <1>9, Counters DEF OnWay
<1>11. Number(queue, {Synced}) = 0
  BY <1>10, Counters DEF Steady, Radio
<1>12. ToSet(queue) \cap DoneEvents = {} /\ ToSet(queue) \cap {Synced} = {}
  BY <1>10, <1>11, Counters
<1>13. ~OnTheMove'
  <2>1. OnTheMove' <=> Number(modem, CountedOps) + Number(queue, DoneEvents) > 0
    BY <1>2, <1>5, <1>6 DEF OnTheMove
  <2> QED
    BY <1>10, <2>1
<1>14. "sync" \notin ToSet(modem')
  <2> SUFFICES ASSUME "sync" \in ToSet(modem')
               PROVE  FALSE
    OBVIOUS
  <2>1. PICK j \in DOMAIN modem' : modem'[j] = "sync"
    BY DEF ToSet
  <2>2. j \in 1 .. Len(modem) /\ j # i /\ modem[j] = "sync"
    BY <1>0, <1>1, <2>1, LenProperties
  <2>3. i \in PlacesOf(modem, {"sync", "heard"}) /\ j \in PlacesOf(modem, {"sync", "heard"})
    BY <1>0, <1>1, <2>2, LenProperties DEF PlacesOf
  <2>4. Number(modem, {"sync", "heard"}) >= 2
    <3>1. IsFiniteSet(PlacesOf(modem, {"sync", "heard"}))
      BY <1>0, NumberType
    <3>2. {i, j} \subseteq PlacesOf(modem, {"sync", "heard"})
      BY <2>3
    <3>3. Cardinality({i, j}) = 2
      BY <2>2, PairHasTwo
    <3> QED
      BY <3>1, <3>2, <3>3, FS_Subset, FS_CardinalityType DEF Number
  <2> QED
    BY <2>4, Counters DEF Steady, Radio
<1>15. Sorted'
  <2>1. NoneAfter(queue, DoneEvents, {Header, Synced}) /\ NoneAfter(queue, {Synced}, {Header})
    BY DEF Steady, Sorted
  <2>2. /\ NoneAfter(queue', DoneEvents, {Header, Synced}) /\ NoneAfter(queue', {Synced}, {Header})
    BY <1>0, <1>1, <1>3, <1>12, <2>1, NoneAfterAppend
  <2>3. Header' = Header /\ Synced' = Synced
    BY DEF Header, Synced
  <2> QED
    BY <1>2, <2>2, <2>3 DEF Sorted, NoneAfter
<1>16. TakesTurns'
  BY <1>1 DEF Steady, TakesTurns
<1>17. rf'.wait = rf.wait /\ shell' = shell /\ list' = list
  BY <1>1
<1> QED
  BY <1>7, <1>8, <1>9, <1>13, <1>14, <1>15, <1>16, <1>17 DEF Steady

\* An operation of the modem ends: the thread is told of it.
LEMMA EndsSteady ==
  ASSUME TypeOK, TypeOK', NEW i \in 1 .. Len(modem), Ends(i), Steady, tool
  PROVE  Steady'
<1>0. modem \in Seq(ModemOps) /\ queue \in Seq(Events)
  BY DEF TypeOK
<1> PICK op \in ModemOps : op = modem[i]
  BY <1>0, ElementOfSeq
<1>1. modem' = RemoveAt(modem, i) /\ queue' = queue \o Told(op) /\ UNCHANGED <<rf, list, shell>>
  BY DEF Ends, users
<1>2. CountedItems' = CountedItems /\ CountedOps' = CountedOps /\ DoneEvents' = DoneEvents
  BY <1>1, SetsKept
<1> DEFINE b == IF op \in CountedOps THEN 1 ELSE 0
           c == IF op \in {"sync", "heard"} THEN 1 ELSE 0
\* The one event that the thread is told.
<1>3. PICK e \in Events :
        /\ Told(op) = <<e>> /\ e \notin {Header, CmdDone}
        /\ e \in DoneEvents <=> op \in CountedOps
        /\ e = Synced <=> op \in {"sync", "heard"}
  <2>1. op \in CountedOps <=> Counts(op)
    BY DEF CountedOps
  <2>2. CASE op \in {"rx", "tx"}
    <3>1. Told(op) = <<AllDone(op)>> /\ op \in ItemOps
      BY <2>2 DEF Told, ItemOps
    <3>2. AllDone(op) \in DoneEvents <=> Counts(op)
      BY <3>1, DoneFacts
    <3>3. AllDone(op) \in Events /\ AllDone(op) \notin {Header, CmdDone, Synced}
      BY <3>1, EventType, EventFacts DEF Header, CmdDone, Synced
    <3>4. op \notin {"sync", "heard"}
      BY <2>2
    <3> QED
      BY <2>1, <3>1, <3>2, <3>3, <3>4
  <2>3. CASE op = "cont"
    <3>1. Told(op) = <<Event("completed", "cont")>>
      BY <2>3 DEF Told
    <3>2. /\ Event("completed", "cont") \in Events
          /\ Event("completed", "cont") \notin {Header, CmdDone, Synced}
          /\ Event("completed", "cont") \in DoneEvents <=> Counts("cont")
      BY EventType, EventFacts, DoneFacts DEF Header, CmdDone, Synced
    <3>3. op \notin {"sync", "heard"}
      BY <2>3
    <3> QED
      BY <2>1, <2>3, <3>1, <3>2, <3>3
  <2>4. CASE op \in {"sync", "heard"}
    <3>1. Told(op) = <<Synced>>
      BY <2>4 DEF Told, Synced
    <3>2. Synced \in Events /\ Synced \notin {Header, CmdDone} /\ Synced \notin DoneEvents
      BY EventType, EventFacts, DoneFacts DEF Header, CmdDone, Synced
    <3>3. ~Counts(op)
      <4>1. op \notin ItemOps
        BY <2>4 DEF ItemOps
      <4> QED
        BY <4>1, CountsOps
    <3> QED
      BY <2>1, <2>4, <3>1, <3>2, <3>3
  <2> QED
    BY <2>2, <2>3, <2>4 DEF ModemOps, ItemOps
<1>4. queue' = Append(queue, e)
  BY <1>0, <1>1, <1>3, AppendIsConcat
<1>5. /\ Number(modem', CountedOps) = Number(modem, CountedOps) - b
      /\ Number(modem', {"sync", "heard"}) = Number(modem, {"sync", "heard"}) - c
  <2>1. \A S : Number(RemoveAt(modem, i), S) = Number(modem, S) - IF modem[i] \in S THEN 1 ELSE 0
    BY <1>0, NumberRemoveAt
  <2> QED
    BY <1>1, <2>1
<1>6. /\ Number(queue', DoneEvents) = Number(queue, DoneEvents) + b
      /\ Number(queue', {Synced}) = Number(queue, {Synced}) + c
      /\ Number(queue', {Header}) = Number(queue, {Header})
  <2>1. \A S : Number(Append(queue, e), S) = Number(queue, S) + IF e \in S THEN 1 ELSE 0
    BY <1>0, NumberAppend
  <2>2. Number(Append(queue, e), {Header}) = Number(queue, {Header})
    BY <1>0, <1>3, NumberOther
  <2>3. e \in {Synced} <=> op \in {"sync", "heard"}
    BY <1>3
  <2>4. Number(queue', DoneEvents) = Number(queue, DoneEvents) + b
    BY <1>3, <1>4, <2>1
  <2>5. Number(queue', {Synced}) = Number(queue, {Synced}) + c
    BY <1>4, <2>1, <2>3
  <2> QED
    BY <1>4, <2>2, <2>4, <2>5
<1>7. b \in {0, 1} /\ c \in {0, 1} /\ (b = 0 \/ c = 0)
  <2>1. \A o \in CountedOps : o \in ItemOps
    BY CountsOps DEF CountedOps
  <2> QED
    BY <2>1 DEF ItemOps
<1>8. /\ Number(list, CountedItems) \in Nat /\ Number(modem, CountedOps) \in Nat
      /\ Number(queue, DoneEvents) \in Nat /\ Number(modem, {"sync", "heard"}) \in Nat
      /\ Number(queue, {Synced}) \in Nat
  BY Counters
<1>9. OnWay' = OnWay /\ Radio' = Radio /\ Headers' = Headers /\ (OnTheMove' <=> OnTheMove)
  <2>1. Synced' = Synced /\ Header' = Header
    BY DEF Synced, Header
  <2>2. OnWay' = Number(list, CountedItems) + Number(modem', CountedOps) + Number(queue', DoneEvents)
    BY <1>1, <1>2 DEF OnWay
  <2>3. Radio' = Number(modem', {"sync", "heard"}) + Number(queue', {Synced})
    BY <2>1 DEF Radio
  <2>4. OnTheMove' <=> Number(modem', CountedOps) + Number(queue', DoneEvents) > 0
    BY <1>2 DEF OnTheMove
  <2>5. Headers' = Headers
    BY <1>6, <2>1 DEF Headers
  <2> HIDE DEF b, c
  <2>6. OnWay' = OnWay
    BY <1>5, <1>6, <1>7, <1>8, <2>2 DEF OnWay
  <2>7. Radio' = Radio
    BY <1>5, <1>6, <1>7, <1>8, <2>3 DEF Radio
  <2>8. OnTheMove' <=> OnTheMove
    BY <1>5, <1>6, <1>7, <1>8, <2>4 DEF OnTheMove
  <2> QED
    BY <2>5, <2>6, <2>7, <2>8
<1>10. ToSet(modem') \subseteq ToSet(modem)
  BY <1>0, <1>1, RemoveAtHolds
<1>11. OnTheMove' => list = <<>> /\ Number(modem', {"sync", "heard"}) = 0
  <2> SUFFICES ASSUME OnTheMove
               PROVE  list = <<>> /\ Number(modem', {"sync", "heard"}) = 0
    BY <1>9
  <2>1. list = <<>> /\ Number(modem, {"sync", "heard"}) = 0
    BY DEF Steady
  <2>2. c = 0
    <3>1. {"sync", "heard"} \cap ToSet(modem) = {}
      BY <2>1, Counters
    <3>2. modem[i] \in ToSet(modem)
      BY <1>0, LenProperties DEF ToSet
    <3> QED
      BY <3>1, <3>2
  <2> HIDE DEF c
  <2> QED
    BY <1>5, <2>1, <2>2
<1>12. Sorted'
  <2>1. NoneAfter(queue, DoneEvents, {Header, Synced}) /\ NoneAfter(queue, {Synced}, {Header})
    BY DEF Steady, Sorted
  <2>2. e \in {Header, Synced} => ToSet(queue) \cap DoneEvents = {}
    <3> SUFFICES ASSUME e = Synced
                 PROVE  ToSet(queue) \cap DoneEvents = {}
      BY <1>3
    <3>1. op \in {"sync", "heard"}
      BY <1>3
    <3>2. modem[i] \in ToSet(modem)
      BY <1>0, LenProperties DEF ToSet
    <3>3. Number(modem, {"sync", "heard"}) # 0
      BY <3>1, <3>2, Counters
    <3>4. ~OnTheMove
      BY <3>3 DEF Steady
    <3>5. Number(queue, DoneEvents) = 0
      BY <1>8, <3>4 DEF OnTheMove
    <3> QED
      BY <3>5, Counters
  <2>3. NoneAfter(queue', DoneEvents, {Header, Synced})
    BY <1>0, <1>4, <2>1, <2>2, NoneAfterAppend
  <2>4. NoneAfter(queue', {Synced}, {Header})
    <3>1. e \notin {Header}
      BY <1>3
    <3> QED
      BY <1>0, <1>4, <2>1, <3>1, NoneAfterAppend
  <2>5. Header' = Header /\ Synced' = Synced
    BY DEF Header, Synced
  <2> QED
    BY <1>2, <2>3, <2>4, <2>5 DEF Sorted, NoneAfter
<1>13. TakesTurns'
  BY <1>1 DEF Steady, TakesTurns
<1>14. rf'.wait = rf.wait /\ shell' = shell /\ list' = list
  BY <1>1
<1> QED
  BY <1>9, <1>10, <1>11, <1>12, <1>13, <1>14 DEF Steady

LEMMA ModemSingle ==
  ASSUME OneInv, TypeOK', ModemRuns
  PROVE  Single'
<1>0. TypeOK /\ Single /\ LendInv /\ queue \in Seq(Events) /\ modem \in Seq(ModemOps)
  BY DEF OneInv, GoInv, TypeOK
<1>1. PICK i \in DOMAIN modem : Hears(i) \/ Ends(i)
  BY DEF ModemRuns
<1>2. UNCHANGED <<rf, strays, astray>>
  BY <1>1 DEF Hears, Ends, bounds
<1> SUFFICES ASSUME rf.on_going, ~astray
             PROVE  Single'
  BY <1>2 DEF Single
<1>3. i \in 1 .. Len(modem) /\ modem[i] \in ModemOps /\ strays' = <<>>
  BY <1>0, <1>2, LenProperties, ElementOfSeq DEF Single
<1>4. PICK more \in Seq(Events) : queue' = queue \o more /\ CmdDone \notin ToSet(more)
  <2>1. Header # CmdDone /\ Synced # CmdDone /\ Event("completed", "cont") # CmdDone
    BY EventFacts DEF Header, Synced, CmdDone
  <2>2. \A op \in ItemOps : AllDone(op) # CmdDone
    BY EventFacts DEF CmdDone
  <2>3. \A f \in Events : <<f>> \in Seq(Events) /\ Append(queue, f) = queue \o <<f>> /\ ToSet(<<f>>) = {f}
    BY <1>0, AppendIsConcat, HoldsSingle
  <2>4. CASE Hears(i)
    <3>1. queue' = Append(queue, Header) /\ Header \in Events
      BY <2>4, EventType DEF Hears, Header
    <3> QED
      BY <2>1, <2>3, <3>1
  <2>5. CASE Ends(i)
    <3>1. queue' = queue \o Told(modem[i]) /\ Told(modem[i]) \in Seq(Events)
      BY <1>3, <2>5, ToldType DEF Ends
    <3>2. \/ Told(modem[i]) = <<>> \/ Told(modem[i]) = <<Synced>>
          \/ Told(modem[i]) = <<Event("completed", "cont")>>
          \/ \E op \in ItemOps : Told(modem[i]) = <<AllDone(op)>>
      BY DEF Told, Synced, ItemOps
    <3>3. CmdDone \notin ToSet(Told(modem[i]))
      BY <2>1, <2>2, <3>2, HoldsEmpty, HoldsSingle
    <3> QED
      BY <3>1, <3>3
  <2> QED
    BY <1>1, <2>4, <2>5
<1>5. Over' <=> Over
  <2>1. ToSet(queue \o more) = ToSet(queue) \cup ToSet(more)
    BY <1>0, HoldsConcat
  <2> QED
    BY <1>4, <2>1 DEF Over, CmdDone
<1>6. CASE Over
  <2>1. Reaches(queue, CmdDone, InertEvents)
    BY <1>0, <1>6 DEF Single
  <2>2. Reaches(queue', CmdDone, InertEvents)
    BY <1>0, <1>4, <2>1, ReachesConcat
  <2>3. CmdDone' = CmdDone /\ InertEvents' = InertEvents
    BY <1>2, SetsKept DEF CmdDone
  <2> QED
    BY <1>3, <1>5, <1>6, <2>2, <2>3 DEF Single, Reaches
<1>7. CASE ~Over
  <2>1. Steady /\ tool
    BY <1>0, <1>7 DEF Single, LendInv, ToolAgrees
  <2>2. Steady'
    BY <1>0, <1>1, <1>3, <2>1, HearsSteady, EndsSteady
  <2> QED
    BY <1>3, <1>5, <1>7, <2>2 DEF Single
<1> QED
  BY <1>6, <1>7

--------------------------------------------------------------------------------
(* The thread, for a run that shares the list with nothing.                *)

\* What the mode counts does not change with the rest of the tool's data.
LEMMA SetsOfMode ==
  ASSUME rf'.mode = rf.mode
  PROVE  /\ CountedItems' = CountedItems /\ CountedOps' = CountedOps /\ DoneEvents' = DoneEvents
         /\ rf'.wait = rf.wait => InertEvents' = InertEvents
BY DEF CountedItems, CountedOps, DoneEvents, InertEvents, Counts, Header, Synced

LEMMA TailNumbers ==
  ASSUME TypeOK, queue # <<>>
  PROVE  /\ Tail(queue) \in Seq(Events) /\ Head(queue) \in Events
         /\ \A S : /\ Number(Tail(queue), S) \in Nat
                   /\ Number(queue, S) = Number(Tail(queue), S) + IF Head(queue) \in S THEN 1 ELSE 0
                   /\ Number(Tail(queue), S) = 0 <=> ToSet(Tail(queue)) \cap S = {}
<1>1. queue \in Seq(Events)
  BY DEF TypeOK
<1>2. Tail(queue) \in Seq(Events) /\ Head(queue) \in Events
  BY <1>1, HoldsTail
<1>3. ASSUME NEW S
      PROVE  /\ Number(Tail(queue), S) \in Nat
             /\ Number(queue, S) = Number(Tail(queue), S) + IF Head(queue) \in S THEN 1 ELSE 0
             /\ Number(Tail(queue), S) = 0 <=> ToSet(Tail(queue)) \cap S = {}
  BY <1>1, <1>2, NumberTail, NumberNone
<1> QED
  BY <1>2, <1>3

\* A run that is about to end takes only what does nothing to it.
LEMMA EndStaysNear ==
  ASSUME TypeOK, queue # <<>>, Head(queue) # CmdDone, Reaches(queue, CmdDone, InertEvents),
         NEW more \in Seq(Events), queue' = Tail(queue) \o more, InertEvents' = InertEvents
  PROVE  Over' /\ Reaches(queue, CmdDone, InertEvents)'
<1>1. Tail(queue) \in Seq(Events) /\ queue \in Seq(Events)
  BY TailNumbers DEF TypeOK
<1>2. Reaches(Tail(queue), CmdDone, InertEvents)
  BY <1>1, ReachesTail
<1>3. Reaches(queue', CmdDone, InertEvents)
  BY <1>1, <1>2, ReachesConcat
<1>4. CmdDone \in ToSet(queue')
  BY <1>3, ReachesHas
<1>5. CmdDone' = CmdDone
  BY DEF CmdDone
<1> QED
  BY <1>3, <1>4, <1>5 DEF Over, Reaches, CmdDone

LEMMA EndingThread ==
  ASSUME TypeOK, ThreadRuns, queue # <<>>, rf.on_going, Head(queue) # CmdDone,
         Reaches(queue, CmdDone, InertEvents), strays = <<>>
  PROVE  Single'
<1>1. queue \in Seq(Events) /\ Tail(queue) \in Seq(Events) /\ <<>> \in Seq(Events)
  BY TailNumbers, NothingType DEF TypeOK
<1>2. Head(queue) \in InertEvents
  BY <1>1, ReachesTail
<1>3. Tail(queue) = Tail(queue) \o <<>>
  BY <1>1
<1>4. \A op \in ItemOps : Head(queue) = AllDone(op) => ~Counts(op)
  BY <1>2, DoneFacts DEF InertEvents
<1>5. Head(queue) \in {Header, Synced} => ~rf.wait
  BY <1>2 DEF InertEvents
<1>6. /\ UNCHANGED <<rf, strays>>
      /\ \E more \in Seq(Events) : queue' = Tail(queue) \o more
  <2>1. ~TakeCmdDone /\ ~Drop
    BY DEF TakeCmdDone, Drop, Takes, CmdDone
  <2>2. ~LastInterval /\ \A n : ~Restart(n)
    BY <1>4 DEF LastInterval, Restart, Handles, Takes, ItemOps
  <2>3. CASE TakeSynced
    <3>1. Head(queue) = Synced /\ UNCHANGED <<rf, strays>>
      BY <2>3 DEF TakeSynced, Handles, Takes, Synced
    <3>2. queue' = Tail(queue) \o <<>>
      BY <1>5, <2>3, <3>1 DEF TakeSynced
    <3> QED
      BY <1>1, <3>1, <3>2
  <2>4. CASE TakeCont
    <3>1. AllDone("cont") \in Events
      BY EventType DEF ItemOps
    <3>2. /\ Append(Tail(queue), AllDone("cont")) = Tail(queue) \o <<AllDone("cont")>>
          /\ <<AllDone("cont")>> \in Seq(Events)
      BY <1>1, <3>1, AppendIsConcat
    <3>3. queue' = Append(Tail(queue), AllDone("cont")) /\ UNCHANGED <<rf, strays>>
      BY <2>4 DEF TakeCont
    <3> QED
      BY <3>2, <3>3
  <2>5. CASE OtherDone
    BY <1>1, <1>3, <2>5 DEF OtherDone
  <2>6. ASSUME NEW n \in 0 .. 2, TakePcc(n)
        PROVE  UNCHANGED <<rf, strays>> /\ \E more \in Seq(Events) : queue' = Tail(queue) \o more
    <3>1. Head(queue) = Header
      BY <2>6 DEF TakePcc, Handles, Takes, Header
    <3> QED
      BY <1>1, <1>3, <1>5, <2>6, <3>1 DEF TakePcc
  <2> QED
    BY <2>1, <2>2, <2>3, <2>4, <2>5, <2>6 DEF ThreadRuns
<1>7. InertEvents' = InertEvents
  BY <1>6, SetsKept
<1>8. Over' /\ Reaches(queue, CmdDone, InertEvents)'
  BY <1>6, <1>7, EndStaysNear
<1> QED
  BY <1>6, <1>8 DEF Single

\* An event is taken that does nothing to the run.
LEMMA TakingSteady ==
  ASSUME TypeOK, queue # <<>>, queue' = Tail(queue), UNCHANGED <<rf, list, modem, shell>>, Steady
  PROVE  Steady'
<1>1. /\ CountedItems' = CountedItems /\ CountedOps' = CountedOps /\ DoneEvents' = DoneEvents
      /\ Header' = Header /\ Synced' = Synced
  BY SetsKept DEF Header, Synced
<1>2. \A S : Number(queue', S) \in Nat /\ Number(queue', S) <= Number(queue, S)
  <2>1. ASSUME NEW S
        PROVE  Number(queue', S) \in Nat /\ Number(queue', S) <= Number(queue, S)
    BY TailNumbers
  <2> QED
    BY <2>1
<1> DEFINE nl == Number(list, CountedItems)  nm == Number(modem, CountedOps)
           nq == Number(queue, DoneEvents)  ns == Number(modem, {"sync", "heard"})
           nc == Number(queue, {Synced})  nh == Number(queue, {Header})
           mq == Number(queue', DoneEvents)  mc == Number(queue', {Synced})
           mh == Number(queue', {Header})
<1>3. /\ nl \in Nat /\ nm \in Nat /\ nq \in Nat /\ ns \in Nat /\ nc \in Nat /\ nh \in Nat
      /\ OnWay = nl + nm + nq /\ Radio = ns + nc /\ Headers = nh
      /\ OnTheMove <=> nm + nq > 0
  BY Counters DEF OnWay, Radio, Headers, OnTheMove
<1>4. /\ OnWay' = nl + nm + mq /\ Radio' = ns + mc /\ Headers' = mh
      /\ OnTheMove' <=> nm + mq > 0
  BY <1>1 DEF OnWay, Radio, Headers, OnTheMove
<1>5. /\ mq \in Nat /\ mq <= nq /\ mc \in Nat /\ mc <= nc /\ mh \in Nat /\ mh <= nh
  BY <1>2
<1>6. /\ OnWay <= 1 => OnWay' <= 1
      /\ OnWay = 0 => OnWay' = 0
      /\ Radio <= 1 => Radio' <= 1
      /\ Headers <= 1 => Headers' <= 1
      /\ Headers = 0 => Headers' = 0
      /\ OnTheMove' => OnTheMove
  <2> HIDE DEF nl, nm, nq, ns, nc, nh, mq, mc, mh
  <2> QED
    BY <1>3, <1>4, <1>5
<1>7. Sorted'
  <2>1. queue \in Seq(Events)
    BY DEF TypeOK
  <2>2. /\ NoneAfter(Tail(queue), DoneEvents, {Header, Synced})
        /\ NoneAfter(Tail(queue), {Synced}, {Header})
    BY <2>1, NoneAfterTail DEF Steady, Sorted
  <2> QED
    BY <1>1, <2>2 DEF Sorted, NoneAfter
<1>8. TakesTurns'
  BY DEF Steady, TakesTurns
<1> QED
  BY <1>6, <1>7, <1>8 DEF Steady

\* An RX in RX_CONT mode is over: its end is passed on.
LEMMA TakeContSteady ==
  ASSUME TypeOK, TakeCont, Steady
  PROVE  Steady'
<1>1. /\ queue # <<>> /\ Head(queue) = Event("completed", "cont")
      /\ queue' = Append(Tail(queue), AllDone("cont")) /\ UNCHANGED <<rf, list, modem, shell>>
  BY DEF TakeCont, Handles, Takes, users
<1>2. /\ CountedItems' = CountedItems /\ CountedOps' = CountedOps /\ DoneEvents' = DoneEvents
      /\ Header' = Header /\ Synced' = Synced
  BY <1>1, SetsKept DEF Header, Synced
<1>3. PICK e \in Events : e = AllDone("cont")
  BY EventType DEF ItemOps
<1>4. /\ e \in DoneEvents <=> Head(queue) \in DoneEvents
      /\ e # Header /\ e # Synced /\ Head(queue) # Header /\ Head(queue) # Synced
  BY <1>1, <1>3, DoneFacts, EventFacts DEF ItemOps, Header, Synced
<1>5. PICK rest \in Seq(Events) : rest = Tail(queue)
  BY <1>1, TailNumbers
<1>6. \A S : (e \in S <=> Head(queue) \in S) => Number(queue', S) = Number(queue, S)
  <2>1. ASSUME NEW S, e \in S <=> Head(queue) \in S
        PROVE  Number(queue', S) = Number(queue, S)
    <3>1. Number(Append(rest, e), S) = Number(rest, S) + IF e \in S THEN 1 ELSE 0
      BY NumberAppend
    <3>2. Number(queue, S) = Number(rest, S) + IF Head(queue) \in S THEN 1 ELSE 0
      BY <1>1, <1>5, TailNumbers
    <3> QED
      BY <1>1, <1>3, <1>5, <2>1, <3>1, <3>2
  <2> QED
    BY <2>1
<1>7. /\ Number(queue', DoneEvents) = Number(queue, DoneEvents)
      /\ Number(queue', {Synced}) = Number(queue, {Synced})
      /\ Number(queue', {Header}) = Number(queue, {Header})
  BY <1>4, <1>6
<1>8. /\ OnWay' = OnWay /\ Radio' = Radio /\ Headers' = Headers
      /\ OnTheMove' <=> OnTheMove
  BY <1>1, <1>2, <1>7 DEF OnWay, Radio, Headers, OnTheMove
<1>9. Sorted'
  <2>1. queue \in Seq(Events)
    BY DEF TypeOK
  <2>2. /\ NoneAfter(rest, DoneEvents, {Header, Synced}) /\ NoneAfter(rest, {Synced}, {Header})
    BY <1>1, <1>5, <2>1, NoneAfterTail DEF Steady, Sorted
  <2>3. /\ NoneAfter(Append(rest, e), DoneEvents, {Header, Synced})
        /\ NoneAfter(Append(rest, e), {Synced}, {Header})
    BY <1>4, <2>2, NoneAfterAppend
  <2> QED
    BY <1>1, <1>2, <1>3, <1>5, <2>3 DEF Sorted, NoneAfter
<1>10. TakesTurns'
  BY <1>1 DEF Steady, TakesTurns
<1> QED
  BY <1>1, <1>8, <1>9, <1>10 DEF Steady

\* The thread puts the end of the run behind what does nothing to it.
LEMMA EndComes ==
  ASSUME TypeOK, NEW rest \in Seq(Events), ToSet(rest) \subseteq InertEvents,
         queue' = Append(rest, CmdDone), InertEvents' = InertEvents, strays' = <<>>
  PROVE  Single'
<1>1. CmdDone \in Events /\ CmdDone' = CmdDone
  BY EventType DEF CmdDone
<1>2. Reaches(queue', CmdDone, InertEvents)
  BY <1>1, ReachesLast
<1>3. Over'
  BY <1>1, <1>2, ReachesHas DEF Over, CmdDone
<1> QED
  BY <1>1, <1>2, <1>3 DEF Single, Reaches

LEMMA SyncedSingle ==
  ASSUME TypeOK, TypeOK', TakeSynced, Steady, strays = <<>>, ~Over
  PROVE  Single'
<1>1. /\ queue # <<>> /\ Head(queue) = Synced /\ UNCHANGED <<rf, list, strays, modem, shell>>
      /\ queue' = Tail(queue) \o IF rf.wait THEN <<CmdDone>> ELSE <<>>
  BY DEF TakeSynced, Handles, Takes, Synced, CmdDone, users
<1>2. PICK rest \in Seq(Events) : rest = Tail(queue)
  BY <1>1, TailNumbers
<1>3. CmdDone \in Events
  BY EventType DEF CmdDone
<1>4. CASE rf.wait
  <2>1. queue' = Append(rest, CmdDone)
    BY <1>1, <1>2, <1>3, <1>4, AppendIsConcat
  <2>2. ToSet(rest) \cap DoneEvents = {}
    <3>1. OnWay = 0
      BY <1>4 DEF Steady
    <3>2. Number(queue, DoneEvents) = 0
      BY <3>1, Counters DEF OnWay
    <3>3. Number(rest, DoneEvents) = 0
      BY <1>1, <1>2, <3>2, TailNumbers
    <3> QED
      BY <1>1, <1>2, <3>3, TailNumbers
  <2>3. Synced \notin ToSet(rest)
    <3>1. Number(queue, {Synced}) <= 1
      BY Counters DEF Steady, Radio
    <3>2. Number(queue, {Synced}) = Number(rest, {Synced}) + 1 /\ Number(rest, {Synced}) \in Nat
      BY <1>1, <1>2, TailNumbers
    <3>3. Number(rest, {Synced}) = 0
      BY <3>1, <3>2
    <3>4. ToSet(rest) \cap {Synced} = {}
      BY <1>1, <1>2, <3>3, TailNumbers
    <3> QED
      BY <3>4
  <2>4. Header \notin ToSet(rest)
    <3>1. NoneAfter(queue, {Synced}, {Header}) /\ queue \in Seq(Events)
      BY DEF Steady, Sorted, TypeOK
    <3>2. ToSet(rest) \cap {Header} = {}
      BY <1>1, <1>2, <3>1, NoneAfterTail
    <3> QED
      BY <3>2
  <2>5. ToSet(rest) \subseteq InertEvents
    BY <2>2, <2>3, <2>4, HoldsType DEF InertEvents
  <2>6. InertEvents' = InertEvents /\ strays' = <<>>
    BY <1>1, SetsKept
  <2> QED
    BY <2>1, <2>5, <2>6, EndComes
<1>5. CASE ~rf.wait
  <2>1. queue' = Tail(queue)
    <3>1. rest \o <<>> = rest
      OBVIOUS
    <3> QED
      BY <1>1, <1>2, <1>5, <3>1
  <2>2. Steady'
    BY <1>1, <2>1, TakingSteady
  <2>3. ~Over'
    <3>1. ToSet(queue') \subseteq ToSet(queue)
      BY <1>1, <2>1, HoldsTail DEF TypeOK
    <3> QED
      BY <3>1 DEF Over
  <2> QED
    BY <1>1, <2>2, <2>3 DEF Single
<1> QED
  BY <1>4, <1>5

\* The end of an interval is taken: nothing of it is left.
LEMMA IntervalOver ==
  ASSUME TypeOK, Steady, queue # <<>>, Head(queue) \in DoneEvents
  PROVE  /\ list = <<>> /\ ~rf.wait /\ shell # "sync"
         /\ Number(modem, CountedOps) = 0 /\ Number(modem, {"sync", "heard"}) = 0
         /\ ToSet(Tail(queue)) \cap DoneEvents = {}
         /\ Header \notin ToSet(Tail(queue)) /\ Synced \notin ToSet(Tail(queue))
<1> DEFINE nl == Number(list, CountedItems)  nm == Number(modem, CountedOps)
           nq == Number(queue, DoneEvents)  nt == Number(Tail(queue), DoneEvents)
<1>1. /\ nl \in Nat /\ nm \in Nat /\ nq \in Nat /\ nt \in Nat /\ OnWay = nl + nm + nq
      /\ nq = nt + 1 /\ OnWay <= 1 /\ (OnTheMove <=> nm + nq > 0)
  BY Counters, TailNumbers DEF Steady, OnWay, OnTheMove
<1>2. nm = 0 /\ nt = 0 /\ OnWay # 0 /\ OnTheMove
  <2> HIDE DEF nl, nm, nq, nt
  <2> QED
    BY <1>1
<1>3. list = <<>> /\ Number(modem, {"sync", "heard"}) = 0 /\ ~rf.wait /\ shell # "sync"
  BY <1>2 DEF Steady
<1>4. ToSet(Tail(queue)) \cap DoneEvents = {}
  BY <1>2, TailNumbers
<1>5. ToSet(Tail(queue)) \cap {Header, Synced} = {}
  BY NoneAfterTail DEF Steady, Sorted, TypeOK
<1> QED
  BY <1>2, <1>3, <1>4, <1>5

LEMMA LastSingle ==
  ASSUME TypeOK, LastInterval, Steady, strays = <<>>
  PROVE  Single'
<1>1. PICK op \in {"rx", "tx", "cont"} : Handles(AllDone(op)) /\ Counts(op)
  BY DEF LastInterval
<1>2. /\ queue # <<>> /\ Head(queue) = AllDone(op) /\ strays' = strays
      /\ queue' = Append(Tail(queue), CmdDone) /\ rf' = [rf EXCEPT !.count = Counted]
  BY <1>1 DEF LastInterval, Handles, Takes, CmdDone
<1>3. Head(queue) \in DoneEvents
  BY <1>1, <1>2, DoneFacts DEF ItemOps
<1>4. rf'.mode = rf.mode /\ rf'.wait = rf.wait
  BY <1>2 DEF TypeOK, Typed
<1>5. Tail(queue) \in Seq(Events)
  BY <1>2, TailNumbers
<1>6. ToSet(Tail(queue)) \subseteq InertEvents
  BY <1>2, <1>3, <1>5, IntervalOver, HoldsType DEF InertEvents
<1>7. InertEvents' = InertEvents
  BY <1>4, SetsOfMode
<1> QED
  BY <1>2, <1>5, <1>6, <1>7, EndComes

\* What is scheduled for an interval counts at most once, and takes turns.
LEMMA ScheduledOnce ==
  ASSUME NEW mode \in Modes, NEW n \in Nat, Schedule(mode, n), rf'.mode = mode,
         list \in Seq(Items), strays \in Seq(Items)
  PROVE  Number(list', CountedItems') <= 1 /\ Number(list', CountedItems') \in Nat /\ TakesTurns'
<1>1. /\ list' \in Seq(Items) /\ Len(list') = n /\ n <= Len(Operations(mode))
      /\ \A i \in 1 .. n : list'[i] = Item(Operations(mode)[i])
  BY ScheduleGives
<1>2. DOMAIN list' = 1 .. n
  BY <1>1, LenProperties
<1>3. \A k : PlacesOf(list', CountedItems') \subseteq {k} => Number(list', CountedItems') <= 1
  <2>1. ASSUME NEW k, PlacesOf(list', CountedItems') \subseteq {k}
        PROVE  Number(list', CountedItems') <= 1
    <3>1. IsFiniteSet({k}) /\ Cardinality({k}) = 1
      BY FS_Singleton
    <3>2. Cardinality(PlacesOf(list', CountedItems')) <= Cardinality({k})
      BY <2>1, <3>1, FS_Subset
    <3> QED
      BY <3>1, <3>2 DEF Number
  <2> QED
    BY <2>1
<1>4. Number(list', CountedItems') \in Nat
  BY <1>1, NumberType
<1>5. CASE mode = "rx_tx"
  <2>1. Operations(mode) = <<"rx", "tx">>
    BY <1>5 DEF Operations
  <2>2. n \in {0, 1, 2}
    BY <1>1, <2>1
  <2>3. Item("rx").op = "rx" /\ Item("tx").op = "tx" /\ Item("rx").left = Frames /\ Item("tx").left = Frames
    BY DEF Item
  <2>4. n >= 1 => list'[1] = Item("rx")
    BY <1>1, <2>1, <2>2
  <2>5. n = 2 => list'[2] = Item("tx")
    BY <1>1, <2>1
  <2>6. Item("rx") \notin CountedItems'
    BY <1>5, <2>3 DEF CountedItems, Counts
  <2>7. PlacesOf(list', CountedItems') \subseteq {2}
    BY <1>2, <2>2, <2>4, <2>6 DEF PlacesOf
  <2>8. Number(list', CountedItems') <= 1
    BY <1>3, <2>7
  <2>9. TakesTurns'
    <3>1. CASE n = 2
      BY <1>1, <1>5, <2>3, <2>4, <2>5, <3>1 DEF TakesTurns
    <3>2. CASE n # 2
      <4>1. Len(list') <= 1
        BY <1>1, <2>2, <3>2
      <4> QED
        BY <4>1 DEF TakesTurns
    <3> QED
      BY <3>1, <3>2
  <2> QED
    BY <1>4, <2>8, <2>9
<1>6. CASE mode # "rx_tx"
  <2>1. Len(Operations(mode)) = 1
    BY <1>6 DEF Operations, Modes
  <2>2. n \in {0, 1} /\ Len(list') <= 1
    BY <1>1, <2>1
  <2>3. PlacesOf(list', CountedItems') \subseteq {1}
    BY <1>2, <2>2 DEF PlacesOf
  <2>4. Number(list', CountedItems') <= 1
    BY <1>3, <2>3
  <2>5. TakesTurns'
    BY <2>2 DEF TakesTurns
  <2> QED
    BY <1>4, <2>4, <2>5
<1> QED
  BY <1>5, <1>6

LEMMA NothingListed ==
  ASSUME list' = <<>>
  PROVE  Number(list', CountedItems') = 0 /\ TakesTurns'
<1>1. Number(<<>>, CountedItems') = 0
  BY NumberEmpty
<1>2. Len(list') = 0
  BY EmptySeq
<1> QED
  BY <1>1, <1>2 DEF TakesTurns

\* A run that has just got something to go on by.
LEMMA FreshSteady ==
  ASSUME TypeOK', Number(list', CountedItems') \in Nat, Number(list', CountedItems') <= 1, TakesTurns',
         Number(modem', CountedOps') = 0, ToSet(queue') \cap DoneEvents' = {},
         Number(modem', {"sync", "heard"}) + Number(queue', {Synced}) <= 1, Header \notin ToSet(queue'),
         shell' = "sync" => ~rf'.wait,
         rf'.wait \/ shell' = "sync" \/ "sync" \in ToSet(modem') => list' = <<>>
  PROVE  Steady'
<1>1. queue' \in Seq(Events) /\ Header' = Header /\ Synced' = Synced
  BY DEF TypeOK, Header, Synced
<1>2. Number(queue', DoneEvents') = 0
  BY <1>1, NumberNone
<1>3. Number(queue', {Header}) = 0
  <2>1. ToSet(queue') \cap {Header} = {}
    OBVIOUS
  <2> QED
    BY <1>1, <2>1, NumberNone
<1>4. OnWay' = Number(list', CountedItems') /\ ~OnTheMove'
  <2>1. OnWay' = Number(list', CountedItems') + Number(modem', CountedOps') + Number(queue', DoneEvents')
    BY DEF OnWay
  <2>2. OnTheMove' <=> Number(modem', CountedOps') + Number(queue', DoneEvents') > 0
    BY DEF OnTheMove
  <2> QED
    BY <1>2, <2>1, <2>2
<1>5. Radio' <= 1 /\ Headers' = 0
  BY <1>1, <1>3 DEF Radio, Headers
<1>6. list' = <<>> => OnWay' = 0
  BY <1>4, NothingListed
<1>7. Sorted'
  BY <1>1 DEF Sorted, NoneAfter, ToSet
<1> QED
  BY <1>4, <1>5, <1>6, <1>7 DEF Steady

\* The header comes.
LEMMA HeaderSingle ==
  ASSUME TypeOK, TypeOK', NEW n \in 0 .. 2, TakePcc(n), Steady, strays = <<>>, ~Over
  PROVE  Single'
<1>0. rf.mode \in Modes /\ list \in Seq(Items) /\ modem \in Seq(ModemOps) /\ strays \in Seq(Items)
  BY DEF TypeOK, Typed
<1>1. /\ queue # <<>> /\ Head(queue) = Header /\ queue' = Tail(queue) /\ UNCHANGED <<modem, shell>>
  BY DEF TakePcc, Handles, Takes, Header, users
<1>2. ~Over'
  <2>1. ToSet(queue') \subseteq ToSet(queue)
    BY <1>1, HoldsTail DEF TypeOK
  <2> QED
    BY <2>1 DEF Over
<1>3. CASE rf.wait
  <2>1. Schedule(rf.mode, n) /\ rf' = [rf EXCEPT !.wait = FALSE] /\ strays' = strays \o list
    BY <1>3 DEF TakePcc, Schedule
  <2>2. ~rf'.wait /\ rf'.mode = rf.mode
    BY <2>1 DEF TypeOK, Typed
  <2>3. list = <<>> /\ OnWay = 0 /\ shell # "sync" /\ Radio <= 1 /\ Headers <= 1
    BY <1>3 DEF Steady
  <2>4. CountedOps' = CountedOps /\ DoneEvents' = DoneEvents
    BY <2>2, SetsOfMode
  <2>5. strays' = <<>>
    BY <2>1, <2>3
  <2>6. /\ Number(list', CountedItems') \in Nat /\ Number(list', CountedItems') <= 1 /\ TakesTurns'
    BY <1>0, <2>1, <2>2, ScheduledOnce
  <2>7. Number(modem, CountedOps) = 0 /\ Number(queue, DoneEvents) = 0
    BY <2>3, Counters DEF OnWay
  <2>8. ToSet(queue') \cap DoneEvents = {} /\ Number(queue', {Synced}) <= Number(queue, {Synced})
        /\ Number(queue', {Synced}) \in Nat
    <3>1. Number(queue', DoneEvents) = 0
      BY <1>1, <2>7, TailNumbers
    <3> QED
      BY <1>1, <3>1, TailNumbers
  <2>9. Header \notin ToSet(queue') /\ "sync" \notin ToSet(modem)
    <3>1. Number(queue, {Header}) = Number(queue', {Header}) + 1 /\ Number(queue', {Header}) \in Nat
      BY <1>1, TailNumbers
    <3>2. Number(queue', {Header}) = 0 /\ Headers # 0
      BY <2>3, <3>1 DEF Headers
    <3>3. ToSet(queue') \cap {Header} = {}
      BY <1>1, <3>2, TailNumbers
    <3> QED
      BY <3>2, <3>3 DEF Steady
  <2>10. Number(modem', {"sync", "heard"}) + Number(queue', {Synced}) <= 1
    BY <1>1, <2>3, <2>8, Counters DEF Radio
  <2>11. Number(modem', CountedOps') = 0 /\ ToSet(queue') \cap DoneEvents' = {}
    BY <1>1, <2>4, <2>7, <2>8
  <2>12. "sync" \notin ToSet(modem') /\ shell' # "sync"
    BY <1>1, <2>3, <2>9
  <2>13. Steady'
    BY <2>2, <2>6, <2>9, <2>10, <2>11, <2>12, FreshSteady
  <2> QED
    BY <1>2, <2>5, <2>13 DEF Single
<1>4. CASE ~rf.wait
  <2>1. UNCHANGED <<rf, list, strays>>
    BY <1>4 DEF TakePcc
  <2>2. Steady'
    BY <1>1, <2>1, TakingSteady
  <2> QED
    BY <1>2, <2>1, <2>2 DEF Single
<1> QED
  BY <1>3, <1>4

\* What a start gives the run, when nothing of an earlier one is listed or received.
LEMMA LaunchedOnce ==
  ASSUME TypeOK', NEW p, p.mode \in Modes, NEW n \in Nat, NEW ops \in Seq(ModemOps),
         Launch(p, n, ops), list = <<>>, strays = <<>>, rf'.mode = p.mode,
         rf'.wait => Waits(p) /\ n = 1, shell' = "sync" => ~rf'.wait /\ Waits(p),
         Number(ops, CountedOps') = 0, Number(ops, {"sync", "heard"}) = 0,
         ToSet(queue') \cap DoneEvents' = {}, Header \notin ToSet(queue'), Synced \notin ToSet(queue')
  PROVE  Steady' /\ strays' = <<>>
<1>1. <<>> \in Seq(Items) /\ queue' \in Seq(Events)
  BY DEF TypeOK
<1>2. Number(queue', {Synced}) = 0
  <2>1. ToSet(queue') \cap {Synced} = {}
    OBVIOUS
  <2> QED
    BY <1>1, <2>1, NumberNone
<1>3. strays' = <<>>
  <2>1. strays' = strays \o list
    BY DEF Launch, Schedule
  <2> QED
    BY <2>1
<1>4. CASE Waits(p)
  <2>1. list' = <<>> /\ modem' = ops \o IF n = 1 THEN <<"sync">> ELSE <<>>
    BY <1>4 DEF Launch
  <2>2. modem' = ops \/ modem' = Append(ops, "sync")
    <3>1. ops \o <<>> = ops /\ "sync" \in ModemOps
      BY DEF ModemOps
    <3>2. Append(ops, "sync") = ops \o <<"sync">>
      BY <3>1, AppendIsConcat
    <3> QED
      BY <2>1, <3>1, <3>2
  <2>3. "sync" \in ModemOps /\ "sync" \notin CountedOps'
    BY DEF ModemOps, CountedOps, Counts
  <2>4. Number(Append(ops, "sync"), CountedOps') = 0
    BY <2>3, NumberOther
  <2>5. Number(Append(ops, "sync"), {"sync", "heard"}) = 1
    <3>1. Number(Append(ops, "sync"), {"sync", "heard"})
            = Number(ops, {"sync", "heard"}) + IF "sync" \in {"sync", "heard"} THEN 1 ELSE 0
      BY <2>3, NumberAppend
    <3> QED
      BY <3>1
  <2>6. Number(list', CountedItems') = 0 /\ TakesTurns'
    BY <2>1, NothingListed
  <2>7. /\ Number(modem', CountedOps') = 0
        /\ Number(modem', {"sync", "heard"}) + Number(queue', {Synced}) <= 1
    <3>1. Number(modem', CountedOps') \in {Number(ops, CountedOps'), Number(Append(ops, "sync"), CountedOps')}
      BY <2>2, Zenon
    <3>2. Number(modem', {"sync", "heard"})
            \in {Number(ops, {"sync", "heard"}), Number(Append(ops, "sync"), {"sync", "heard"})}
      BY <2>2, Zenon
    <3> QED
      BY <1>2, <2>4, <2>5, <3>1, <3>2
  <2>8. Steady'
    BY <2>1, <2>6, <2>7, FreshSteady
  <2> QED
    BY <1>3, <2>8
<1>5. CASE ~Waits(p)
  <2>1. Schedule(p.mode, n) /\ modem' = ops
    BY <1>5 DEF Launch
  <2>2. /\ Number(list', CountedItems') \in Nat /\ Number(list', CountedItems') <= 1 /\ TakesTurns'
    BY <1>1, <2>1, ScheduledOnce
  <2>3. "sync" \notin ToSet(modem')
    BY <2>1, NumberNone
  <2>4. /\ Number(modem', CountedOps') = 0
        /\ Number(modem', {"sync", "heard"}) + Number(queue', {Synced}) <= 1
    BY <1>2, <2>1
  <2>5. ~rf'.wait /\ shell' # "sync"
    BY <1>5
  <2>6. Steady'
    BY <2>2, <2>3, <2>4, <2>5, FreshSteady
  <2> QED
    BY <1>3, <2>6
<1> QED
  BY <1>4, <1>5

\* The next interval starts.
LEMMA RestartSingle ==
  ASSUME TypeOK, TypeOK', NEW n \in 0 .. 2, Restart(n), Steady, strays = <<>>, ~Over
  PROVE  Single'
<1>0. rf.mode \in Modes /\ modem \in Seq(ModemOps) /\ n \in Nat
  BY DEF TypeOK, Typed
<1>1. PICK op \in {"rx", "tx", "cont"} : Handles(AllDone(op)) /\ Counts(op)
  BY DEF Restart
<1>2. /\ queue # <<>> /\ Head(queue) = AllDone(op) /\ queue' = Tail(queue) /\ shell' = shell
      /\ Launch(rf, n, modem) /\ rf' = [rf EXCEPT !.count = Counted, !.wait = (Waits(rf) /\ n = 1)]
  BY <1>1 DEF Restart, Handles, Takes, users
<1>3. Head(queue) \in DoneEvents
  BY <1>1, <1>2, DoneFacts DEF ItemOps
<1>4. rf'.mode = rf.mode /\ (rf'.wait <=> Waits(rf) /\ n = 1)
  BY <1>2 DEF TypeOK, Typed
<1>5. /\ list = <<>> /\ ~rf.wait /\ shell # "sync"
      /\ Number(modem, CountedOps) = 0 /\ Number(modem, {"sync", "heard"}) = 0
      /\ ToSet(queue') \cap DoneEvents = {}
      /\ Header \notin ToSet(queue') /\ Synced \notin ToSet(queue')
  BY <1>2, <1>3, IntervalOver
<1>6. CountedOps' = CountedOps /\ DoneEvents' = DoneEvents
  BY <1>4, SetsOfMode
<1>7. Number(modem, CountedOps') = 0 /\ ToSet(queue') \cap DoneEvents' = {} /\ shell' # "sync"
  BY <1>2, <1>5, <1>6
<1>8. Steady' /\ strays' = <<>>
  BY <1>0, <1>2, <1>4, <1>5, <1>7, LaunchedOnce
<1>9. ~Over'
  <2>1. ToSet(queue') \subseteq ToSet(queue)
    BY <1>2, HoldsTail DEF TypeOK
  <2> QED
    BY <2>1 DEF Over
<1> QED
  BY <1>8, <1>9 DEF Single

LEMMA ThreadSingle ==
  ASSUME OneInv, TypeOK', ThreadRuns
  PROVE  Single'
<1>0. TypeOK /\ Single
  BY DEF OneInv, GoInv
<1>1. queue # <<>> /\ astray' = astray
  BY DEF ThreadRuns, TakeCmdDone, TakeSynced, TakeCont, LastInterval, OtherDone, Drop, TakePcc,
         Restart, Handles, Takes, bounds
<1>2. rf'.on_going => rf.on_going /\ ~TakeCmdDone /\ ~Drop
  <2>1. TakeCmdDone => ~rf'.on_going
    BY <1>0 DEF TakeCmdDone, TypeOK, Typed
  <2>2. Drop => ~rf'.on_going /\ ~rf.on_going
    BY DEF Drop
  <2>3. ThreadRuns /\ ~TakeCmdDone /\ ~Drop => rf.on_going
    BY DEF ThreadRuns, TakeSynced, TakeCont, LastInterval, OtherDone, TakePcc, Restart, Handles
  <2> QED
    BY <2>1, <2>2, <2>3
<1> SUFFICES ASSUME rf'.on_going, ~astray'
             PROVE  Single'
  BY DEF Single
<1>3. strays = <<>> /\ rf.on_going
  BY <1>0, <1>1, <1>2 DEF Single
<1>4. CASE Over
  <2>1. Reaches(queue, CmdDone, InertEvents)
    BY <1>0, <1>1, <1>3, <1>4 DEF Single
  <2>2. Head(queue) # CmdDone
    <3>1. \A e \in {Synced, Header, Event("completed", "cont")} \cup {AllDone(op) : op \in ItemOps} :
            e # CmdDone
      BY EventFacts DEF Synced, Header, CmdDone
    <3>2. Head(queue) \in
            {Synced, Header, Event("completed", "cont")} \cup {AllDone(op) : op \in ItemOps}
      BY <1>2 DEF ThreadRuns, TakeSynced, TakeCont, LastInterval, OtherDone, TakePcc, Restart, Handles,
                  Takes, Synced, Header, ItemOps
    <3> QED
      BY <3>1, <3>2
  <2> QED
    BY <1>0, <1>1, <1>3, <2>1, <2>2, EndingThread
<1>5. CASE ~Over
  <2>1. Steady
    BY <1>0, <1>1, <1>3, <1>5 DEF Single
  <2>2. CASE TakeSynced
    BY <1>0, <1>3, <1>5, <2>1, <2>2, SyncedSingle
  <2>3. CASE LastInterval
    BY <1>0, <1>3, <2>1, <2>3, LastSingle
  <2>4. ASSUME NEW n \in 0 .. 2, TakePcc(n) \/ Restart(n)
        PROVE  Single'
    BY <1>0, <1>3, <1>5, <2>1, <2>4, HeaderSingle, RestartSingle
  <2>5. CASE TakeCont
    <3>1. strays' = <<>> /\ queue' = Append(Tail(queue), AllDone("cont"))
      BY <1>3, <2>5 DEF TakeCont
    <3>2. Steady'
      BY <1>0, <2>1, <2>5, TakeContSteady
    <3>3. ~Over'
      <4>1. PICK e \in Events : e = AllDone("cont") /\ e # CmdDone
        BY EventType, EventFacts DEF ItemOps, CmdDone
      <4>2. PICK rest \in Seq(Events) : rest = Tail(queue)
        BY <1>0, <1>1, TailNumbers
      <4>3. ToSet(Append(rest, e)) = ToSet(rest) \cup {e}
        BY HoldsAppend
      <4>4. ToSet(rest) \subseteq ToSet(queue)
        BY <1>0, <1>1, <4>2, HoldsTail DEF TypeOK
      <4> QED
        BY <1>5, <3>1, <4>1, <4>2, <4>3, <4>4 DEF Over, CmdDone
    <3> QED
      BY <3>1, <3>2, <3>3 DEF Single
  <2>6. CASE OtherDone
    <3>1. UNCHANGED <<rf, list, modem, shell, strays>> /\ queue' = Tail(queue)
      BY <2>6 DEF OtherDone, users
    <3>2. Steady'
      BY <1>0, <1>1, <2>1, <3>1, TakingSteady
    <3>3. ~Over'
      <4>1. ToSet(queue') \subseteq ToSet(queue)
        BY <1>0, <1>1, <3>1, HoldsTail DEF TypeOK
      <4> QED
        BY <1>5, <4>1 DEF Over
    <3> QED
      BY <1>3, <3>1, <3>2, <3>3 DEF Single
  <2> QED
    BY <1>2, <2>2, <2>3, <2>4, <2>5, <2>6 DEF ThreadRuns
<1> QED
  BY <1>4, <1>5

--------------------------------------------------------------------------------
(* The shell, for such a run.                                              *)

LEMMA NotOver == ASSUME queue' = <<>> PROVE ~Over'
BY HoldsEmpty DEF Over

LEMMA NoteSingle ==
  ASSUME OneInv, TypeOK', NoteWait
  PROVE  Single'
<1>0. TypeOK /\ Single
  BY DEF OneInv, GoInv
<1>1. /\ shell = "sync" /\ shell' = "idle" /\ queue = <<>> /\ rf' = [rf EXCEPT !.wait = TRUE]
      /\ UNCHANGED <<list, strays, modem, queue, astray>>
  BY DEF NoteWait, Shell
<1>2. rf'.on_going = rf.on_going /\ rf'.mode = rf.mode
  BY <1>0, <1>1 DEF TypeOK, Typed
<1> SUFFICES ASSUME rf.on_going, ~astray
             PROVE  Single'
  BY <1>1, <1>2 DEF Single
<1>3. ~Over /\ ~Over' /\ strays' = <<>>
  BY <1>0, <1>1, NotOver, HoldsEmpty DEF Single, Over
<1>4. Steady
  BY <1>0, <1>3 DEF Single
<1>5. /\ CountedItems' = CountedItems /\ CountedOps' = CountedOps /\ DoneEvents' = DoneEvents
      /\ Header' = Header /\ Synced' = Synced
  BY <1>2, SetsOfMode DEF Header, Synced
<1>6. /\ OnWay' = OnWay /\ Radio' = Radio /\ Headers' = Headers
      /\ OnTheMove' <=> OnTheMove
  BY <1>1, <1>5 DEF OnWay, Radio, Headers, OnTheMove
<1>7. Sorted' /\ TakesTurns'
  <2>1. Sorted'
    BY <1>1, <1>4, <1>5 DEF Steady, Sorted, NoneAfter
  <2>2. TakesTurns'
    BY <1>1, <1>2, <1>4 DEF Steady, TakesTurns
  <2> QED
    BY <2>1, <2>2
<1>8. list = <<>> /\ OnWay = 0
  BY <1>1, <1>4 DEF Steady
<1>9. Steady'
  BY <1>1, <1>4, <1>6, <1>7, <1>8 DEF Steady
<1> QED
  BY <1>3, <1>9 DEF Single

LEMMA StopSingle ==
  ASSUME OneInv, Stop
  PROVE  Single'
<1>0. TypeOK /\ Single /\ queue = <<>> /\ <<>> \in Seq(Events)
  BY NothingType DEF OneInv, GoInv, Stop, Shell
<1>1. queue' = Append(queue, CmdDone) /\ UNCHANGED <<rf, strays, astray>>
  BY DEF Stop, CmdDone, bounds
<1>2. CASE strays = <<>>
  <2>1. queue' = Append(<<>>, CmdDone) /\ ToSet(<<>>) \subseteq InertEvents
    BY <1>0, <1>1, HoldsEmpty
  <2>2. InertEvents' = InertEvents
    BY <1>1, SetsKept
  <2> QED
    BY <1>0, <1>1, <1>2, <2>1, <2>2, EndComes
<1>3. CASE strays # <<>>
  BY <1>0, <1>1, <1>3 DEF Single
<1> QED
  BY <1>2, <1>3

LEMMA StartSingle ==
  ASSUME TypeOK, TypeOK', NEW p, NEW n \in 0 .. 2, Start(p, n), p.mode \in Modes,
         p \in [on_going : BOOLEAN, mode : Modes, sync : BOOLEAN, continuous : BOOLEAN,
                count : Nat, wait : BOOLEAN],
         ~p.wait
  PROVE  Single'
<1>1. /\ queue' = <<>> /\ Launch(p, n, <<>>) /\ rf' = [p EXCEPT !.on_going = (n = Whole(p))]
      /\ shell' = IF Waits(p) /\ n = 1 THEN "sync" ELSE "idle"
      /\ astray' = (strays \o list # <<>>)
  BY DEF Start, Shell
<1>2. rf'.mode = p.mode /\ ~rf'.wait
  BY <1>1
<1> SUFFICES ASSUME ~astray'
             PROVE  Single'
  BY DEF Single
<1>3. list = <<>> /\ strays = <<>>
  <2>1. strays \o list = <<>> /\ strays \in Seq(Items) /\ list \in Seq(Items)
    BY <1>1 DEF TypeOK
  <2>2. Len(strays) + Len(list) = Len(strays \o list) /\ Len(strays) \in Nat /\ Len(list) \in Nat
    BY <2>1, ConcatProperties, LenProperties
  <2>3. Len(strays \o list) = 0
    BY <2>1
  <2>4. Len(strays) = 0 /\ Len(list) = 0
    BY <2>2, <2>3
  <2> QED
    BY <2>1, <2>4, EmptySeq
<1>4. /\ \A S : Number(<<>>, S) = 0
      /\ <<>> \in Seq(ModemOps) /\ n \in Nat /\ ToSet(queue') = {}
  BY <1>1, NumberEmpty, NothingType, HoldsEmpty
<1>5. shell' = "sync" => Waits(p)
  BY <1>1
<1>6. Steady' /\ strays' = <<>>
  <2>1. PICK ops \in Seq(ModemOps) : ops = <<>>
    BY <1>4
  <2>2. Launch(p, n, ops) /\ Number(ops, CountedOps') = 0 /\ Number(ops, {"sync", "heard"}) = 0
    BY <1>1, <1>4, <2>1
  <2>3. /\ ToSet(queue') \cap DoneEvents' = {}
        /\ Header \notin ToSet(queue') /\ Synced \notin ToSet(queue')
    BY <1>4
  <2>4. rf'.wait => Waits(p) /\ n = 1
    BY <1>2
  <2>5. shell' = "sync" => ~rf'.wait /\ Waits(p)
    BY <1>2, <1>5
  <2> QED
    BY <1>2, <1>3, <1>4, <2>2, <2>3, <2>4, <2>5, LaunchedOnce
<1> QED
  BY <1>1, <1>6, NotOver DEF Single

LEMMA UserSingle ==
  ASSUME OneInv, TypeOK', User
  PROVE  Single'
<1>1. ASSUME NEW mode \in Modes, NEW sync \in BOOLEAN, NEW continuous \in BOOLEAN,
             NEW n \in 0 .. 2, Start(Options(mode, sync, continuous), n)
      PROVE  Single'
  <2>1. PICK p : p = Options(mode, sync, continuous)
    OBVIOUS
  <2>2. /\ p \in [on_going : BOOLEAN, mode : Modes, sync : BOOLEAN, continuous : BOOLEAN,
                  count : Nat, wait : BOOLEAN]
        /\ ~p.wait
    BY <2>1 DEF Options
  <2>3. Start(p, n) /\ p.mode \in Modes
    BY <1>1, <2>1, <2>2
  <2> QED
    BY <2>2, <2>3, StartSingle DEF OneInv, GoInv
<1> QED
  BY <1>1, StopSingle DEF User

LEMMA SingleIsOne == OneInv => OneInterval
<1> SUFFICES ASSUME OneInv, rf.on_going, shell = "idle", ~astray
             PROVE  strays = <<>> /\ (~Ending => Drivers <= 1)
  BY DEF OneInterval
<1>1. TypeOK /\ Single
  BY DEF OneInv, GoInv
<1>2. strays = <<>> /\ (~Over => Steady)
  BY <1>1 DEF Single
<1> QED
  BY <1>1, <1>2, OverIsEnding, SteadyDrives

\* A run that shares the list with nothing has the operations of one interval only, and
\* one thing that decides how it goes on: for any number of frames, intervals, commands
\* and failures.
THEOREM IntervalsInTurn == RfSpec => []OneInterval
<1>1. RfInit => OneInv
  <2> SUFFICES ASSUME RfInit PROVE OneInv
    OBVIOUS
  <2>1. ~rf.on_going
    BY DEF RfInit, NoRun, Options
  <2> QED
    BY <2>1, GoingInitially DEF OneInv, Single
<1>2. OneInv /\ [RfNext]_vars => OneInv'
  <2> SUFFICES ASSUME OneInv, [RfNext]_vars
               PROVE  OneInv'
    OBVIOUS
  <2>1. GoInv /\ GoInv'
    BY GoingStays DEF OneInv
  <2>2. TypeOK /\ TypeOK' /\ Single
    BY <2>1 DEF OneInv, GoInv
  <2>3. CASE TakeDone
    <3>1. ~rf'.on_going
      BY <2>3 DEF TakeDone, NoRun, Options
    <3> QED
      BY <2>1, <3>1 DEF OneInv, Single
  <2>4. CASE UNCHANGED vars
    <3>1. UNCHANGED <<rf, list, strays, modem, queue, shell, astray>>
      BY <2>4 DEF vars, users, bounds
    <3>2. CountedItems' = CountedItems /\ CountedOps' = CountedOps /\ DoneEvents' = DoneEvents
          /\ InertEvents' = InertEvents /\ Header' = Header /\ Synced' = Synced /\ CmdDone' = CmdDone
      BY <3>1, SetsKept DEF Header, Synced, CmdDone
    <3>3. Steady => Steady'
      BY <3>1, <3>2 DEF Steady, OnWay, Radio, Headers, OnTheMove, Sorted, NoneAfter, TakesTurns
    <3>4. Single'
      BY <2>2, <3>1, <3>2, <3>3 DEF Single, Over, Reaches
    <3> QED
      BY <2>1, <3>4 DEF OneInv
  <2>5. CASE SchedulerRuns \/ ModemRuns \/ ThreadRuns \/ NoteWait \/ User
    <3>1. Single'
      BY <2>2, <2>5, SchedulerSingle, ModemSingle, ThreadSingle, NoteSingle, UserSingle
    <3> QED
      BY <2>1, <3>1 DEF OneInv
  <2> QED
    BY <2>3, <2>4, <2>5 DEF RfNext
<1> QED
  BY <1>1, <1>2, SingleIsOne, PTL DEF RfSpec

--------------------------------------------------------------------------------
(* The frame, RfFrame, for every value of its options.                     *)

\* What the two halves of a frame are made of.
LEMMA Fields ==
  ASSUME NEW p \in Params
  PROVE  /\ p.rx_offset \in Nat /\ p.rx \in Nat /\ p.rx_idle \in Nat
         /\ p.tx_offset \in Nat /\ p.tx \in Nat /\ p.tx_idle \in Nat
         /\ p.rx_offset <= 255 /\ p.rx <= 255 /\ p.rx_idle <= 255
         /\ p.tx_offset <= 255 /\ p.tx <= 255 /\ p.tx_idle <= 255
BY DEF Params

\* The later of two subslots is one of them and no earlier than the other.
LEMMA LaterBounds ==
  ASSUME NEW a \in Nat, NEW b \in Nat
  PROVE  /\ Later(a, b) \in Nat /\ a <= Later(a, b) /\ b <= Later(a, b)
         /\ Later(a, b) <= a + b
<1>1. CASE a > b
  BY <1>1 DEF Later
<1>2. CASE ~(a > b)
  BY <1>2 DEF Later
<1> QED
  BY <1>1, <1>2

\* Each operation ends within its frame, whatever the options: a turn never overlaps
\* the next turn of the same operation, nor an RX the TX of a frame before
\* (dect_phy_rf_tool_frame_len_subslots_get).
THEOREM TurnsApart ==
  ASSUME NEW p \in Params
  PROVE  /\ RxEnd(p) <= FrameLen("rx", p) /\ TxEnd(p) <= FrameLen("tx", p)
         /\ RxEnd(p) <= FrameLen("rx_tx", p) /\ TxEnd(p) <= FrameLen("rx_tx", p)
<1> DEFINE l == Later(RxPart(p), p.tx_offset)
<1>1. RxPart(p) \in Nat /\ RxEnd(p) \in Nat /\ RxEnd(p) <= RxPart(p)
  BY Fields DEF RxPart, RxEnd
<1>2. l \in Nat /\ RxPart(p) <= l /\ p.tx_offset <= l
  BY <1>1, Fields, LaterBounds
<1>3. /\ FrameLen("rx", p) = RxPart(p) /\ FrameLen("tx", p) = p.tx_offset + p.tx + p.tx_idle
      /\ FrameLen("rx_tx", p) = l + p.tx + p.tx_idle
  BY DEF FrameLen
<1> HIDE DEF l
<1> QED
  BY <1>1, <1>2, <1>3, Fields DEF TxEnd

\* A frame of any mode fits the uint16_t it is stored in (frame_len_subslots).
THEOREM FrameFits ==
  ASSUME NEW p \in Params, NEW mode \in FrameModes
  PROVE  FrameLen(mode, p) \in Nat /\ FrameLen(mode, p) <= 65535
<1> DEFINE l == Later(RxPart(p), p.tx_offset)
<1>1. RxPart(p) \in Nat /\ RxPart(p) <= 765
  BY Fields DEF RxPart
<1>2. l \in Nat /\ l <= 1020
  <2>1. l \in Nat /\ l <= RxPart(p) + p.tx_offset
    BY <1>1, Fields, LaterBounds
  <2> HIDE DEF l
  <2> QED
    BY <1>1, <2>1, Fields
<1>3. CASE mode = "rx"
  BY <1>1, <1>3 DEF FrameLen
<1>4. CASE mode = "tx"
  <2>1. FrameLen(mode, p) = p.tx_offset + p.tx + p.tx_idle
    BY <1>4 DEF FrameLen
  <2> QED
    BY <2>1, Fields
<1>5. CASE mode = "rx_tx"
  <2>1. FrameLen(mode, p) = l + p.tx + p.tx_idle
    BY <1>5 DEF FrameLen
  <2> HIDE DEF l
  <2> QED
    BY <1>2, <2>1, Fields
<1> QED
  BY <1>3, <1>4, <1>5 DEF FrameModes

\* With the default offset the RX and the TX of a frame do not overlap, provided the
\* RX part is shorter than 256 subslots: past that the offset wraps around and the
\* TX may fall on the RX (dect_phy_rf_tool_cmd).
THEOREM DefaultsApart ==
  ASSUME NEW p \in Params, RxPart(p) < 256, p.tx_offset = DefaultTxOffset("rx_tx", p)
  PROVE  RxEnd(p) <= p.tx_offset
<1>1. p.rx_offset \in Nat /\ p.rx \in Nat /\ p.rx_idle \in Nat
  BY Fields
<1>2. RxPart(p) \in Nat /\ RxPart(p) % 256 = RxPart(p)
  BY <1>1 DEF RxPart
<1> QED
  BY <1>1, <1>2 DEF DefaultTxOffset, RxEnd, RxPart

\* What both sides of a product bound, the products do.
LEMMA ProductBound ==
  ASSUME NEW a \in Nat, NEW b \in Nat, NEW c \in Nat, NEW d \in Nat, a <= b, c <= d
  PROVE  a * c <= b * d
<1>1. a * c <= b * c
  <2>1. PICK k \in Nat : b = a + k
    <3>1. b - a \in Nat /\ b = a + (b - a)
      OBVIOUS
    <3> QED
      BY <3>1
  <2>2. b * c = a * c + k * c /\ a * c \in Nat /\ k * c \in Nat
    BY <2>1
  <2> QED
    BY <2>2
<1>2. b * c <= b * d
  <2>1. PICK k \in Nat : d = c + k
    <3>1. d - c \in Nat /\ d = c + (d - c)
      OBVIOUS
    <3> QED
      BY <3>1
  <2>2. b * d = b * c + b * k /\ b * c \in Nat /\ b * k \in Nat
    BY <2>1
  <2> QED
    BY <2>2
<1>3. a * c \in Nat /\ b * c \in Nat /\ b * d \in Nat
  OBVIOUS
<1> QED
  BY <1>1, <1>2, <1>3

\* The duty cycle never exceeds 100 %, however many completions are counted, those of
\* an earlier run included: what is used fits in the frames of the interval
\* (dect_phy_rf_tool_rx_n_tx_duty_cycle_percent_calculate).
THEOREM DutyCycleBounded ==
  ASSUME NEW p \in Params, NEW mode \in FrameModes, NEW frames \in Nat,
         NEW rx_ops \in Nat, NEW tx_ops \in Nat
  PROVE  Used(mode, p, frames, rx_ops, tx_ops) <= frames * FrameLen(mode, p)
<1> DEFINE r == Fewest(rx_ops, frames)
<1> DEFINE t == Fewest(tx_ops, frames)
<1>1. /\ p.rx_offset \in Nat /\ p.rx \in Nat /\ p.rx_idle \in Nat
      /\ p.tx_offset \in Nat /\ p.tx \in Nat /\ p.tx_idle \in Nat
  BY Fields
<1>2. r \in Nat /\ t \in Nat /\ r <= frames /\ t <= frames
  BY DEF Fewest
<1>3. r * p.rx <= frames * p.rx /\ t * p.tx <= frames * p.tx
  BY <1>1, <1>2, ProductBound
<1>4. Active(mode, p) \in Nat /\ FrameLen(mode, p) \in Nat /\ Active(mode, p) <= FrameLen(mode, p)
  BY <1>1 DEF FrameModes, Active, FrameLen, RxPart, Later
<1>5. frames * Active(mode, p) <= frames * FrameLen(mode, p)
  BY <1>4, ProductBound
<1> HIDE DEF r, t
<1>6. /\ r * p.rx \in Nat /\ t * p.tx \in Nat /\ frames * p.rx \in Nat /\ frames * p.tx \in Nat
      /\ frames * Active(mode, p) \in Nat /\ frames * FrameLen(mode, p) \in Nat
      /\ frames * (p.rx + p.tx) = frames * p.rx + frames * p.tx
  BY <1>1, <1>2, <1>4
<1>7. Used(mode, p, frames, rx_ops, tx_ops) <= frames * Active(mode, p)
  <2>1. CASE mode = "rx"
    BY <1>3, <2>1 DEF Used, Active, r
  <2>2. CASE mode = "tx"
    BY <1>3, <2>2 DEF Used, Active, t
  <2>3. CASE mode = "rx_tx"
    <3>1. Used(mode, p, frames, rx_ops, tx_ops) = t * p.tx + r * p.rx
      BY <2>3 DEF Used, r, t
    <3>2. frames * Active(mode, p) = frames * p.rx + frames * p.tx
      BY <1>6, <2>3 DEF Active
    <3> QED
      BY <1>3, <1>6, <3>1, <3>2
  <2> QED
    BY <2>1, <2>2, <2>3 DEF FrameModes
<1>8. Used(mode, p, frames, rx_ops, tx_ops) \in Nat
  BY <1>6 DEF Used, FrameModes, r, t
<1> QED
  BY <1>5, <1>6, <1>7, <1>8
================================================================================
