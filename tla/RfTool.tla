--------------------------------- MODULE RfTool ---------------------------------
(***************************************************************************)
(* The RF tool, rf_tool/dect_phy_rf_tool.c: the shell that starts and      *)
(* stops it, its thread and queue, its operations in the scheduler's list, *)
(* the modem and control. A run sends or receives Frames frames in a row,  *)
(* which is an interval, and starts the next interval when the operation   *)
(* that it goes by is over; an RX mode may first wait for a header to      *)
(* synchronise with. All the scheduler tells it comes through the callback *)
(* of the last turn of an operation.                                       *)
(*                                                                         *)
(* Completions of other turns, and data received, are only counted in the  *)
(* metrics: they are not modelled. The modem refuses or fails an operation *)
(* that overlaps another at once. Control's thread is cooperative, the     *)
(* tool's thread preempts the shell.                                       *)
(***************************************************************************)
EXTENDS Naturals, Sequences, SequencesExt, FiniteSets

CONSTANTS
  Frames,     \* frame_repeat_count
  Intervals,  \* frame_repeat_count_intervals
  MaxTroubles,\* bound: operations refused, or dropped from the list
  Backlog,    \* bound: events left to the thread when there is another one
  MaxStrays,  \* bound: operations astray before they have their turn first
  MaxCommands \* bound: rf_tool commands, stops included

ASSUME RfAssumption ==
  /\ Frames \in Nat \ {0} /\ Intervals \in Nat \ {0} /\ MaxTroubles \in Nat
  /\ Backlog \in Nat /\ MaxStrays \in Nat /\ MaxCommands \in Nat

Modes == {"tx", "rx", "rx_tx", "rx_cont"}

VARIABLES
  rf,       \* rf_tool_data: on_going, the options, the intervals done, rx_wait_for_synch
  list,     \* the scheduler's list: the operations of the last interval started,
  strays,   \* and those listed for earlier intervals or runs
  modem,    \* the last turns, and the RXs of the tool, that the modem has taken
  queue,    \* dect_phy_rf_tool_op_event_msgq
  tool,     \* ctrl_data.cert_ongoing, as long as the modem's handler is the tool's
  done,     \* DECT_PHY_CTRL_OP_RF_TOOL_CMD_DONE is in the queue of control
  shell,    \* "sync": the start has not noted yet that it waits for a header
  commands, \* rf_tool commands so far
  troubles, \* what went wrong so far
  hitch,    \* history: what keeps the run from going on by itself
  astray    \* history: the run shares the list with operations it does not know of

bounds == <<troubles, hitch, astray>>
users == <<shell, commands>>
vars == <<rf, list, strays, modem, queue, tool, done, users, bounds>>

Options(mode, sync, continuous) ==
  [on_going |-> FALSE, mode |-> mode, sync |-> sync, continuous |-> continuous,
   count |-> 0, wait |-> FALSE]
NoRun == Options("tx", FALSE, FALSE)

RfInit ==
  /\ rf = NoRun
  /\ list = <<>> /\ strays = <<>> /\ modem = <<>> /\ queue = <<>>
  /\ tool = FALSE /\ done = FALSE /\ shell = "idle" /\ commands = 0
  /\ troubles = 0 /\ hitch = FALSE /\ astray = FALSE

Event(id, op) == [id |-> id, op |-> op]
AllDone(op) == Event("all_done", op)

\* Something may go wrong, within the bound.
May(trouble) ==
  /\ trouble => troubles < MaxTroubles
  /\ troubles' = IF trouble THEN troubles + 1 ELSE troubles

\* What a mode schedules for an interval, in this order.
Operations(mode) ==
  CASE mode = "rx_tx" -> <<"rx", "tx">> [] mode = "rx_cont" -> <<"cont">> [] OTHER -> <<mode>>

Item(op) == [op |-> op, left |-> IF op = "cont" THEN 1 ELSE Frames]

\* dect_phy_rf_tool_operations_schedule(): the scheduler takes the first n.
Schedule(mode, n) ==
  /\ n <= Len(Operations(mode))
  /\ list' = [i \in 1 .. n |-> Item(Operations(mode)[i])]
  /\ strays' = strays \o list

Waits(p) == p.sync /\ p.mode # "tx"
Whole(p) == IF Waits(p) THEN 1 ELSE Len(Operations(p.mode))

Receives(ops) == \E i \in DOMAIN ops : ops[i] \in {"sync", "heard", "cont"}

\* dect_phy_rf_tool_start(): the modem gets an RX to synchronise, or the scheduler
\* the operations. Of the Whole(p) requests n succeed; the modem refuses an RX at once
\* while another one is on.
Launch(p, n, ops) ==
  /\ IF Waits(p)
     THEN /\ n <= IF Receives(ops) THEN 0 ELSE 1
          /\ list' = <<>> /\ strays' = strays \o list
          /\ modem' = ops \o IF n = 1 THEN <<"sync">> ELSE <<>>
          /\ May(n = 0 /\ ~Receives(ops))
     ELSE Schedule(p.mode, n) /\ modem' = ops /\ May(n < Whole(p))

--------------------------------------------------------------------------------
(* The scheduler.                                                          *)

\* A turn is "sent", or it "failed": refused by the modem, or late. What is left of
\* the operation is listed again; the list may refuse it, after a turn that went to
\* the modem ("concluded") or a late one ("dropped").
Outcomes(item) == {"sent", "failed"} \cup IF item.left > 1 THEN {"concluded", "dropped"} ELSE {}

Again(item, outcome) ==
  IF item.left > 1 /\ outcome \in {"sent", "failed"}
  THEN <<[item EXCEPT !.left = @ - 1]>> ELSE <<>>

\* Of the last turn the tool is told when the modem is done with it, or at once; of
\* an RX in RX_CONT mode by the modem alone. Intervals are seconds apart: the modem is
\* done with the last turn of one before the next one of its kind is sent.
Turn(item, outcome) ==
  /\ ~Contains(modem, item.op) /\ ~Contains(modem, "heard")
  /\ modem' = IF item.left = 1 /\ outcome = "sent" THEN Append(modem, item.op) ELSE modem
  /\ queue' = IF \/ outcome = "concluded"
                 \/ item.left = 1 /\ outcome = "failed" /\ item.op # "cont"
              THEN Append(queue, AllDone(item.op)) ELSE queue
  /\ May(outcome \in {"concluded", "dropped"} \/ (outcome = "failed" /\ item.op = "cont"))
  /\ UNCHANGED <<rf, tool, done, users>>

\* The operation an interval goes by.
Counts(op) ==
  op = "tx" \/ (op = "rx" /\ rf.mode = "rx") \/ (op = "cont" /\ rf.mode = "rx_cont")

\* Nobody is told when an operation is dropped, or an RX in RX_CONT mode failed. A TX
\* that is concluded early leaves an RX in the list.
OwnTurn(outcome) ==
  /\ list # <<>> /\ Len(strays) <= MaxStrays
  /\ LET item == Head(list) IN
     /\ outcome \in Outcomes(item) /\ Turn(item, outcome)
     /\ list' = Tail(list) \o Again(item, outcome)
     /\ hitch' = (hitch \/ /\ Counts(item.op)
                           /\ outcome = "dropped" \/ (outcome = "failed" /\ item.op = "cont"))
     /\ astray' = (astray \/ (outcome = "concluded" /\ Len(list) > 1))
  /\ UNCHANGED strays

\* Those astray take turns with each other as the operations of an interval do.
StrayTurn(outcome) ==
  /\ strays # <<>>
  /\ LET item == Head(strays) IN
     /\ outcome \in Outcomes(item) /\ Turn(item, outcome)
     /\ strays' = Tail(strays) \o Again(item, outcome)
  /\ UNCHANGED <<list, hitch, astray>>

SchedulerRuns ==
  /\ Len(queue) <= Backlog
  /\ \E outcome \in {"sent", "failed", "concluded", "dropped"} :
       OwnTurn(outcome) \/ StrayTurn(outcome)

--------------------------------------------------------------------------------
(* The modem.                                                              *)

\* The RX to synchronise receives a valid header. Another one only ends it.
Hears(i) ==
  /\ modem[i] = "sync" /\ modem' = [modem EXCEPT ![i] = "heard"]
  /\ queue' = Append(queue, Event("pcc", "sync"))
  /\ UNCHANGED <<rf, list, strays, tool, done, users, bounds>>

\* The last turn of an operation is reported by the scheduler, whoever handles the
\* modem's events; the RXs without a callback only by the tool's handler.
Told(op) ==
  CASE op \in {"rx", "tx"} -> <<AllDone(op)>>
    [] op = "cont" -> IF tool THEN <<Event("completed", "cont")>> ELSE <<>>
    [] OTHER -> IF tool THEN <<Event("completed", "sync")>> ELSE <<>>

\* In order, but for a turn that fails since an RX of up to a minute overlaps it.
Ends(i) ==
  /\ \A j \in 1 .. i - 1 : modem[j] \in {"sync", "cont"}
  /\ modem' = RemoveAt(modem, i) /\ queue' = queue \o Told(modem[i])
  /\ UNCHANGED <<rf, list, strays, tool, done, users, bounds>>

ModemRuns == Len(queue) <= Backlog /\ \E i \in DOMAIN modem : Hears(i) \/ Ends(i)

--------------------------------------------------------------------------------
(* The thread of the tool.                                                 *)

Takes(event) == queue # <<>> /\ Head(queue) = event

\* Mutant of TakeCmdDone: control is not told.
TakeCmdDone_Silent ==
  /\ Takes(Event("cmd_done", "")) /\ queue' = Tail(queue)
  /\ rf' = [rf EXCEPT !.on_going = FALSE]
  /\ UNCHANGED <<list, strays, modem, tool, done, users, bounds>>

\* dect_phy_rf_tool_cmd_done()
TakeCmdDone ==
  /\ Takes(Event("cmd_done", "")) /\ queue' = Tail(queue)
  /\ rf' = [rf EXCEPT !.on_going = FALSE] /\ done' = TRUE
  /\ UNCHANGED <<list, strays, modem, tool, users, bounds>>

Handles(event) == rf.on_going /\ Takes(event)

\* The RX to synchronise is over: without a header that is the end of the run.
TakeSynced ==
  /\ Handles(Event("completed", "sync"))
  /\ queue' = Tail(queue) \o IF rf.wait THEN <<Event("cmd_done", "")>> ELSE <<>>
  /\ UNCHANGED <<rf, list, strays, modem, tool, done, users, bounds>>

\* Mutant of TakeCont: the end of an RX in RX_CONT mode is only counted.
TakeCont_Counted ==
  /\ Handles(Event("completed", "cont")) /\ queue' = Tail(queue)
  /\ UNCHANGED <<rf, list, strays, modem, tool, done, users, bounds>>

TakeCont ==
  /\ Handles(Event("completed", "cont")) /\ queue' = Append(Tail(queue), AllDone("cont"))
  /\ UNCHANGED <<rf, list, strays, modem, tool, done, users, bounds>>

\* Mutant of TakePcc: a header schedules nothing when it comes before the end of the RX.
TakePcc_Waits(n) ==
  /\ Handles(Event("pcc", "sync")) /\ n = 0 /\ queue' = Tail(queue)
  /\ rf' = [rf EXCEPT !.wait = FALSE]
  /\ UNCHANGED <<list, strays, modem, tool, done, users, bounds>>

\* Mutant of TakePcc: the run still waits for a header.
TakePcc_Keeps(n) ==
  /\ Handles(Event("pcc", "sync")) /\ queue' = Tail(queue)
  /\ IF rf.wait THEN Schedule(rf.mode, n) /\ May(n < Len(Operations(rf.mode)))
     ELSE n = 0 /\ UNCHANGED <<list, strays, troubles>>
  /\ hitch' = (hitch \/ (rf.wait /\ n < Len(Operations(rf.mode))))
  /\ UNCHANGED <<rf, modem, tool, done, users, astray>>

\* The header to synchronise with: whether the scheduler takes the operations is not
\* looked at.
TakePcc(n) ==
  /\ Handles(Event("pcc", "sync")) /\ queue' = Tail(queue)
  /\ IF rf.wait
     THEN /\ Schedule(rf.mode, n) /\ rf' = [rf EXCEPT !.wait = FALSE]
          /\ May(n < Len(Operations(rf.mode)))
          /\ hitch' = (hitch \/ n < Len(Operations(rf.mode)))
     ELSE n = 0 /\ UNCHANGED <<rf, list, strays, troubles, hitch>>
  /\ UNCHANGED <<modem, tool, done, users, astray>>

\* The count stays where it decides nothing any more.
Counted == IF rf.continuous \/ rf.count = Intervals THEN rf.count ELSE rf.count + 1
GoesOn == rf.continuous \/ Counted < Intervals

\* An interval is over and the next one starts, or so it should.
Restart(n) ==
  /\ \E op \in {"rx", "tx", "cont"} : Handles(AllDone(op)) /\ Counts(op)
  /\ GoesOn /\ queue' = Tail(queue)
  /\ Launch(rf, n, modem)
  /\ rf' = [rf EXCEPT !.count = Counted, !.wait = Waits(rf) /\ n = 1]
  /\ hitch' = (hitch \/ n < Whole(rf))
  /\ UNCHANGED <<tool, done, users, astray>>

LastInterval ==
  /\ \E op \in {"rx", "tx", "cont"} : Handles(AllDone(op)) /\ Counts(op)
  /\ ~GoesOn /\ queue' = Append(Tail(queue), Event("cmd_done", ""))
  /\ rf' = [rf EXCEPT !.count = Counted]
  /\ UNCHANGED <<list, strays, modem, tool, done, users, bounds>>

OtherDone ==
  /\ \E op \in {"rx", "tx", "cont"} : Handles(AllDone(op)) /\ ~Counts(op)
  /\ queue' = Tail(queue)
  /\ UNCHANGED <<rf, list, strays, modem, tool, done, users, bounds>>

\* Without a run all but the end of one is dropped.
Drop ==
  /\ ~rf.on_going /\ queue # <<>> /\ Head(queue).id # "cmd_done" /\ queue' = Tail(queue)
  /\ UNCHANGED <<rf, list, strays, modem, tool, done, users, bounds>>

ThreadRuns ==
  \/ TakeCmdDone \/ TakeSynced \/ TakeCont \/ LastInterval \/ OtherDone \/ Drop
  \/ \E n \in 0 .. 2 : TakePcc(n) \/ Restart(n)

--------------------------------------------------------------------------------
(* Control and the shell.                                                  *)

\* RF_TOOL_CMD_DONE: the modem's operations are cancelled, what the tool is told of
\* them is dropped, and control takes the modem back. The list is left alone. What is
\* in rf_tool_data is not read any more, and is forgotten here.
TakeDone ==
  /\ done /\ done' = FALSE /\ tool' = FALSE /\ modem' = <<>>
  /\ rf' = NoRun /\ hitch' = FALSE /\ astray' = FALSE
  /\ UNCHANGED <<list, strays, queue, users, troubles>>

\* The shell's turn.
Shell(label) == shell = label /\ queue = <<>> /\ ~done

\* dect_phy_ctrl_rf_tool_cmd(). A start that failed may leave an RX in the list.
Start(p, n) ==
  /\ Shell("idle") /\ ~tool /\ commands < MaxCommands /\ commands' = commands + 1
  /\ Launch(p, n, <<>>)
  /\ rf' = [p EXCEPT !.on_going = n = Whole(p)]
  /\ tool' = TRUE /\ done' = (n < Whole(p))
  /\ shell' = IF Waits(p) /\ n = 1 THEN "sync" ELSE "idle"
  /\ hitch' = FALSE /\ astray' = (strays \o list # <<>>)
  /\ UNCHANGED queue

\* rx_wait_for_synch is set when the RX has been started: too late for a header, or
\* an end of the RX, that the thread has handled by then.
NoteWait ==
  /\ Shell("sync") /\ shell' = "idle" /\ rf' = [rf EXCEPT !.wait = TRUE]
  /\ hitch' = (hitch \/ (~Contains(modem, "sync") /\ ~Contains(modem, "heard")))
  /\ UNCHANGED <<list, strays, modem, queue, tool, done, commands, troubles, astray>>

Stop ==
  /\ Shell("idle") /\ rf.on_going /\ commands < MaxCommands /\ commands' = commands + 1
  /\ queue' = Append(queue, Event("cmd_done", ""))
  /\ UNCHANGED <<rf, list, strays, modem, tool, done, shell, bounds>>

\* dect_phy_rf_tool_cmd(): the options.
User ==
  \/ \E mode \in Modes, sync, continuous \in BOOLEAN, n \in 0 .. 2 :
       /\ sync => mode # "tx"
       /\ Start(Options(mode, sync, continuous), n)
  \/ Stop

RfNext == User \/ NoteWait \/ SchedulerRuns \/ ModemRuns \/ ThreadRuns \/ TakeDone

RfSpec == RfInit /\ [][RfNext]_vars

\* The kernel runs ready threads, the scheduler comes to every listed operation and
\* the modem ends what it took. The shell goes on in the pauses of the thread.
RfFairness ==
  /\ WF_vars(ThreadRuns) /\ WF_vars(TakeDone) /\ SF_vars(NoteWait)
  /\ WF_vars(SchedulerRuns) /\ WF_vars(ModemRuns)
FairRfSpec == RfSpec /\ RfFairness

--------------------------------------------------------------------------------
(* Properties.                                                             *)

Heard == Contains(queue, Event("pcc", "sync"))
Ending == Contains(queue, Event("cmd_done", ""))

\* What makes the run go on: an operation listed, or with the modem, that it goes by,
\* or an event that starts or ends something.
Driver(op) ==
  \/ Counts(op)
  \/ op = "sync" /\ Waits(rf)
  \/ op = "heard" /\ rf.wait /\ ~Heard

DrivingEvent(event) ==
  CASE event.id = "pcc" -> rf.wait
    [] event = Event("completed", "sync") -> rf.wait /\ ~Heard
    [] event.id = "cmd_done" -> FALSE
    [] OTHER -> Counts(event.op)

Drivers ==
  Cardinality({i \in DOMAIN list : Counts(list[i].op)})
    + Cardinality({i \in DOMAIN strays : Counts(strays[i].op)})
    + Cardinality({i \in DOMAIN modem : Driver(modem[i])})
    + Cardinality({i \in DOMAIN queue : DrivingEvent(queue[i])})

\* A run that is on going, and not about to end, has what drives it: no end of an
\* operation, header or refusal is the last thing that happens to it. Only what the
\* code leaves unchecked (hitch) stops it halfway.
Driven == rf.on_going /\ shell = "idle" /\ ~Ending /\ ~hitch => Drivers >= 1

\* Intervals come one after the other: the next one is scheduled when nothing of the
\* last one is listed any more, and one thing only decides how the run goes on.
OneInterval ==
  rf.on_going /\ shell = "idle" /\ ~astray =>
    /\ strays = <<>>
    /\ ~Ending => Drivers <= 1

\* Control has lent the modem exactly to a run that is on going or about to be handed
\* back, whatever failed to start or was stopped.
ToolAgrees == (rf.on_going => tool) /\ (tool => rf.on_going \/ done)

\* A run that is not continuous ends by itself, and one that is stopped ends.
RunEnds ==
  /\ rf.on_going /\ ~rf.continuous ~> ~rf.on_going \/ hitch
  /\ Ending ~> ~rf.on_going
================================================================================
