-------------------------------- MODULE PhyCtrl --------------------------------
(***************************************************************************)
(* The commands of dect_phy_ctrl.c: RSSI scans, continuous reception, and  *)
(* the tools that take the modem over (perf, ping, rf_tool), with the two  *)
(* threads behind them: the control thread of dect_phy_ctrl.c, which gets  *)
(* the completions, and the RX thread of dect_phy_rx.c, which starts the   *)
(* operations of dect_phy_scan.c in the modem.                             *)
(*                                                                         *)
(* The control thread is cooperative: what it does between two waits is    *)
(* one step. dect_phy_ctrl_mdm_op_cancel_all() waits for the modem, so the *)
(* operations are cancelled in one step and the caller goes on in another, *)
(* at the label of pc. "work" is the work queue of the control module,     *)
(* whose items (the beacon) may wait for rssi_scan_sema.                   *)
(***************************************************************************)
EXTENDS Naturals, Sequences, FiniteSets, SequencesExt

CONSTANTS
  Scans,       \* parameters of the RSSI scans users start
  Receptions,  \* parameters of the receptions users start
  Tools,       \* tools users start
  Stops,       \* what users stop: of "scan" and "rx"
  Channels,    \* number of channels of the band
  Refuses,     \* the operations the modem may refuse to start: of "measure" and "rx"
  Exhausts,    \* what may be exhausted: of "heap" and "queue", the RX thread's
  MaxCommands  \* bound: commands started

\* all: channel 0, every channel of the band. interval: interval_secs is set.
ScanParams == [suspend : BOOLEAN, interval : BOOLEAN, all : BOOLEAN]
RxParams == [suspend : BOOLEAN, all : BOOLEAN]

ASSUME PhyCtrlAssumption ==
  /\ Scans \subseteq ScanParams /\ Receptions \subseteq RxParams
  /\ Tools \subseteq {"perf", "ping", "rf_tool"} /\ Stops \subseteq {"scan", "rx"}
  /\ Channels \in Nat \ {0} /\ MaxCommands \in Nat
  /\ Refuses \subseteq {"measure", "rx"} /\ Exhausts \subseteq {"heap", "queue"}

VARIABLES
  ctrl,       \* ctrl_data: the commands on going and their parameters
  ext,        \* ext_command_running and the callbacks registered with it
  scan,       \* rssi_scan_data; measured: a measurement of the channel is stored
  sema,       \* rssi_scan_sema; "failed" when it was reset under a waiting thread
  timer,      \* rssi_scan_timer runs
  suspended,  \* the scheduler is suspended
  ctrlQ,      \* dect_phy_ctrl_msgq
  rxQ,        \* dect_phy_rx_th_op_event_msgq
  modem,      \* operations of control in the modem
  handler,    \* whose event handler the modem calls
  pc,         \* where the shell, the work queue and the control thread wait
  behind,     \* threads that asked to cancel when the control thread was at it
  commands    \* commands started

users == <<ext, handler, commands>>
vars == <<ctrl, ext, scan, sema, timer, suspended, ctrlQ, rxQ, modem, handler, pc, behind, commands>>
threads == <<pc, behind>>

NoScan == [suspend |-> FALSE, interval |-> FALSE, all |-> FALSE]
NoRx == [suspend |-> FALSE, all |-> FALSE]
Cleared == [on_going |-> FALSE, callback |-> FALSE, channel |-> 0, all |-> FALSE, measured |-> FALSE]
NoCallbacks == [running |-> FALSE, callbacks |-> {}]

Init ==
  /\ ctrl = [rssi_scan_ongoing |-> FALSE, rssi_scan_cmd_running |-> FALSE, rssi_scan_params |-> NoScan,
             rx_cmd_on_going |-> FALSE, rx_cmd_params |-> NoRx, rx_channel |-> 0, tools |-> {}]
  /\ ext = NoCallbacks /\ scan = Cleared
  /\ sema = "empty" /\ timer = FALSE /\ suspended = FALSE
  /\ ctrlQ = <<>> /\ rxQ = <<>> /\ modem = <<>> /\ handler = "ctrl"
  /\ pc = [t \in {"shell", "work", "ctrl"} |-> "idle"] /\ behind = {} /\ commands = 0

--------------------------------------------------------------------------------
(* Shared steps.                                                           *)

Msg(id) == [id |-> id, op |-> "none", ok |-> TRUE]
Done(tool) == [id |-> "done", op |-> tool, ok |-> TRUE]
Completed(op, ok) == [id |-> "completed", op |-> op.op, ok |-> ok]

\* What the control thread gets when operations end; a tool's handler drops it.
Ended(ops, ok) ==
  IF handler = "ctrl" THEN [i \in DOMAIN ops |-> Completed(ops[i], ok)] ELSE <<>>

\* dect_phy_ctrl_mdm_op_cancel_all(): every operation ends with an error.
CancelAll(queue) == modem' = <<>> /\ ctrlQ' = queue \o Ended(modem, FALSE)

\* k_sem_reset(&rssi_scan_sema): a waiting thread gets -EAGAIN.
ResetSema == sema' = IF pc["work"] = "wait" THEN "failed" ELSE "empty"

\* dect_phy_rx_phy_measure_rssi_op_add() and dect_phy_rx_msgq_data_op_add().
AddRx(op, added) == rxQ' = IF added THEN Append(rxQ, op) ELSE rxQ
Added == {TRUE} \cup {FALSE : q \in Exhausts \cap {"queue"}}

\* A thread waits for its cancel, at a label, and goes on. The mutex of
\* dect_phy_ctrl_mdm_op_cancel_all() and the priority of the control thread keep
\* those behind it from going on first.
Waits(t, label) ==
  /\ pc' = [pc EXCEPT ![t] = label]
  /\ behind' = IF t = "ctrl" \/ pc["ctrl"] = "idle" THEN behind ELSE behind \cup {t}

\* Mutant of GoesOn: the control thread has no priority.
GoesOn_Unordered(t, label, next) ==
  /\ pc[t] = label /\ pc' = [pc EXCEPT ![t] = next]
  /\ behind' = IF t = "ctrl" THEN {} ELSE behind

GoesOn(t, label, next) ==
  /\ pc[t] = label /\ t \notin behind /\ pc' = [pc EXCEPT ![t] = next]
  /\ behind' = IF t = "ctrl" THEN {} ELSE behind

\* dect_phy_ctrl_op_ongoing(); a reception does not count.
OpOngoing ==
  ctrl.rssi_scan_ongoing \/ ctrl.tools # {} \/ ext.running

\* A command of the user: the shell is free, and within the bound.
Command == pc["shell"] = "idle" /\ commands < MaxCommands /\ commands' = commands + 1

--------------------------------------------------------------------------------
(* RSSI scans.                                                             *)

RunScan == ctrlQ' = Append(ctrlQ, Msg("run"))

\* Mutant of StartScan: a second scan is not refused.
StartScan_Twice(t, params) ==
  /\ ResetSema
  /\ ctrl' = [ctrl EXCEPT !.rssi_scan_ongoing = TRUE, !.rssi_scan_cmd_running = TRUE,
                          !.rssi_scan_params = params]
  /\ IF params.suspend THEN CancelAll(ctrlQ) /\ Waits(t, "suspend")
     ELSE RunScan /\ UNCHANGED <<modem, threads>>
  /\ UNCHANGED <<scan, timer, suspended, rxQ>>

\* dect_phy_ctrl_rssi_scan_start() in thread t, up to the answer to its cancel.
StartScan(t, params) ==
  /\ ~ctrl.rssi_scan_ongoing
  /\ ResetSema
  /\ ctrl' = [ctrl EXCEPT !.rssi_scan_ongoing = TRUE, !.rssi_scan_cmd_running = TRUE,
                          !.rssi_scan_params = params]
  /\ IF params.suspend THEN CancelAll(ctrlQ) /\ Waits(t, "suspend")
     ELSE RunScan /\ UNCHANGED <<modem, threads>>
  /\ UNCHANGED <<scan, timer, suspended, rxQ>>

\* ... and from there.
ScanSuspends(t, next) ==
  /\ GoesOn(t, "suspend", next)
  /\ suspended' = TRUE /\ RunScan
  /\ UNCHANGED <<ctrl, scan, sema, timer, rxQ, modem>>

\* dect_phy_ctrl_rssi_scan_stop(), which leaves the operation in the modem.
StopScan ==
  /\ ctrl' = [ctrl EXCEPT !.rssi_scan_ongoing = FALSE, !.rssi_scan_cmd_running = FALSE]
  /\ scan' = [scan EXCEPT !.on_going = FALSE]
  /\ ResetSema /\ timer' = FALSE /\ suspended' = FALSE
  /\ UNCHANGED <<ctrlQ, rxQ, modem>>

\* dect_phy_scan_rssi_start(): the first channel is measured. A failure of the
\* heap stops the scan; one of the queue does not.
FirstChannel(label) ==
  \/ /\ "heap" \in Exhausts
     /\ ctrl' = [ctrl EXCEPT !.rssi_scan_ongoing = FALSE, !.rssi_scan_cmd_running = FALSE]
     /\ scan' = Cleared /\ ResetSema /\ timer' = FALSE /\ suspended' = FALSE
     /\ UNCHANGED rxQ
  \/ /\ scan' = [Cleared EXCEPT !.on_going = TRUE, !.callback = TRUE, !.channel = 1,
                                !.all = ctrl.rssi_scan_params.all]
     /\ \E added \in Added : AddRx("measure", added)
     /\ suspended' = (suspended \/ label = "suspend")
     /\ UNCHANGED <<ctrl, sema, timer>>

\* DECT_PHY_CTRL_OP_RSSI_SCAN_RUN in the control thread.
Runs ==
  ctrl.rssi_scan_ongoing \/ (ctrl.rssi_scan_cmd_running /\ ctrl.rssi_scan_params.interval)

TakeRun ==
  /\ Head(ctrlQ).id = "run"
  /\ \/ ~Runs /\ ctrlQ' = Tail(ctrlQ)
        /\ UNCHANGED <<ctrl, scan, sema, timer, suspended, rxQ, modem, threads>>
     \/ Runs /\ ~ctrl.rssi_scan_params.suspend /\ FirstChannel("none")
        /\ ctrlQ' = Tail(ctrlQ) /\ UNCHANGED <<modem, threads>>
     \/ Runs /\ ctrl.rssi_scan_params.suspend
        /\ CancelAll(Tail(ctrlQ)) /\ Waits("ctrl", "suspend")
        /\ UNCHANGED <<ctrl, scan, sema, timer, suspended, rxQ>>

CtrlSuspends ==
  /\ GoesOn("ctrl", "suspend", "idle") /\ FirstChannel("suspend")
  /\ UNCHANGED <<ctrlQ, modem>>

\* Mutant of ScanCompleted: the scan stays on going after an error.
ScanCompleted_KeepsGoing(ok) ==
  /\ ctrl' = [ctrl EXCEPT !.rssi_scan_ongoing = ~ok]
  /\ IF ok THEN sema' = "given" ELSE ResetSema
  /\ suspended' = FALSE
  /\ timer' = (timer \/ (ctrl.rssi_scan_cmd_running /\ ctrl.rssi_scan_params.interval))

\* dect_phy_rssi_channel_scan_completed_cb().
ScanCompleted(ok) ==
  /\ ctrl' = [ctrl EXCEPT !.rssi_scan_ongoing = FALSE]
  /\ IF ok THEN sema' = "given" ELSE ResetSema
  /\ suspended' = FALSE
  /\ timer' = (timer \/ (ctrl.rssi_scan_cmd_running /\ ctrl.rssi_scan_params.interval))

\* rssi_scan_done of dect_phy_scan.c.
ScanDone(ok) ==
  /\ scan' = [scan EXCEPT !.on_going = FALSE]
  /\ IF scan.callback THEN ScanCompleted(ok) ELSE UNCHANGED <<ctrl, sema, suspended, timer>>
  /\ UNCHANGED rxQ

MoreChannels == scan.on_going /\ scan.all /\ scan.channel < Channels

\* dect_phy_scan_rssi_finished_handle(): the next channel, unless the scan is
\* stopped, failed, ends at a free channel, or is at the last one.
Finished(ok) ==
  \/ ScanDone(ok)
  \/ /\ ok /\ MoreChannels
     /\ scan' = [scan EXCEPT !.channel = @ + 1, !.measured = FALSE]
     /\ \E added \in Added : AddRx("measure", added)
     /\ UNCHANGED <<ctrl, sema, suspended, timer>>

TimerFires ==
  /\ timer /\ timer' = FALSE /\ RunScan
  /\ UNCHANGED <<ctrl, scan, sema, suspended, rxQ, modem, threads, users>>

--------------------------------------------------------------------------------
(* Reception.                                                              *)

\* The end of dect_phy_ctrl_rx_start(): the operation is handed to the RX
\* thread, which clears what an RSSI scan has stored.
Receive(params, channel, added) ==
  /\ ctrl' = [ctrl EXCEPT !.rx_cmd_params = params, !.rx_channel = channel,
                          !.rx_cmd_on_going = added \/ @]
  /\ scan' = Cleared /\ AddRx("rx", added)

\* dect_phy_ctrl_rx_start() of the shell, up to the answer to its cancel. (Its
\* parameters wait in rx_cmd_params, which nobody reads before rx_cmd_on_going.)
StartRx(params) ==
  /\ ~ctrl.rx_cmd_on_going
  /\ IF params.suspend
     THEN /\ CancelAll(ctrlQ) /\ Waits("shell", "rx")
          /\ ctrl' = [ctrl EXCEPT !.rx_cmd_params = params]
          /\ UNCHANGED <<scan, rxQ>>
     ELSE /\ \E added \in Added : Receive(params, 1, added)
          /\ UNCHANGED <<ctrlQ, modem, threads>>
  /\ UNCHANGED <<sema, timer, suspended>>

\* ... and from there. A failure leaves the scheduler suspended.
RxSuspends ==
  /\ GoesOn("shell", "rx", "idle")
  /\ \E added \in Added : Receive(ctrl.rx_cmd_params, 1, added)
  /\ suspended' = TRUE
  /\ UNCHANGED <<sema, timer, ctrlQ, modem>>

\* dect_phy_ctrl_rx_stop(): the reception with its handle is cancelled, if it is in
\* the modem.
StopRx ==
  LET receptions == {i \in DOMAIN modem : modem[i].op = "rx"} IN
  /\ ctrl' = [ctrl EXCEPT !.rx_cmd_on_going = FALSE]
  /\ \/ receptions = {} /\ UNCHANGED <<modem, ctrlQ>>
     \/ \E i \in receptions :
          modem' = RemoveAt(modem, i) /\ ctrlQ' = ctrlQ \o Ended(<<modem[i]>>, FALSE)
  /\ suspended' = FALSE
  /\ UNCHANGED <<scan, sema, timer, rxQ, threads>>

RxEnds == ctrl' = [ctrl EXCEPT !.rx_cmd_on_going = FALSE] /\ suspended' = FALSE

\* Mutant of Restart: one channel too many.
Restart_OneMore ==
  IF ctrl.rx_cmd_params.all /\ ctrl.rx_channel <= Channels
  THEN /\ Receive(ctrl.rx_cmd_params, ctrl.rx_channel + 1, TRUE)
       /\ suspended' = (suspended \/ ctrl.rx_cmd_params.suspend)
  ELSE RxEnds /\ UNCHANGED <<scan, rxQ>>

\* The restart of a reception that has ended: the next channel, if there is one.
Restart ==
  IF ctrl.rx_cmd_params.all /\ ctrl.rx_channel < Channels
  THEN \E added \in Added :
         IF added
         THEN /\ Receive(ctrl.rx_cmd_params, ctrl.rx_channel + 1, TRUE)
              /\ suspended' = (suspended \/ ctrl.rx_cmd_params.suspend)
         ELSE RxEnds /\ scan' = Cleared /\ UNCHANGED rxQ
  ELSE RxEnds /\ UNCHANGED <<scan, rxQ>>

CtrlRestarts ==
  /\ GoesOn("ctrl", "rx", "idle") /\ Restart
  /\ UNCHANGED <<sema, timer, ctrlQ, modem>>

\* DECT_PHY_CTRL_OP_PHY_API_MDM_COMPLETED of a reception.
RxCompleted(ok) ==
  \/ /\ ok /\ ctrl.rx_cmd_on_going /\ ctrl.rx_cmd_params.suspend
     /\ CancelAll(Tail(ctrlQ)) /\ Waits("ctrl", "rx")
     /\ UNCHANGED <<ctrl, scan, suspended, rxQ>>
  \/ /\ IF ok /\ ctrl.rx_cmd_on_going THEN ~ctrl.rx_cmd_params.suspend /\ Restart
        ELSE RxEnds /\ UNCHANGED <<scan, rxQ>>
     /\ ctrlQ' = Tail(ctrlQ) /\ UNCHANGED <<modem, threads>>

TakeCompleted ==
  LET msg == Head(ctrlQ) IN
  /\ msg.id = "completed"
  /\ IF msg.op = "rx" THEN RxCompleted(msg.ok) /\ UNCHANGED <<sema, timer>>
     ELSE Finished(msg.ok) /\ ctrlQ' = Tail(ctrlQ) /\ UNCHANGED <<modem, threads>>

\* DECT_PHY_CTRL_OP_PHY_API_MDM_RSSI_CB_ON_RX_OP: what the end of a measurement
\* does, and then a fresh start that also forgets the callback of a scan.
TakeRssiOnRx ==
  /\ Head(ctrlQ).id = "rssi_on_rx" /\ ctrlQ' = Tail(ctrlQ)
  /\ IF ctrl.rx_cmd_on_going \/ ext.running
     THEN /\ scan' = Cleared
          /\ \/ /\ IF scan.callback THEN ScanCompleted(TRUE) ELSE UNCHANGED <<ctrl, sema, suspended, timer>>
                /\ UNCHANGED rxQ
             \/ /\ MoreChannels /\ \E added \in Added : AddRx("measure", added)
                /\ UNCHANGED <<ctrl, sema, suspended, timer>>
     ELSE UNCHANGED <<ctrl, scan, sema, suspended, timer, rxQ>>
  /\ UNCHANGED <<modem, threads>>

--------------------------------------------------------------------------------
(* The tools.                                                              *)

\* dect_phy_ctrl_perf_cmd(), _ping_cmd(), _rf_tool_cmd(), up to the answer to
\* their cancel.
StartTool(tool) ==
  /\ ~OpOngoing
  /\ CancelAll(ctrlQ) /\ Waits("shell", tool)
  /\ UNCHANGED <<ctrl, ext, handler, scan, sema, timer, suspended, rxQ>>

\* ... and from there: the tool sets its event handler, or fails before or after.
ToolStarts ==
  LET tool == pc["shell"] IN
  /\ tool \in Tools /\ GoesOn("shell", tool, "idle")
  /\ ctrl' = [ctrl EXCEPT !.tools = @ \cup {tool}]
  /\ \/ handler' = tool /\ ctrlQ' = ctrlQ
     \/ handler' \in {handler, tool} /\ ctrlQ' = Append(ctrlQ, Done(tool))
  /\ UNCHANGED <<ext, scan, sema, timer, suspended, rxQ, modem, commands>>

\* ..._cmd_done() of the tool's thread.
ToolEnds ==
  /\ handler # "ctrl" /\ pc["ctrl"] # "tool" /\ ~Contains(ctrlQ, Done(handler))
  /\ ctrlQ' = Append(ctrlQ, Done(handler))
  /\ UNCHANGED <<ctrl, ext, handler, scan, sema, timer, suspended, rxQ, modem, threads, commands>>

\* DECT_PHY_CTRL_OP_PERF_CMD_DONE and its likes, up to the answer to the cancel
\* of dect_phy_ctrl_phy_handlers_init().
TakeDone ==
  /\ Head(ctrlQ).id = "done"
  /\ ctrl' = [ctrl EXCEPT !.tools = @ \ {Head(ctrlQ).op}]
  /\ CancelAll(Tail(ctrlQ)) /\ Waits("ctrl", "tool")
  /\ UNCHANGED <<scan, sema, timer, suspended, rxQ>>

CtrlReclaims ==
  /\ GoesOn("ctrl", "tool", "idle")
  /\ handler' = "ctrl"
  /\ UNCHANGED <<ctrl, ext, scan, sema, timer, suspended, ctrlQ, rxQ, modem, commands>>

--------------------------------------------------------------------------------
(* The RX thread and the modem.                                            *)

\* dect_phy_scan_rssi_rx_th_run(), dect_phy_scan_rx_th_run(). A measurement
\* that is refused ends the scan, a reception is only reported.
RxThread ==
  /\ rxQ # <<>> /\ rxQ' = Tail(rxQ)
  /\ \/ /\ modem' = Append(modem, [op |-> Head(rxQ), measured |-> FALSE])
        /\ UNCHANGED <<ctrl, scan, sema, timer, suspended>>
     \/ /\ Head(rxQ) \in Refuses
        /\ IF Head(rxQ) = "measure"
           THEN /\ scan' = [scan EXCEPT !.on_going = FALSE]
                /\ IF scan.callback THEN ScanCompleted(FALSE)
                   ELSE UNCHANGED <<ctrl, sema, suspended, timer>>
           ELSE UNCHANGED <<ctrl, scan, sema, timer, suspended>>
        /\ UNCHANGED modem
  /\ UNCHANGED <<ctrlQ, threads, users>>

\* Mutant of ScanMeasures: only a reception stores measurements.
ScanMeasures_RxOnly == ctrl.rx_cmd_on_going

\* Who gets a measurement: dect_phy_ctrl_mdm_on_rssi_cb().
ScanMeasures == ctrl.rssi_scan_ongoing \/ ctrl.rx_cmd_on_going

\* The modem reports a measurement of an operation (once, at least for a
\* measurement that completes). Enough of them make a verdict.
Measure(i) ==
  /\ i \in DOMAIN modem /\ ~modem[i].measured
  /\ modem' = [modem EXCEPT ![i].measured = TRUE]
  /\ IF handler = "ctrl" /\ ScanMeasures
     THEN /\ scan' = [scan EXCEPT !.measured = TRUE]
          /\ ctrlQ' \in {ctrlQ} \cup (IF modem[i].op = "rx" \/ ctrl.rssi_scan_params.interval
                                      THEN {Append(ctrlQ, Msg("rssi_on_rx"))} ELSE {})
     ELSE UNCHANGED <<scan, ctrlQ>>
  /\ UNCHANGED <<ctrl, sema, timer, suspended, rxQ, threads, users>>

Complete(i, ok) ==
  /\ i \in DOMAIN modem /\ (ok => modem[i].op = "rx" \/ modem[i].measured)
  /\ modem' = RemoveAt(modem, i)
  /\ ctrlQ' = ctrlQ \o Ended(<<modem[i]>>, ok)
  /\ UNCHANGED <<ctrl, scan, sema, timer, suspended, rxQ, threads, users>>

--------------------------------------------------------------------------------
(* The whole.                                                              *)

ControlThread ==
  \/ /\ pc["ctrl"] = "idle" /\ ctrlQ # <<>>
     /\ TakeRun \/ TakeCompleted \/ TakeRssiOnRx \/ TakeDone
     /\ UNCHANGED users
  \/ (CtrlSuspends \/ CtrlRestarts) /\ UNCHANGED users
  \/ CtrlReclaims

\* Users start a command when nothing of another one is left, and a tool also
\* while the one before is being reclaimed: the code itself refuses while a scan
\* or a tool goes on, and looks at nothing else.
Alone ==
  /\ ~(ctrl.rssi_scan_cmd_running /\ ctrl.rssi_scan_params.interval)
  /\ ~ctrl.rx_cmd_on_going /\ ctrl.tools = {} /\ pc["ctrl"] \in {"idle", "tool"}
  /\ ctrl.rssi_scan_ongoing \/ (rxQ = <<>> /\ modem = <<>> /\ ctrlQ = <<>>)
Reclaimed == handler = "ctrl" /\ pc["ctrl"] = "idle"

Shell ==
  /\ Command
  /\ \/ /\ Alone /\ Reclaimed
        /\ \/ \E params \in Scans : StartScan("shell", params)
           \/ ~ctrl.rssi_scan_ongoing /\ \E params \in Receptions : StartRx(params)
        /\ UNCHANGED <<ext, handler>>
     \/ Alone /\ \E tool \in Tools : StartTool(tool)
     \/ /\ "scan" \in Stops /\ ctrl.rssi_scan_cmd_running /\ pc["ctrl"] = "idle"
        /\ StopScan /\ UNCHANGED <<threads, ext, handler>>
     \/ "rx" \in Stops /\ ctrl.rx_cmd_on_going /\ StopRx /\ UNCHANGED <<ext, handler>>

ShellGoesOn ==
  \/ ScanSuspends("shell", "idle") /\ UNCHANGED users
  \/ RxSuspends /\ UNCHANGED users
  \/ ToolStarts

Modem == \E i \in DOMAIN modem : Measure(i) \/ \E ok \in BOOLEAN : Complete(i, ok)

Next == ControlThread \/ Shell \/ ShellGoesOn \/ RxThread \/ TimerFires \/ ToolEnds \/ Modem

Spec == Init /\ [][Next]_vars

\* Threads run, operations end, measurements come before the end, and a tool
\* that was started is stopped or ends by itself.
Fairness ==
  /\ WF_vars(ControlThread) /\ WF_vars(ShellGoesOn) /\ WF_vars(RxThread) /\ WF_vars(TimerFires)
  /\ WF_vars(ToolEnds) /\ WF_vars(Modem)
FairSpec == Spec /\ Fairness

--------------------------------------------------------------------------------
(* Properties.                                                             *)

TypeOK ==
  /\ ctrl \in [rssi_scan_ongoing : BOOLEAN, rssi_scan_cmd_running : BOOLEAN, rssi_scan_params : ScanParams,
               rx_cmd_on_going : BOOLEAN, rx_cmd_params : RxParams, rx_channel : 0 .. Channels,
               tools : SUBSET Tools]
  /\ scan \in [on_going : BOOLEAN, callback : BOOLEAN, channel : 0 .. Channels, all : BOOLEAN,
               measured : BOOLEAN]
  /\ sema \in {"empty", "given", "failed"} /\ timer \in BOOLEAN /\ suspended \in BOOLEAN
  /\ rxQ \in Seq({"measure", "rx"})
  /\ modem \in Seq([op : {"measure", "rx"}, measured : BOOLEAN])
  /\ handler \in Tools \cup {"ctrl"}
  /\ commands \in 0 .. MaxCommands

\* The steps of RSSI scanning that are under way: requests to run, measurements
\* queued or in the modem, and completions.
UnderWay ==
  Cardinality({i \in DOMAIN ctrlQ : ctrlQ[i].id = "run"
                                    \/ (ctrlQ[i].id = "completed" /\ ctrlQ[i].op = "measure")})
    + Cardinality({i \in DOMAIN rxQ : rxQ[i] = "measure"})
    + Cardinality({i \in DOMAIN modem : modem[i].op = "measure"})
    + Cardinality({t \in DOMAIN pc : pc[t] = "suspend"})

\* A scan has one step under way: never two that end it twice or answer for
\* another scan, and one as long as it is marked on going. "when used, other running
\* items are not scheduled to modem": the scheduler is suspended while a measurement
\* of a forced scan is in the modem.
OneStep ==
  /\ UnderWay <= 1
  /\ ctrl.rssi_scan_ongoing => UnderWay = 1
  /\ ctrl.rssi_scan_ongoing /\ ctrl.rssi_scan_params.suspend
       /\ (\E i \in DOMAIN modem : modem[i].op = "measure") => suspended

VerdictStep ==
  /\ ctrlQ # <<>> /\ ctrlQ' = Tail(ctrlQ) /\ Head(ctrlQ) = Completed([op |-> "measure"], TRUE)
  /\ scan.on_going

\* A channel gets its verdict from measurements of that channel, in the first round
\* of a scan at least: the rounds that the timer starts have none.
VerdictHasData == [][VerdictStep /\ ctrl.rssi_scan_ongoing => scan.measured]_vars

\* A tool has the modem for itself: nothing of control ends in its handler. And a tool
\* that is on going and did not end has its handler: not even the end of the tool
\* before takes it away.
ToolHeard ==
  /\ handler # "ctrl" => rxQ = <<>> /\ modem = <<>>
  /\ \A tool \in ctrl.tools : handler = tool \/ Contains(ctrlQ, Done(tool))

\* Every command ends, and the scheduler runs again.
CommandsEnd ==
  /\ ctrl.rssi_scan_ongoing ~> ~ctrl.rssi_scan_ongoing
  /\ ctrl.rx_cmd_on_going ~> ~ctrl.rx_cmd_on_going
  /\ suspended ~> ~suspended
================================================================================
