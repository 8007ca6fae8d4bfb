------------------------------ MODULE ControlProofs ------------------------------
(***************************************************************************)
(* Proofs about PHY control and what is built on it: the cluster beacon    *)
(* (MacBeacon), the commands of PHY control alone (PhyCtrl), and the table *)
(* of RX handles (RxRing).                                                 *)
(*                                                                         *)
(* PHY control runs twice here: under the beacon, whose work queue waits   *)
(* for its scans, and alone. What a step of it does to types and to those  *)
(* who hold the modem (Typed, Spares) is shown once for both.              *)
(***************************************************************************)
EXTENDS MacBeacon, RxRing, SeqFacts

--------------------------------------------------------------------------------
(* Types.                                                                  *)

CtrlData ==
  [rssi_scan_ongoing : BOOLEAN, rssi_scan_cmd_running : BOOLEAN, rssi_scan_params : ScanParams,
   rx_cmd_on_going : BOOLEAN, rx_cmd_params : RxParams, rx_channel : 0 .. Channels, tools : SUBSET Tools]
ScanData ==
  [on_going : BOOLEAN, callback : BOOLEAN, channel : 0 .. Channels, all : BOOLEAN, measured : BOOLEAN]
RadioOps == [op : {"measure", "rx"}, measured : BOOLEAN]

\* What the control thread gets: steps of a scan, ends of receptions, ends of tools, and
\* measurements.
ScanSteps ==
  [id : {"run"}, op : {"none"}, ok : {TRUE}] \cup [id : {"completed"}, op : {"measure"}, ok : BOOLEAN]
RxEnded == [id : {"completed"}, op : {"rx"}, ok : BOOLEAN]
ToolsEnded == [id : {"done"}, op : Tools, ok : {TRUE}]
Messages == ScanSteps \cup RxEnded \cup ToolsEnded \cup {Msg("rssi_on_rx")}

Data ==
  /\ ctrl \in CtrlData /\ scan \in ScanData
  /\ sema \in {"empty", "given", "failed"} /\ timer \in BOOLEAN /\ suspended \in BOOLEAN
Lists ==
  /\ rxQ \in Seq({"measure", "rx"}) /\ modem \in Seq(RadioOps) /\ ctrlQ \in Seq(Messages)
Labels ==
  /\ pc = [t \in {"shell", "work", "ctrl"} |-> pc[t]]
  /\ pc["shell"] \in {"idle", "suspend", "rx"} \cup Tools
  /\ pc["work"] \in {"idle", "suspend", "wait"}
  /\ pc["ctrl"] \in {"idle", "suspend", "rx", "tool"}
Users == handler \in Tools \cup {"ctrl"} /\ commands \in 0 .. MaxCommands
Typed == Data /\ Lists /\ Labels /\ Users

USE DEF CtrlData, ScanData

\* A thread moves to a label, the others stay.
LEMMA PcMoves ==
  ASSUME Labels, NEW t \in {"shell", "work", "ctrl"}, NEW label, pc' = [pc EXCEPT ![t] = label]
  PROVE  /\ pc' = [u \in {"shell", "work", "ctrl"} |-> pc'[u]]
         /\ pc'[t] = label /\ \A u \in {"shell", "work", "ctrl"} : u # t => pc'[u] = pc[u]
BY DEF Labels

\* A message each for operations that end.
LEMMA EndedType ==
  ASSUME NEW ops \in Seq(RadioOps), NEW ok \in BOOLEAN
  PROVE  Ended(ops, ok) \in Seq(Messages)
<1>1. Len(ops) \in Nat /\ DOMAIN ops = 1 .. Len(ops) /\ \A i \in 1 .. Len(ops) : ops[i] \in RadioOps
  BY LenProperties, ElementOfSeq
<1>2. \A op \in RadioOps : Completed(op, ok) \in Messages
  BY DEF RadioOps, Completed, Messages, ScanSteps, RxEnded
<1>3. CASE handler = "ctrl"
  <2>1. Ended(ops, ok) = [i \in 1 .. Len(ops) |-> Completed(ops[i], ok)]
    BY <1>1, <1>3 DEF Ended
  <2>2. [i \in 1 .. Len(ops) |-> Completed(ops[i], ok)] \in [1 .. Len(ops) -> Messages]
    BY <1>1, <1>2
  <2> QED
    BY <1>1, <2>1, <2>2, SeqDef
<1>4. CASE handler # "ctrl"
  BY <1>4 DEF Ended
<1> QED
  BY <1>3, <1>4

LEMMA CancelAllType ==
  ASSUME Lists, NEW queue \in Seq(Messages), CancelAll(queue)
  PROVE  modem' \in Seq(RadioOps) /\ ctrlQ' \in Seq(Messages)
<1>1. modem \in Seq(RadioOps) /\ modem' = <<>> /\ ctrlQ' = queue \o Ended(modem, FALSE)
  BY DEF CancelAll, Lists
<1>2. Ended(modem, FALSE) \in Seq(Messages)
  BY <1>1, EndedType
<1>3. queue \o Ended(modem, FALSE) \in Seq(Messages)
  BY <1>2, HoldsConcat
<1>4. <<>> \in Seq(RadioOps)
  OBVIOUS
<1> QED
  BY <1>1, <1>3, <1>4

LEMMA QueueTypes ==
  ASSUME Lists
  PROVE  /\ Append(ctrlQ, Msg("run")) \in Seq(Messages) /\ Append(ctrlQ, Msg("rssi_on_rx")) \in Seq(Messages)
         /\ \A tool \in Tools : Append(ctrlQ, Done(tool)) \in Seq(Messages)
         /\ ctrlQ # <<>> => Tail(ctrlQ) \in Seq(Messages) /\ Head(ctrlQ) \in Messages
         /\ rxQ # <<>> => Tail(rxQ) \in Seq({"measure", "rx"}) /\ Head(rxQ) \in {"measure", "rx"}
<1>1. Msg("run") \in Messages /\ Msg("rssi_on_rx") \in Messages /\ \A tool \in Tools : Done(tool) \in Messages
  BY DEF Msg, Done, Messages, ScanSteps, ToolsEnded
<1> QED
  BY <1>1, HoldsTail, HoldsAppend DEF Lists

LEMMA AddRxType ==
  ASSUME Lists, NEW op \in {"measure", "rx"}, NEW added, AddRx(op, added)
  PROVE  rxQ' \in Seq({"measure", "rx"})
BY HoldsAppend DEF AddRx, Lists

\* Where the threads are when one moves.
LEMMA GoesOnType ==
  ASSUME Typed, NEW t \in {"shell", "ctrl", "work"}, NEW label, NEW after,
         after = "idle" \/ (t = "work" /\ after = "wait"), GoesOn(t, label, after)
  PROVE  Labels' /\ pc[t] = label /\ pc'[t] = after
         /\ \A u \in {"shell", "work", "ctrl"} : u # t => pc'[u] = pc[u]
<1>1. pc' = [pc EXCEPT ![t] = after] /\ pc[t] = label
  BY DEF GoesOn
<1> QED
  BY <1>1, PcMoves DEF Typed, Labels

LEMMA WaitsType ==
  ASSUME Typed, NEW t \in {"shell", "ctrl", "work"}, NEW label, Waits(t, label),
         \/ t = "shell" /\ label \in {"suspend", "rx"} \cup Tools
         \/ t = "work" /\ label = "suspend"
         \/ t = "ctrl" /\ label \in {"suspend", "rx", "tool"}
  PROVE  Labels' /\ pc'[t] = label
         /\ \A u \in {"shell", "work", "ctrl"} : u # t => pc'[u] = pc[u]
<1>1. pc' = [pc EXCEPT ![t] = label]
  BY DEF Waits
<1> QED
  BY <1>1, PcMoves DEF Typed, Labels

--------------------------------------------------------------------------------
(* Types: the steps of a scan.                                             *)

LEMMA ScanCompletedType ==
  ASSUME Data, NEW ok \in BOOLEAN, ScanCompleted(ok)
  PROVE  ctrl' \in CtrlData /\ sema' \in {"empty", "given", "failed"}
         /\ timer' \in BOOLEAN /\ suspended' \in BOOLEAN
BY DEF ScanCompleted, Data, ResetSema, ScanParams

LEMMA StartScanType ==
  ASSUME Typed, NEW t \in {"shell", "work"}, NEW params \in ScanParams, StartScan(t, params)
  PROVE  Data' /\ Lists' /\ Labels'
<1>1. ctrl' \in CtrlData /\ sema' \in {"empty", "given", "failed"}
  <2>1. PICK a : a = [ctrl EXCEPT !.rssi_scan_ongoing = TRUE]
    OBVIOUS
  <2>2. a \in CtrlData
    BY <2>1 DEF Typed, Data
  <2>3. PICK b : b = [a EXCEPT !.rssi_scan_cmd_running = TRUE]
    OBVIOUS
  <2>4. b \in CtrlData
    BY <2>2, <2>3
  <2>5. ctrl' = [b EXCEPT !.rssi_scan_params = params]
    BY <2>1, <2>3 DEF StartScan
  <2> QED
    BY <2>4, <2>5 DEF StartScan, ResetSema
<1>2. UNCHANGED <<scan, timer, suspended, rxQ>>
  BY DEF StartScan
<1>3. Data'
  BY <1>1, <1>2 DEF Typed, Data
<1>4. CASE params.suspend
  <2>1. CancelAll(ctrlQ) /\ Waits(t, "suspend")
    BY <1>4 DEF StartScan
  <2>2. Labels'
    BY <2>1, WaitsType
  <2>3. modem' \in Seq(RadioOps) /\ ctrlQ' \in Seq(Messages)
    BY <2>1, CancelAllType DEF Typed, Lists
  <2> QED
    BY <1>2, <1>3, <2>2, <2>3 DEF Typed, Lists
<1>5. CASE ~params.suspend
  <2>1. RunScan /\ UNCHANGED <<modem, threads>>
    BY <1>5 DEF StartScan
  <2> QED
    BY <1>2, <1>3, <2>1, QueueTypes DEF Typed, Lists, RunScan, threads, Labels
<1> QED
  BY <1>4, <1>5

LEMMA ScanSuspendsType ==
  ASSUME Typed, NEW t \in {"shell", "work"}, NEW after,
         after = "idle" \/ (t = "work" /\ after = "wait"), ScanSuspends(t, after)
  PROVE  Data' /\ Lists' /\ Labels'
<1>1. Labels'
  BY GoesOnType DEF ScanSuspends
<1>2. ctrlQ' \in Seq(Messages)
  BY QueueTypes DEF ScanSuspends, RunScan, Typed
<1>3. /\ UNCHANGED <<ctrl, scan, sema, timer, rxQ, modem>> /\ suspended' = TRUE
  BY DEF ScanSuspends
<1> QED
  BY <1>1, <1>2, <1>3 DEF Typed, Data, Lists

LEMMA StopScanType ==
  ASSUME Typed, StopScan, UNCHANGED threads
  PROVE  Data' /\ Lists' /\ Labels'
<1>1. ctrl' \in CtrlData /\ scan' \in ScanData /\ sema' \in {"empty", "given", "failed"}
  BY DEF StopScan, Typed, Data, ResetSema
<1> QED
  BY <1>1 DEF StopScan, Typed, Data, Lists, Labels, threads

LEMMA FirstChannelType ==
  ASSUME Typed, PhyCtrlAssumption, NEW label, FirstChannel(label)
  PROVE  Data' /\ rxQ' \in Seq({"measure", "rx"})
<1>1. Cleared \in ScanData /\ 1 \in 0 .. Channels
  BY DEF Cleared, PhyCtrlAssumption
<1>2. CASE /\ ctrl' = [ctrl EXCEPT !.rssi_scan_ongoing = FALSE, !.rssi_scan_cmd_running = FALSE]
           /\ scan' = Cleared /\ ResetSema /\ timer' = FALSE /\ suspended' = FALSE
           /\ UNCHANGED rxQ
  BY <1>1, <1>2 DEF Typed, Data, Lists, ResetSema
<1>3. CASE /\ scan' = [Cleared EXCEPT !.on_going = TRUE, !.callback = TRUE, !.channel = 1,
                                !.all = ctrl.rssi_scan_params.all]
           /\ \E added \in Added : AddRx("measure", added)
           /\ suspended' = (suspended \/ label = "suspend")
           /\ UNCHANGED <<ctrl, sema, timer>>
  <2>1. scan' = [on_going |-> TRUE, callback |-> TRUE, channel |-> 1, all |-> ctrl.rssi_scan_params.all,
                 measured |-> FALSE]
    BY <1>3 DEF Cleared
  <2>2. ctrl.rssi_scan_params.all \in BOOLEAN
    BY DEF Typed, Data, ScanParams
  <2>3. scan' \in ScanData
    BY <1>1, <2>1, <2>2
  <2>4. rxQ' \in Seq({"measure", "rx"})
    BY <1>3, AddRxType DEF Typed
  <2> QED
    BY <1>3, <2>3, <2>4 DEF Typed, Data
<1> QED
  BY <1>2, <1>3 DEF FirstChannel

LEMMA TakeRunType ==
  ASSUME Typed, PhyCtrlAssumption, ctrlQ # <<>>, TakeRun
  PROVE  Data' /\ Lists' /\ Labels'
<1>1. Tail(ctrlQ) \in Seq(Messages)
  BY QueueTypes DEF Typed
<1>2. CASE ctrlQ' = Tail(ctrlQ) /\ UNCHANGED <<ctrl, scan, sema, timer, suspended, rxQ, modem, threads>>
  BY <1>1, <1>2 DEF Typed, Data, Lists, Labels, threads
<1>3. CASE FirstChannel("none") /\ ctrlQ' = Tail(ctrlQ) /\ UNCHANGED <<modem, threads>>
  <2>1. Data' /\ rxQ' \in Seq({"measure", "rx"})
    BY <1>3, FirstChannelType
  <2> QED
    BY <1>1, <1>3, <2>1 DEF Typed, Lists, Labels, threads
<1>4. CASE CancelAll(Tail(ctrlQ)) /\ Waits("ctrl", "suspend")
           /\ UNCHANGED <<ctrl, scan, sema, timer, suspended, rxQ>>
  <2>1. Labels'
    BY <1>4, WaitsType
  <2>2. modem' \in Seq(RadioOps) /\ ctrlQ' \in Seq(Messages)
    BY <1>1, <1>4, CancelAllType DEF Typed
  <2> QED
    BY <1>4, <2>1, <2>2 DEF Typed, Data, Lists
<1> QED
  BY <1>2, <1>3, <1>4 DEF TakeRun

LEMMA CtrlSuspendsType ==
  ASSUME Typed, PhyCtrlAssumption, CtrlSuspends
  PROVE  Data' /\ Lists' /\ Labels'
<1>1. Labels'
  BY GoesOnType DEF CtrlSuspends
<1>2. Data' /\ rxQ' \in Seq({"measure", "rx"})
  BY FirstChannelType DEF CtrlSuspends
<1> QED
  BY <1>1, <1>2 DEF CtrlSuspends, Typed, Lists

LEMMA FinishedType ==
  ASSUME Typed, PhyCtrlAssumption, NEW ok \in BOOLEAN, Finished(ok)
  PROVE  Data' /\ rxQ' \in Seq({"measure", "rx"})
<1>1. CASE ScanDone(ok)
  <2>1. scan' \in ScanData /\ rxQ' = rxQ
    BY <1>1 DEF ScanDone, Typed, Data
  <2>2. CASE ScanCompleted(ok)
    BY <2>1, <2>2, ScanCompletedType DEF Typed, Data, Lists
  <2>3. CASE UNCHANGED <<ctrl, sema, suspended, timer>>
    BY <2>1, <2>3 DEF Typed, Data, Lists
  <2> QED
    BY <1>1, <2>2, <2>3 DEF ScanDone
<1>2. CASE /\ MoreChannels
           /\ scan' = [scan EXCEPT !.channel = @ + 1, !.measured = FALSE]
           /\ \E added \in Added : AddRx("measure", added)
           /\ UNCHANGED <<ctrl, sema, suspended, timer>>
  <2>1. PICK m : m = scan.channel + 1
    OBVIOUS
  <2>2. m \in 0 .. Channels
    BY <1>2, <2>1 DEF MoreChannels, Typed, Data, PhyCtrlAssumption
  <2>3. scan' \in ScanData
    <3>1. scan' = [scan EXCEPT !.channel = m, !.measured = FALSE]
      BY <1>2, <2>1
    <3> QED
      BY <2>2, <3>1 DEF Typed, Data
  <2>4. rxQ' \in Seq({"measure", "rx"})
    BY <1>2, AddRxType DEF Typed
  <2> QED
    BY <1>2, <2>3, <2>4 DEF Typed, Data
<1> QED
  BY <1>1, <1>2 DEF Finished

--------------------------------------------------------------------------------
(* Types: receptions, tools, the RX thread and the modem.                  *)

LEMMA ReceiveType ==
  ASSUME Typed, PhyCtrlAssumption, NEW params \in RxParams, NEW channel \in 0 .. Channels,
         NEW added \in BOOLEAN, Receive(params, channel, added)
  PROVE  ctrl' \in CtrlData /\ scan' \in ScanData /\ rxQ' \in Seq({"measure", "rx"})
<1>1. scan' \in ScanData
  BY DEF Receive, Cleared, PhyCtrlAssumption
<1>2. rxQ' \in Seq({"measure", "rx"})
  BY AddRxType DEF Receive, Typed
<1>3. PICK going \in BOOLEAN : going = (added \/ ctrl.rx_cmd_on_going)
  OBVIOUS
<1>4. ctrl' = [ctrl EXCEPT !.rx_cmd_params = params, !.rx_channel = channel, !.rx_cmd_on_going = going]
  BY <1>3 DEF Receive
<1>5. ctrl \in CtrlData
  BY DEF Typed, Data
<1>6. ctrl' \in CtrlData
  <2>1. PICK a : a = [ctrl EXCEPT !.rx_cmd_params = params]
    OBVIOUS
  <2>2. a \in CtrlData
    BY <1>5, <2>1
  <2>3. PICK b : b = [a EXCEPT !.rx_channel = channel]
    OBVIOUS
  <2>4. b \in CtrlData
    BY <2>2, <2>3
  <2>5. ctrl' = [b EXCEPT !.rx_cmd_on_going = going]
    BY <1>4, <2>1, <2>3
  <2> QED
    BY <2>4, <2>5
<1> QED
  BY <1>1, <1>2, <1>6

LEMMA AddedType == Added \subseteq BOOLEAN
BY DEF Added

LEMMA StartRxType ==
  ASSUME Typed, PhyCtrlAssumption, NEW params \in RxParams, StartRx(params)
  PROVE  Data' /\ Lists' /\ Labels'
<1>1. UNCHANGED <<sema, timer, suspended>>
  BY DEF StartRx
<1>2. CASE params.suspend
  <2>1. /\ CancelAll(ctrlQ) /\ Waits("shell", "rx")
        /\ ctrl' = [ctrl EXCEPT !.rx_cmd_params = params] /\ UNCHANGED <<scan, rxQ>>
    BY <1>2 DEF StartRx
  <2>2. Labels'
    BY <2>1, WaitsType
  <2>3. modem' \in Seq(RadioOps) /\ ctrlQ' \in Seq(Messages)
    BY <2>1, CancelAllType DEF Typed, Lists
  <2> QED
    BY <1>1, <2>1, <2>2, <2>3 DEF Typed, Data, Lists
<1>3. CASE ~params.suspend
  <2>1. PICK added \in Added : Receive(params, 1, added) /\ UNCHANGED <<ctrlQ, modem, threads>>
    BY <1>3 DEF StartRx
  <2>2. ctrl' \in CtrlData /\ scan' \in ScanData /\ rxQ' \in Seq({"measure", "rx"})
    BY <2>1, AddedType, ReceiveType DEF PhyCtrlAssumption
  <2> QED
    BY <1>1, <2>1, <2>2 DEF Typed, Data, Lists, Labels, threads
<1> QED
  BY <1>2, <1>3

LEMMA RxSuspendsType ==
  ASSUME Typed, PhyCtrlAssumption, RxSuspends
  PROVE  Data' /\ Lists' /\ Labels'
<1>1. PICK added \in Added : Receive(ctrl.rx_cmd_params, 1, added)
  BY DEF RxSuspends
<1>2. ctrl.rx_cmd_params \in RxParams /\ 1 \in 0 .. Channels
  BY DEF Typed, Data, PhyCtrlAssumption
<1>3. ctrl' \in CtrlData /\ scan' \in ScanData /\ rxQ' \in Seq({"measure", "rx"})
  BY <1>1, <1>2, AddedType, ReceiveType
<1>4. Labels'
  BY GoesOnType DEF RxSuspends
<1> QED
  BY <1>3, <1>4 DEF RxSuspends, Typed, Data, Lists

LEMMA StopRxType ==
  ASSUME Typed, StopRx
  PROVE  Data' /\ Lists' /\ Labels'
<1>1. modem' \in Seq(RadioOps) /\ ctrlQ' \in Seq(Messages)
  <2>1. CASE UNCHANGED <<modem, ctrlQ>>
    BY <2>1 DEF Typed, Lists
  <2>2. ASSUME NEW i \in DOMAIN modem, modem' = RemoveAt(modem, i),
               ctrlQ' = ctrlQ \o Ended(<<modem[i]>>, FALSE)
        PROVE  modem' \in Seq(RadioOps) /\ ctrlQ' \in Seq(Messages)
    <3>1. i \in 1 .. Len(modem) /\ modem[i] \in RadioOps
      BY LenProperties, ElementOfSeq DEF Typed, Lists
    <3>2. <<modem[i]>> \in Seq(RadioOps)
      BY <3>1
    <3>3. Ended(<<modem[i]>>, FALSE) \in Seq(Messages)
      BY <3>2, EndedType
    <3> QED
      BY <2>2, <3>1, <3>3, RemoveAtProperties, HoldsConcat DEF Typed, Lists
  <2> QED
    BY <2>1, <2>2 DEF StopRx
<1>2. ctrl' \in CtrlData
  BY DEF StopRx, Typed, Data
<1>3. Labels'
  BY DEF StopRx, Typed, Labels, threads
<1>4. Data'
  BY <1>2 DEF StopRx, Typed, Data
<1> QED
  BY <1>1, <1>3, <1>4 DEF StopRx, Typed, Lists

LEMMA RestartType ==
  ASSUME Typed, PhyCtrlAssumption, Restart
  PROVE  ctrl' \in CtrlData /\ scan' \in ScanData /\ rxQ' \in Seq({"measure", "rx"})
         /\ suspended' \in BOOLEAN
<1>1. CASE /\ ctrl.rx_cmd_params.all /\ ctrl.rx_channel < Channels
           /\ Receive(ctrl.rx_cmd_params, ctrl.rx_channel + 1, TRUE)
           /\ suspended' = (suspended \/ ctrl.rx_cmd_params.suspend)
  <2>1. ctrl.rx_cmd_params \in RxParams /\ ctrl.rx_channel + 1 \in 0 .. Channels
    BY <1>1 DEF Typed, Data, PhyCtrlAssumption
  <2>2. ctrl' \in CtrlData /\ scan' \in ScanData /\ rxQ' \in Seq({"measure", "rx"})
    BY <1>1, <2>1, ReceiveType
  <2> QED
    BY <1>1, <2>2 DEF Typed, Data
<1>2. CASE RxEnds /\ (scan' = Cleared \/ UNCHANGED scan) /\ UNCHANGED rxQ
  <2>1. Cleared \in ScanData
    BY DEF Cleared, PhyCtrlAssumption
  <2>2. ctrl' \in CtrlData
    BY <1>2 DEF RxEnds, Typed, Data
  <2> QED
    BY <1>2, <2>1, <2>2 DEF RxEnds, Typed, Data, Lists
<1> QED
  BY <1>1, <1>2 DEF Restart

LEMMA CtrlRestartsType ==
  ASSUME Typed, PhyCtrlAssumption, CtrlRestarts
  PROVE  Data' /\ Lists' /\ Labels'
<1>1. Labels'
  BY GoesOnType DEF CtrlRestarts
<1> QED
  BY <1>1, RestartType DEF CtrlRestarts, Typed, Data, Lists

LEMMA RxCompletedType ==
  ASSUME Typed, PhyCtrlAssumption, ctrlQ # <<>>, NEW ok \in BOOLEAN, RxCompleted(ok),
         UNCHANGED <<sema, timer>>
  PROVE  Data' /\ Lists' /\ Labels'
<1>1. Tail(ctrlQ) \in Seq(Messages)
  BY QueueTypes DEF Typed
<1>2. CASE CancelAll(Tail(ctrlQ)) /\ Waits("ctrl", "rx") /\ UNCHANGED <<ctrl, scan, suspended, rxQ>>
  <2>1. Labels'
    BY <1>2, WaitsType
  <2>2. modem' \in Seq(RadioOps) /\ ctrlQ' \in Seq(Messages)
    BY <1>1, <1>2, CancelAllType DEF Typed
  <2> QED
    BY <1>2, <2>1, <2>2 DEF Typed, Data, Lists
<1>3. CASE /\ Restart \/ (RxEnds /\ UNCHANGED <<scan, rxQ>>)
           /\ ctrlQ' = Tail(ctrlQ) /\ UNCHANGED <<modem, threads>>
  <2>1. ctrl' \in CtrlData /\ scan' \in ScanData /\ rxQ' \in Seq({"measure", "rx"})
        /\ suspended' \in BOOLEAN
    BY <1>3, RestartType DEF RxEnds, Typed, Data, Lists
  <2> QED
    BY <1>1, <1>3, <2>1 DEF Typed, Data, Lists, Labels, threads
<1> QED
  BY <1>2, <1>3 DEF RxCompleted

LEMMA CompletedOk ==
  ASSUME Typed, ctrlQ # <<>>, Head(ctrlQ).id = "completed"
  PROVE  Head(ctrlQ).ok \in BOOLEAN
<1>1. Head(ctrlQ) \in Messages
  BY QueueTypes DEF Typed
<1>2. \A m \in [id : {"completed"}, op : {"measure"}, ok : BOOLEAN] : m.ok \in BOOLEAN
  OBVIOUS
<1>3. \A m \in RxEnded : m.ok \in BOOLEAN
  BY DEF RxEnded
<1>4. /\ \A m \in [id : {"run"}, op : {"none"}, ok : {TRUE}] : m.id # "completed"
      /\ \A m \in ToolsEnded : m.id # "completed"
      /\ Msg("rssi_on_rx").id # "completed"
  BY DEF ToolsEnded, Msg
<1> QED
  BY <1>1, <1>2, <1>3, <1>4, Zenon DEF Messages, ScanSteps

LEMMA TakeCompletedType ==
  ASSUME Typed, PhyCtrlAssumption, ctrlQ # <<>>, TakeCompleted
  PROVE  Data' /\ Lists' /\ Labels'
<1>1. Head(ctrlQ) \in Messages /\ Head(ctrlQ).id = "completed" /\ Tail(ctrlQ) \in Seq(Messages)
  BY QueueTypes DEF TakeCompleted, Typed
<1>2. Head(ctrlQ).ok \in BOOLEAN
  BY <1>1, CompletedOk DEF TakeCompleted
<1>3. CASE Head(ctrlQ).op = "rx"
  BY <1>2, <1>3, RxCompletedType DEF TakeCompleted
<1>4. CASE Head(ctrlQ).op # "rx"
  <2>1. Data' /\ rxQ' \in Seq({"measure", "rx"})
    BY <1>2, <1>4, FinishedType DEF TakeCompleted
  <2> QED
    BY <1>1, <1>4, <2>1 DEF TakeCompleted, Typed, Lists, Labels, threads
<1> QED
  BY <1>3, <1>4

LEMMA TakeRssiOnRxType ==
  ASSUME Typed, PhyCtrlAssumption, ctrlQ # <<>>, TakeRssiOnRx
  PROVE  Data' /\ Lists' /\ Labels'
<1>1. Tail(ctrlQ) \in Seq(Messages) /\ ctrlQ' = Tail(ctrlQ) /\ UNCHANGED <<modem, threads>>
  BY QueueTypes DEF TakeRssiOnRx, Typed
<1>2. Cleared \in ScanData
  BY DEF Cleared, PhyCtrlAssumption
<1>3. Data' /\ rxQ' \in Seq({"measure", "rx"})
  <2>1. CASE scan' = Cleared /\ ScanCompleted(TRUE) /\ UNCHANGED rxQ
    BY <1>2, <2>1, ScanCompletedType DEF Typed, Data, Lists
  <2>2. CASE scan' \in {scan, Cleared} /\ UNCHANGED <<ctrl, sema, suspended, timer, rxQ>>
    BY <1>2, <2>2 DEF Typed, Data, Lists
  <2>3. CASE /\ scan' = Cleared /\ UNCHANGED <<ctrl, sema, suspended, timer>>
             /\ \E added \in Added : AddRx("measure", added)
    <3>1. rxQ' \in Seq({"measure", "rx"})
      BY <2>3, AddRxType DEF Typed
    <3> QED
      BY <1>2, <2>3, <3>1 DEF Typed, Data
  <2> QED
    BY <2>1, <2>2, <2>3 DEF TakeRssiOnRx
<1> QED
  BY <1>1, <1>3 DEF Typed, Lists, Labels, threads

LEMMA TakeDoneType ==
  ASSUME Typed, ctrlQ # <<>>, TakeDone
  PROVE  Data' /\ Lists' /\ Labels'
<1>1. Tail(ctrlQ) \in Seq(Messages)
  BY QueueTypes DEF Typed
<1>2. modem' \in Seq(RadioOps) /\ ctrlQ' \in Seq(Messages)
  BY <1>1, CancelAllType DEF TakeDone, Typed
<1>3. Labels'
  BY WaitsType DEF TakeDone
<1>4. ctrl' \in CtrlData
  BY DEF TakeDone, Typed, Data
<1> QED
  BY <1>2, <1>3, <1>4 DEF TakeDone, Typed, Data, Lists

LEMMA StartToolType ==
  ASSUME Typed, NEW tool \in Tools, StartTool(tool)
  PROVE  Data' /\ Lists' /\ Labels'
<1>1. modem' \in Seq(RadioOps) /\ ctrlQ' \in Seq(Messages)
  BY CancelAllType DEF StartTool, Typed, Lists
<1>2. Labels'
  BY WaitsType DEF StartTool
<1> QED
  BY <1>1, <1>2 DEF StartTool, Typed, Data, Lists

LEMMA ToolStartsType ==
  ASSUME Typed, ToolStarts
  PROVE  Typed'
<1>1. PICK tool \in Tools : tool = pc["shell"]
  BY DEF ToolStarts
<1>2. Labels'
  BY GoesOnType DEF ToolStarts
<1>3. ctrlQ' \in Seq(Messages) /\ handler' \in Tools \cup {"ctrl"}
  BY <1>1, QueueTypes DEF ToolStarts, Typed, Lists, Users
<1>4. ctrl' \in CtrlData
  <2>1. PICK tools : tools = ctrl.tools \cup {tool}
    OBVIOUS
  <2>2. ctrl' = [ctrl EXCEPT !.tools = tools] /\ tools \subseteq Tools
    BY <1>1, <2>1 DEF ToolStarts, Typed, Data
  <2> QED
    BY <2>2 DEF Typed, Data
<1> QED
  BY <1>2, <1>3, <1>4 DEF ToolStarts, Typed, Data, Lists, Users

LEMMA ToolEndsType ==
  ASSUME Typed, ToolEnds
  PROVE  Typed'
<1>1. handler \in Tools
  BY DEF ToolEnds, Typed, Users
<1>2. ctrlQ' \in Seq(Messages)
  BY <1>1, QueueTypes DEF ToolEnds, Typed
<1> QED
  BY <1>2 DEF ToolEnds, Typed, Data, Lists, Labels, Users, threads

LEMMA CtrlReclaimsType ==
  ASSUME Typed, CtrlReclaims
  PROVE  Typed'
<1>1. Labels'
  BY GoesOnType DEF CtrlReclaims
<1> QED
  BY <1>1 DEF CtrlReclaims, Typed, Data, Lists, Users

LEMMA RxThreadType ==
  ASSUME Typed, RxThread
  PROVE  Typed'
<1>1. rxQ' \in Seq({"measure", "rx"}) /\ Head(rxQ) \in {"measure", "rx"}
  BY QueueTypes DEF RxThread, Typed
<1>2. UNCHANGED <<ctrlQ, threads, users>>
  BY DEF RxThread
<1>3. CASE modem' = Append(modem, [op |-> Head(rxQ), measured |-> FALSE])
           /\ UNCHANGED <<ctrl, scan, sema, timer, suspended>>
  <2>1. [op |-> Head(rxQ), measured |-> FALSE] \in RadioOps
    BY <1>1 DEF RadioOps
  <2>2. modem' \in Seq(RadioOps)
    BY <1>3, <2>1, HoldsAppend DEF Typed, Lists
  <2> QED
    BY <1>1, <1>2, <1>3, <2>2 DEF Typed, Data, Lists, Labels, Users, threads, users
<1>4. CASE UNCHANGED <<modem, ctrl, scan, sema, timer, suspended>>
  BY <1>1, <1>2, <1>4 DEF Typed, Data, Lists, Labels, Users, threads, users
<1>5. CASE /\ UNCHANGED modem /\ scan' = [scan EXCEPT !.on_going = FALSE]
           /\ ScanCompleted(FALSE) \/ UNCHANGED <<ctrl, sema, suspended, timer>>
  <2>1. Data'
    BY <1>5, ScanCompletedType DEF Typed, Data
  <2> QED
    BY <1>1, <1>2, <1>5, <2>1 DEF Typed, Lists, Labels, Users, threads, users
<1> QED
  BY <1>3, <1>4, <1>5 DEF RxThread

LEMMA TimerFiresType ==
  ASSUME Typed, TimerFires
  PROVE  Typed'
<1>1. ctrlQ' \in Seq(Messages)
  BY QueueTypes DEF TimerFires, RunScan, Typed
<1>2. Labels' /\ Users'
  BY DEF TimerFires, Typed, Labels, Users, threads, users
<1>3. Data' /\ Lists'
  BY <1>1 DEF TimerFires, Typed, Data, Lists
<1> QED
  BY <1>2, <1>3 DEF Typed

LEMMA MeasureType ==
  ASSUME Typed, NEW i \in DOMAIN modem, Measure(i)
  PROVE  Typed'
<1>1. i \in 1 .. Len(modem) /\ modem[i] \in RadioOps
  BY LenProperties, ElementOfSeq DEF Typed, Lists
<1>2. modem' \in Seq(RadioOps)
  <2>1. PICK op : op = [modem[i] EXCEPT !.measured = TRUE]
    OBVIOUS
  <2>2. op \in RadioOps
    BY <1>1, <2>1 DEF RadioOps
  <2>3. modem' = [modem EXCEPT ![i] = op]
    BY <2>1 DEF Measure
  <2> QED
    BY <1>1, <2>2, <2>3, ExceptSeq DEF Typed, Lists
<1>3. scan' \in ScanData /\ ctrlQ' \in Seq(Messages)
  BY QueueTypes DEF Measure, Typed, Data, Lists
<1> QED
  BY <1>2, <1>3 DEF Measure, Typed, Data, Lists, Labels, Users, threads, users

LEMMA CompleteType ==
  ASSUME Typed, NEW i \in DOMAIN modem, NEW ok \in BOOLEAN, Complete(i, ok)
  PROVE  Typed'
<1>1. i \in 1 .. Len(modem) /\ modem[i] \in RadioOps
  BY LenProperties, ElementOfSeq DEF Typed, Lists
<1>2. <<modem[i]>> \in Seq(RadioOps)
  BY <1>1
<1>3. Ended(<<modem[i]>>, ok) \in Seq(Messages)
  BY <1>2, EndedType
<1>4. modem' \in Seq(RadioOps) /\ ctrlQ' \in Seq(Messages)
  BY <1>1, <1>3, RemoveAtProperties, HoldsConcat DEF Complete, Typed, Lists
<1>5. Labels' /\ Users'
  BY DEF Complete, Typed, Labels, Users, threads, users
<1>6. Data' /\ Lists'
  BY <1>4 DEF Complete, Typed, Data, Lists
<1> QED
  BY <1>5, <1>6 DEF Typed

\* Every step of the control thread.
LEMMA ControlThreadType ==
  ASSUME Typed, PhyCtrlAssumption, ControlThread
  PROVE  Typed'
<1>1. CASE CtrlReclaims
  BY <1>1, CtrlReclaimsType
<1>2. CASE /\ ctrlQ # <<>>
           /\ TakeRun \/ TakeCompleted \/ TakeRssiOnRx \/ TakeDone
           /\ UNCHANGED users
  <2>1. Data' /\ Lists' /\ Labels'
    BY <1>2, TakeRunType, TakeCompletedType, TakeRssiOnRxType, TakeDoneType
  <2> QED
    BY <1>2, <2>1 DEF Typed, Users, users
<1>3. CASE (CtrlSuspends \/ CtrlRestarts) /\ UNCHANGED users
  <2>1. Data' /\ Lists' /\ Labels'
    BY <1>3, CtrlSuspendsType, CtrlRestartsType
  <2> QED
    BY <1>3, <2>1 DEF Typed, Users, users
<1> QED
  BY <1>1, <1>2, <1>3 DEF ControlThread

LEMMA ShellType ==
  ASSUME Typed, PhyCtrlAssumption, Shell
  PROVE  Typed'
<1>1. commands' \in 0 .. MaxCommands /\ handler' = handler
  BY DEF Shell, Command, StartTool, Typed, Users, PhyCtrlAssumption
<1>2. Scans \subseteq ScanParams /\ Receptions \subseteq RxParams
  BY DEF PhyCtrlAssumption
<1>3. \/ \E params \in Scans : StartScan("shell", params)
      \/ \E params \in Receptions : StartRx(params)
      \/ \E tool \in Tools : StartTool(tool)
      \/ StopScan /\ UNCHANGED threads
      \/ StopRx
  BY DEF Shell
<1>4. Data' /\ Lists' /\ Labels'
  BY <1>2, <1>3, StartScanType, StartRxType, StartToolType, StopScanType, StopRxType
<1> QED
  BY <1>1, <1>4 DEF Typed, Users

LEMMA ShellGoesOnType ==
  ASSUME Typed, PhyCtrlAssumption, ShellGoesOn
  PROVE  Typed'
<1>1. CASE ToolStarts
  BY <1>1, ToolStartsType
<1>2. CASE (ScanSuspends("shell", "idle") \/ RxSuspends) /\ UNCHANGED users
  <2>1. Data' /\ Lists' /\ Labels'
    BY <1>2, ScanSuspendsType, RxSuspendsType
  <2> QED
    BY <1>2, <2>1 DEF Typed, Users, users
<1> QED
  BY <1>1, <1>2 DEF ShellGoesOn

LEMMA InitType ==
  ASSUME PhyCtrlAssumption, Init
  PROVE  Typed
<1>1. Lists
  BY DEF Init, Lists
<1>2. NoScan \in ScanParams /\ NoRx \in RxParams
  BY DEF NoScan, NoRx, ScanParams, RxParams
<1>3. Data
  <2>1. ctrl \in CtrlData
    BY <1>2 DEF Init, PhyCtrlAssumption
  <2>2. scan \in ScanData
    BY DEF Init, Cleared, PhyCtrlAssumption
  <2> QED
    BY <2>1, <2>2 DEF Init, Data
<1> QED
  BY <1>1, <1>3 DEF Init, Typed, Labels, Users, PhyCtrlAssumption

--------------------------------------------------------------------------------
(* What PHY control is to a beacon.                                        *)

Repeats == ctrl.rssi_scan_cmd_running /\ ctrl.rssi_scan_params.interval

\* The modem is control's and no tool may have it.
Held == handler = "ctrl" /\ ext.running /\ ctrl.tools = {} /\ pc["shell"] \notin Tools

\* A step of PHY control does not move the work queue, does not let it wait for a scan
\* that is over, and gives no modem away while an external command runs.
Spares ==
  /\ pc'["work"] = pc["work"]
  /\ timer' => Repeats'
  /\ pc["work"] = "wait" /\ (sema = "empty" => ctrl.rssi_scan_ongoing) =>
       (sema' = "empty" => ctrl'.rssi_scan_ongoing)
  /\ Held => Held' /\ ext' = ext

Ready == Typed /\ (timer => Repeats) /\ PhyCtrlAssumption

\* The end of a scan is one for the thread that waits.
LEMMA ScanCompletedSpares ==
  ASSUME Ready, NEW ok \in BOOLEAN, ScanCompleted(ok), UNCHANGED <<users, pc>>
  PROVE  Spares
<1>1. ctrl' = [ctrl EXCEPT !.rssi_scan_ongoing = FALSE] /\ ctrl \in CtrlData
  BY DEF ScanCompleted, Ready, Typed, Data
<1>2. /\ timer' = (timer \/ Repeats)
      /\ sema' = "given" \/ sema' = IF pc["work"] = "wait" THEN "failed" ELSE "empty"
  BY DEF ScanCompleted, Repeats, ResetSema
<1>3. Repeats' = Repeats /\ ctrl'.tools = ctrl.tools
  BY <1>1 DEF Repeats
<1> QED
  BY <1>2, <1>3 DEF Spares, Ready, users, Held

LEMMA SameSpares ==
  ASSUME Ready, UNCHANGED <<ctrl, sema, timer, handler, ext>>, pc'["work"] = pc["work"],
         pc["shell"] \notin Tools => pc'["shell"] \notin Tools
  PROVE  Spares
BY DEF Spares, Ready, Repeats, Held

LEMMA FirstChannelSpares ==
  ASSUME Ready, NEW label, FirstChannel(label), UNCHANGED users,
         pc'["work"] = pc["work"], pc'["shell"] = pc["shell"]
  PROVE  Spares
<1>1. CASE ctrl' = [ctrl EXCEPT !.rssi_scan_ongoing = FALSE, !.rssi_scan_cmd_running = FALSE]
           /\ ResetSema /\ timer' = FALSE
  <2>1. ctrl'.tools = ctrl.tools
    BY <1>1 DEF Ready, Typed, Data
  <2> QED
    BY <1>1, <2>1 DEF Spares, ResetSema, users, Held
<1>2. CASE UNCHANGED <<ctrl, sema, timer>>
  BY <1>2, SameSpares DEF users
<1> QED
  BY <1>1, <1>2 DEF FirstChannel

\* The control thread stays where it is or goes elsewhere, the others stay.
LEMMA CtrlGoes ==
  ASSUME Typed, NEW label,
         \/ GoesOn("ctrl", label, "idle")
         \/ Waits("ctrl", label) /\ label \in {"suspend", "rx", "tool"}
         \/ UNCHANGED threads
  PROVE  pc'["work"] = pc["work"] /\ pc'["shell"] = pc["shell"]
BY GoesOnType, WaitsType DEF threads

LEMMA TakeRunSpares ==
  ASSUME Ready, TakeRun, UNCHANGED users
  PROVE  Spares
<1>1. pc'["work"] = pc["work"] /\ pc'["shell"] = pc["shell"]
  BY CtrlGoes DEF TakeRun, Ready
<1> QED
  BY <1>1, FirstChannelSpares, SameSpares DEF TakeRun, users

LEMMA RestartSpares ==
  ASSUME Ready, Restart \/ RxEnds, UNCHANGED <<users, sema, timer>>,
         pc'["work"] = pc["work"], pc'["shell"] = pc["shell"]
  PROVE  Spares
<1>1. /\ ctrl'.rssi_scan_ongoing = ctrl.rssi_scan_ongoing /\ ctrl'.tools = ctrl.tools
      /\ ctrl'.rssi_scan_cmd_running = ctrl.rssi_scan_cmd_running
      /\ ctrl'.rssi_scan_params = ctrl.rssi_scan_params
  <2> ctrl \in CtrlData
    BY DEF Ready, Typed, Data
  <2>1. CASE RxEnds
    BY <2>1 DEF RxEnds
  <2>2. CASE Receive(ctrl.rx_cmd_params, ctrl.rx_channel + 1, TRUE)
    BY <2>2 DEF Receive
  <2> QED
    BY <2>1, <2>2 DEF Restart
<1> QED
  BY <1>1 DEF Spares, Ready, Repeats, Held, users

LEMMA FinishedSpares ==
  ASSUME Ready, NEW ok \in BOOLEAN, Finished(ok), UNCHANGED <<users, pc>>
  PROVE  Spares
BY ScanCompletedSpares, SameSpares DEF Finished, ScanDone, users

LEMMA TakeCompletedSpares ==
  ASSUME Ready, ctrlQ # <<>>, TakeCompleted, UNCHANGED users
  PROVE  Spares
<1>1. CASE Head(ctrlQ).op = "rx"
  <2>1. RxCompleted(Head(ctrlQ).ok) /\ UNCHANGED <<sema, timer>>
    BY <1>1 DEF TakeCompleted
  <2>2. pc'["work"] = pc["work"] /\ pc'["shell"] = pc["shell"]
    BY <2>1, CtrlGoes DEF RxCompleted, Ready
  <2>3. UNCHANGED ctrl \/ Restart \/ RxEnds
    BY <2>1 DEF RxCompleted
  <2> QED
    BY <2>1, <2>2, <2>3, RestartSpares, SameSpares DEF users
<1>2. CASE Head(ctrlQ).op # "rx"
  <2>1. Finished(Head(ctrlQ).ok) /\ UNCHANGED threads
    BY <1>2 DEF TakeCompleted
  <2>2. Head(ctrlQ).ok \in BOOLEAN
    BY CompletedOk DEF TakeCompleted, Ready
  <2> QED
    BY <2>1, <2>2, FinishedSpares DEF threads
<1> QED
  BY <1>1, <1>2

LEMMA TakeRssiOnRxSpares ==
  ASSUME Ready, TakeRssiOnRx, UNCHANGED users
  PROVE  Spares
BY ScanCompletedSpares, SameSpares DEF TakeRssiOnRx, threads, users

LEMMA TakeDoneSpares ==
  ASSUME Ready, TakeDone, UNCHANGED users
  PROVE  Spares
<1>1. pc'["work"] = pc["work"] /\ pc'["shell"] = pc["shell"]
  BY CtrlGoes DEF TakeDone, Ready
<1>2. /\ ctrl'.rssi_scan_ongoing = ctrl.rssi_scan_ongoing /\ ctrl'.tools \subseteq ctrl.tools
      /\ ctrl'.rssi_scan_cmd_running = ctrl.rssi_scan_cmd_running
      /\ ctrl'.rssi_scan_params = ctrl.rssi_scan_params
  BY DEF TakeDone, Ready, Typed, Data
<1> QED
  BY <1>1, <1>2 DEF TakeDone, Spares, Ready, Repeats, Held, users

\* Every step of the control thread.
LEMMA ControlThreadSpares ==
  ASSUME Ready, ControlThread
  PROVE  Spares
<1>1. CASE CtrlReclaims
  <2>1. pc'["work"] = pc["work"] /\ pc'["shell"] = pc["shell"]
    BY <1>1, CtrlGoes DEF CtrlReclaims, Ready
  <2> QED
    BY <1>1, <2>1 DEF CtrlReclaims, Spares, Ready, Repeats, Held
<1>2. CASE (CtrlSuspends \/ CtrlRestarts) /\ UNCHANGED users
  <2>1. pc'["work"] = pc["work"] /\ pc'["shell"] = pc["shell"]
    BY <1>2, CtrlGoes DEF CtrlSuspends, CtrlRestarts, Ready
  <2> QED
    BY <1>2, <2>1, FirstChannelSpares, RestartSpares DEF CtrlSuspends, CtrlRestarts
<1>3. CASE /\ ctrlQ # <<>>
           /\ TakeRun \/ TakeCompleted \/ TakeRssiOnRx \/ TakeDone
           /\ UNCHANGED users
  BY <1>3, TakeRunSpares, TakeCompletedSpares, TakeRssiOnRxSpares, TakeDoneSpares
<1> QED
  BY <1>1, <1>2, <1>3 DEF ControlThread

\* The shell starts no scan while the work queue waits for one.
LEMMA ShellSpares ==
  ASSUME Ready, Shell, pc["work"] = "wait" => ctrl.rssi_scan_ongoing
  PROVE  Spares
<1> ctrl \in CtrlData
  BY DEF Ready, Typed, Data
<1>1. ASSUME NEW params \in Scans, StartScan("shell", params), UNCHANGED <<ext, handler>>, Alone
      PROVE  Spares
  <2>1. pc'["work"] = pc["work"] /\ (pc["shell"] \notin Tools => pc'["shell"] \notin Tools)
    <3>1. CASE params.suspend
      <4>1. Waits("shell", "suspend")
        BY <1>1, <3>1 DEF StartScan
      <4> QED
        BY <4>1, WaitsType DEF Ready, PhyCtrlAssumption
    <3>2. CASE ~params.suspend
      BY <1>1, <3>2 DEF StartScan, threads
    <3> QED
      BY <3>1, <3>2
  <2>2. ~ctrl.rssi_scan_ongoing /\ ctrl'.tools = ctrl.tools /\ timer' = timer
    BY <1>1 DEF StartScan
  <2>3. ~timer
    BY <1>1 DEF Alone, Ready, Repeats
  <2>4. pc["work"] # "wait"
    BY <2>2
  <2> QED
    BY <1>1, <2>1, <2>2, <2>3, <2>4 DEF Spares, Held
<1>2. ASSUME NEW params \in Receptions, StartRx(params), UNCHANGED <<ext, handler>>
      PROVE  Spares
  <2>1. /\ ctrl'.rssi_scan_ongoing = ctrl.rssi_scan_ongoing /\ ctrl'.tools = ctrl.tools
        /\ ctrl'.rssi_scan_cmd_running = ctrl.rssi_scan_cmd_running
        /\ ctrl'.rssi_scan_params = ctrl.rssi_scan_params
        /\ UNCHANGED <<sema, timer>>
    BY <1>2 DEF StartRx, Receive
  <2>2. pc'["work"] = pc["work"] /\ (pc["shell"] \notin Tools => pc'["shell"] \notin Tools)
    <3>1. CASE params.suspend
      <4>1. Waits("shell", "rx")
        BY <1>2, <3>1 DEF StartRx
      <4> QED
        BY <4>1, WaitsType DEF Ready, PhyCtrlAssumption
    <3>2. CASE ~params.suspend
      BY <1>2, <3>2 DEF StartRx, threads
    <3> QED
      BY <3>1, <3>2
  <2> QED
    BY <1>2, <2>1, <2>2 DEF Spares, Ready, Repeats, Held
<1>3. ASSUME NEW tool \in Tools, StartTool(tool)
      PROVE  Spares
  <2>1. pc'["work"] = pc["work"] /\ UNCHANGED <<ctrl, ext, handler, sema, timer>> /\ ~ext.running
    BY <1>3, WaitsType DEF StartTool, OpOngoing, Ready
  <2> QED
    BY <2>1 DEF Spares, Ready, Repeats, Held
<1>4. CASE StopScan /\ UNCHANGED <<threads, ext, handler>>
  <2>1. ctrl'.tools = ctrl.tools /\ sema' = (IF pc["work"] = "wait" THEN "failed" ELSE "empty")
    BY <1>4 DEF StopScan, ResetSema
  <2> QED
    BY <1>4, <2>1 DEF StopScan, Spares, Held, threads
<1>5. CASE StopRx /\ UNCHANGED <<ext, handler>>
  <2>1. /\ ctrl'.rssi_scan_ongoing = ctrl.rssi_scan_ongoing /\ ctrl'.tools = ctrl.tools
        /\ ctrl'.rssi_scan_cmd_running = ctrl.rssi_scan_cmd_running
        /\ ctrl'.rssi_scan_params = ctrl.rssi_scan_params
        /\ UNCHANGED <<sema, timer, threads>>
    BY <1>5 DEF StopRx
  <2> QED
    BY <1>5, <2>1 DEF Spares, Ready, Repeats, Held, threads
<1> QED
  BY <1>1, <1>2, <1>3, <1>4, <1>5 DEF Shell

LEMMA ShellGoesOnSpares ==
  ASSUME Ready, ShellGoesOn
  PROVE  Spares
<1>1. pc'["work"] = pc["work"] /\ pc'["shell"] = "idle" /\ "idle" \notin Tools
  <2>1. \E label : GoesOn("shell", label, "idle")
    BY DEF ShellGoesOn, ScanSuspends, RxSuspends, ToolStarts
  <2> QED
    BY <2>1, GoesOnType DEF Ready, PhyCtrlAssumption
<1>2. CASE ScanSuspends("shell", "idle") /\ UNCHANGED users
  BY <1>1, <1>2, SameSpares DEF ScanSuspends, users
<1>3. CASE RxSuspends /\ UNCHANGED users
  <2>1. /\ ctrl'.rssi_scan_ongoing = ctrl.rssi_scan_ongoing /\ ctrl'.tools = ctrl.tools
        /\ ctrl'.rssi_scan_cmd_running = ctrl.rssi_scan_cmd_running
        /\ ctrl'.rssi_scan_params = ctrl.rssi_scan_params
        /\ UNCHANGED <<sema, timer>>
    BY <1>3 DEF RxSuspends, Receive, Ready, Typed, Data
  <2> QED
    BY <1>1, <1>3, <2>1 DEF Spares, Ready, Repeats, Held, users
<1>4. CASE ToolStarts
  <2>1. /\ ctrl'.rssi_scan_ongoing = ctrl.rssi_scan_ongoing /\ pc["shell"] \in Tools
        /\ ctrl'.rssi_scan_cmd_running = ctrl.rssi_scan_cmd_running
        /\ ctrl'.rssi_scan_params = ctrl.rssi_scan_params
        /\ UNCHANGED <<sema, timer>>
    BY <1>4 DEF ToolStarts, Ready, Typed, Data
  <2> QED
    BY <1>1, <2>1 DEF Spares, Ready, Repeats, Held
<1> QED
  BY <1>2, <1>3, <1>4 DEF ShellGoesOn

\* The RX thread, the timer, the end of a tool and the modem.
LEMMA OthersSpare ==
  ASSUME Ready,
         \/ RxThread \/ TimerFires \/ ToolEnds
         \/ \E i \in DOMAIN modem : Measure(i) \/ \E ok \in BOOLEAN : Complete(i, ok)
  PROVE  Spares
<1>1. CASE RxThread
  BY <1>1, ScanCompletedSpares, SameSpares DEF RxThread, threads, users
<1>2. CASE TimerFires
  BY <1>2 DEF TimerFires, Spares, Held, threads, users
<1>3. CASE ToolEnds
  BY <1>3, SameSpares DEF ToolEnds, threads
<1>4. ASSUME NEW i \in DOMAIN modem, Measure(i) \/ \E ok \in BOOLEAN : Complete(i, ok)
      PROVE  Spares
  BY <1>4, SameSpares DEF Measure, Complete, threads, users
<1> QED
  BY <1>1, <1>2, <1>3, <1>4

--------------------------------------------------------------------------------
(* The beacon on the air.                                                  *)

\* A start that was asked for is the first thing in the work queue; a stop is the last.
StartAsked == workQ \in {<<"start">>, <<"start", "stop">>}
StopAsked == workQ \in {<<"stop">>, <<"start", "stop">>}
Queues == workQ = <<>> \/ StartAsked \/ StopAsked
Starting == StartAsked \/ pc["work"] # "idle"

\* Nothing of PHY control is under way.
Still ==
  /\ rxQ = <<>> /\ modem = <<>> /\ ctrlQ = <<>> /\ ~timer /\ handler = "ctrl"
  /\ pc["shell"] = "idle" /\ pc["ctrl"] = "idle"

\* A beacon that starts finds nothing under way, starts its scan, and waits for it only
\* while it goes on.
Choosing ==
  /\ Queues
  /\ StartAsked => pc["work"] = "idle" /\ ~ctrl.rssi_scan_ongoing
  /\ StartAsked \/ pc["work"] = "suspend" => Still
  /\ pc["work"] = "suspend" => ctrl.rssi_scan_ongoing
  /\ pc["work"] = "wait" /\ sema = "empty" => ctrl.rssi_scan_ongoing

\* BeaconOnAir, that only a beacon that does not run is started, and that it has one TX
\* and one random access resource at most.
OnAir ==
  /\ running \in BOOLEAN /\ items \in [Kinds -> Nat]
  /\ "beacon_tx_on_going" \in DOMAIN mac /\ mac.beacon_tx_on_going = running
  /\ Starting => ~running
  /\ running => items["tx"] <= 1 /\ items["rach"] <= 1 /\ (items["tx"] = 1 \/ StopAsked \/ displaced)
  /\ ~running => items["tx"] = 0 /\ items["rach"] = 0

Assumed == PhyCtrlAssumption /\ BeaconAssumption
AirInv == Assumed /\ Ready /\ Choosing /\ OnAir

LEMMA Queued ==
  /\ Contains(workQ, "stop") /\ Queues => StopAsked
  /\ StopAsked => Contains(workQ, "stop")
<1>1. ~Contains(<<>>, "stop") /\ ~Contains(<<"start">>, "stop")
  BY DEF Contains
<1>2. Contains(<<"stop">>, "stop")
  <2>1. 1 \in DOMAIN <<"stop">> /\ <<"stop">>[1] = "stop"
    OBVIOUS
  <2> QED
    BY <2>1 DEF Contains
<1>3. Contains(<<"start", "stop">>, "stop")
  <2>1. 2 \in DOMAIN <<"start", "stop">> /\ <<"start", "stop">>[2] = "stop"
    OBVIOUS
  <2> QED
    BY <2>1 DEF Contains
<1> QED
  BY <1>1, <1>2, <1>3, Zenon DEF Queues, StartAsked, StopAsked

\* A stop goes behind what is queued, once.
LEMMA SubmitStop ==
  ASSUME Queues, Submit("stop")
  PROVE  Queues' /\ StopAsked' /\ (StartAsked' <=> StartAsked)
<1>1. CASE StopAsked
  BY <1>1, Queued DEF Submit, Queues, StopAsked, StartAsked
<1>2. CASE ~StopAsked
  <2>1. workQ' = Append(workQ, "stop")
    <3>1. ~Contains(workQ, "stop")
      BY <1>2, Queued
    <3> QED
      BY <3>1 DEF Submit
  <2>4. workQ = <<>> \/ workQ = <<"start">>
    BY <1>2, Zenon DEF Queues, StopAsked, StartAsked
  <2>2. Append(<<>>, "stop") = <<"stop">> /\ Append(<<"start">>, "stop") = <<"start", "stop">>
    BY AppendPair
  <2>3. <<>> # <<"start">> /\ <<>> # <<"start", "stop">> /\ <<"stop">> # <<"start">>
        /\ <<"stop">> # <<"start", "stop">>
    OBVIOUS
  <2> QED
    BY <2>1, <2>2, <2>3, <2>4 DEF Queues, StopAsked, StartAsked
<1> QED
  BY <1>1, <1>2

LEMMA Taken ==
  ASSUME Queues, workQ # <<>>
  PROVE  /\ Head(workQ) = "start" =>
              StartAsked /\ (Tail(workQ) = <<>> \/ (Tail(workQ) = <<"stop">> /\ StopAsked))
         /\ Head(workQ) = "stop" => workQ = <<"stop">> /\ Tail(workQ) = <<>>
         /\ StopAsked /\ Head(workQ) = "start" => Tail(workQ) = <<"stop">>
<1>1. /\ Head(<<"start">>) = "start" /\ Tail(<<"start">>) = <<>>
      /\ Head(<<"start", "stop">>) = "start" /\ Tail(<<"start", "stop">>) = <<"stop">>
      /\ Head(<<"stop">>) = "stop" /\ Tail(<<"stop">>) = <<>>
      /\ <<"start">> # <<"stop">> /\ <<"start">> # <<"start", "stop">>
  OBVIOUS
<1> QED
  BY <1>1 DEF Queues, StartAsked, StopAsked

\* While a start is asked for, and while its cancel waits, PHY control and the shell have
\* nothing to do.
LEMMA StillStands ==
  ASSUME AirInv, StartAsked \/ pc["work"] = "suspend",
         \/ ControlThread \/ (Shell /\ ShellRuns) \/ ShellGoesOn
         \/ RxThread \/ TimerFires \/ ToolEnds
         \/ \E i \in DOMAIN modem : Measure(i) \/ \E ok \in BOOLEAN : Complete(i, ok)
  PROVE  FALSE
<1>1. Still /\ "idle" \notin Tools
  BY DEF AirInv, Choosing, Assumed, PhyCtrlAssumption
<1>2. ~ControlThread
  BY <1>1 DEF Still, ControlThread, CtrlSuspends, CtrlRestarts, CtrlReclaims, GoesOn
<1>3. ~ShellRuns
  <2>1. CASE StartAsked
    <3>1. pc["work"] = "idle" /\ workQ # <<>>
      BY <2>1 DEF AirInv, Choosing, StartAsked
    <3> QED
      BY <3>1 DEF ShellRuns, WorkReady
  <2> QED
    BY <2>1 DEF ShellRuns
<1>4. ~ShellGoesOn
  BY <1>1 DEF Still, ShellGoesOn, ScanSuspends, RxSuspends, ToolStarts, GoesOn
<1>5. ~RxThread /\ ~TimerFires /\ ~ToolEnds
  BY <1>1 DEF Still, RxThread, TimerFires, ToolEnds
<1>6. DOMAIN modem = {}
  BY <1>1 DEF Still
<1> QED
  BY <1>2, <1>3, <1>4, <1>5, <1>6

\* A measurement may take the TX off the list, and asks for a stop when it does.
LEMMA DirectRssiDoes ==
  ASSUME Queues, items \in [Kinds -> Nat], NEW busy, DirectRssi(busy)
  PROVE  /\ Queues' /\ (StartAsked' <=> StartAsked) /\ (StopAsked => StopAsked')
         /\ items' \in [Kinds -> Nat] /\ (\A k \in Kinds : items'[k] <= items[k])
         /\ items' = items \/ StopAsked'
<1>1. CASE busy \cap ReservedTx # {}
  <2>1. items' = Unlisted({"tx"}) /\ Submit("stop")
    BY <1>1 DEF DirectRssi
  <2>2. Queues' /\ (StartAsked' <=> StartAsked) /\ StopAsked'
    BY <2>1, SubmitStop
  <2> QED
    BY <2>1, <2>2 DEF Unlisted
<1>2. CASE busy \cap ReservedTx = {}
  <2>1. items' = items /\ (Submit("stop") \/ workQ' = workQ)
    BY <1>2 DEF DirectRssi
  <2>2. Queues' /\ (StartAsked' <=> StartAsked) /\ (StopAsked => StopAsked')
    BY <2>1, SubmitStop DEF Queues, StartAsked, StopAsked
  <2> QED
    BY <2>1, <2>2
<1> QED
  BY <1>1, <1>2

\* A step of PHY control that leaves the beacon its operations and its queue.
LEMMA SparedAir ==
  ASSUME AirInv, ~StartAsked, pc["work"] # "suspend", Spares, Typed',
         UNCHANGED <<running, mac, displaced>>,
         \/ UNCHANGED <<workQ, items>>
         \/ \E busy : DirectRssi(busy)
  PROVE  AirInv'
<1>1. Ready' /\ Assumed
  BY DEF AirInv, Ready, Spares, Assumed
<1>2. Queues' /\ ~StartAsked' /\ (StopAsked => StopAsked')
      /\ items' \in [Kinds -> Nat] /\ (\A k \in Kinds : items'[k] <= items[k])
      /\ (items' = items \/ StopAsked')
  <2>1. CASE UNCHANGED <<workQ, items>>
    BY <2>1 DEF AirInv, Choosing, OnAir, Queues, StartAsked, StopAsked
  <2>2. ASSUME NEW busy, DirectRssi(busy)
        PROVE  /\ Queues' /\ ~StartAsked' /\ (StopAsked => StopAsked')
               /\ items' \in [Kinds -> Nat] /\ (\A k \in Kinds : items'[k] <= items[k])
               /\ (items' = items \/ StopAsked')
    BY <2>2, DirectRssiDoes DEF AirInv, OnAir, Choosing
  <2> QED
    BY <2>1, <2>2
<1>3. Choosing'
  BY <1>2 DEF AirInv, Choosing, Spares
<1>4. OnAir'
  <2>1. running' = running /\ mac' = mac /\ displaced' = displaced /\ pc'["work"] = pc["work"]
    BY DEF Spares
  <2>2. items \in [Kinds -> Nat] /\ "tx" \in Kinds /\ "rach" \in Kinds
    BY DEF AirInv, OnAir, Kinds
  <2>3. items'["tx"] <= items["tx"] /\ items'["rach"] <= items["rach"]
        /\ items'["tx"] \in Nat /\ items'["rach"] \in Nat /\ items["tx"] \in Nat /\ items["rach"] \in Nat
    BY <1>2, <2>2
  <2> QED
    BY <1>2, <2>1, <2>3 DEF AirInv, OnAir, Starting
<1> QED
  BY <1>1, <1>3, <1>4 DEF AirInv, Assumed

LEMMA StartBeaconAir ==
  ASSUME AirInv, StartBeacon
  PROVE  AirInv'
<1>1. Command /\ ShellRuns /\ Alone /\ Reclaimed /\ UNCHANGED <<control, sema, threads, items, running, displaced>>
  BY DEF StartBeacon
<1>2. ~running /\ mac'.beacon_tx_on_going = mac.beacon_tx_on_going
      /\ "beacon_tx_on_going" \in DOMAIN mac'
  BY DEF StartBeacon, AirInv, OnAir
<1>3. Typed' /\ Ready'
  <2>1. Users'
    BY <1>1 DEF Command, control, AirInv, Ready, Typed, Users, Assumed, PhyCtrlAssumption
  <2> QED
    BY <1>1, <2>1 DEF control, threads, AirInv, Ready, Typed, Data, Lists, Labels, Repeats
<1>4. CASE ~ExtFree
  BY <1>1, <1>2, <1>3, <1>4 DEF StartBeacon, AirInv, Choosing, OnAir, Starting, StartAsked, StopAsked,
     Queues, Still, control, threads, Assumed
<1>5. CASE ExtFree
  <2>1. ~ctrl.rssi_scan_ongoing /\ Submit("start")
    BY <1>5 DEF ExtFree, StartBeacon
  <2>2. pc["work"] = "idle" /\ workQ = <<>>
    <3>1. pc["work"] # "wait"
      <4>1. pc["work"] = "wait" => sema # "empty"
        BY <2>1 DEF AirInv, Choosing
      <4> QED
        BY <1>1, <4>1 DEF ShellRuns, WorkReady
    <3> QED
      BY <1>1, <3>1 DEF ShellRuns, WorkReady, AirInv, Ready, Typed, Labels
  <2>3. workQ' = <<"start">>
    <3>1. ~Contains(<<>>, "start") /\ Append(<<>>, "start") = <<"start">>
      BY DEF Contains
    <3> QED
      BY <2>1, <2>2, <3>1 DEF Submit
  <2>4. StartAsked' /\ ~StopAsked' /\ Queues'
    BY <2>3 DEF StartAsked, StopAsked, Queues
  <2>5. Still
    BY <1>1, <2>1 DEF Alone, Reclaimed, Command, Still, AirInv, Ready, Repeats
  <2>6. Choosing'
    BY <1>1, <2>1, <2>2, <2>4, <2>5 DEF Choosing, Still, control, threads
  <2>7. OnAir'
    BY <1>1, <1>2, <2>4 DEF AirInv, OnAir
  <2> QED
    BY <1>3, <2>6, <2>7 DEF AirInv, Assumed
<1> QED
  BY <1>4, <1>5

\* What the shell asks the MAC for leaves PHY control alone, but for the commands it counts.
LEMMA CommandReady ==
  ASSUME AirInv, Command, UNCHANGED <<sema, control, threads>>
  PROVE  Ready' /\ Assumed'
<1>1. Users'
  BY DEF Command, control, AirInv, Ready, Typed, Users, Assumed, PhyCtrlAssumption
<1> QED
  BY <1>1 DEF control, threads, AirInv, Ready, Typed, Data, Lists, Labels, Repeats, Assumed

LEMMA StopBeaconAir ==
  ASSUME AirInv, StopBeacon
  PROVE  AirInv'
<1>1. Ready' /\ Assumed'
  BY CommandReady DEF StopBeacon
<1>2. Queues' /\ StopAsked' /\ (StartAsked' <=> StartAsked)
  BY SubmitStop DEF StopBeacon, AirInv, Choosing
<1>3. Choosing'
  BY <1>2 DEF StopBeacon, AirInv, Choosing, Still, control, threads
<1>4. OnAir'
  BY <1>2 DEF StopBeacon, AirInv, OnAir, Starting, control, threads
<1> QED
  BY <1>1, <1>3, <1>4 DEF AirInv

\* The client's commands change the external command only.
LEMMA ClientAir ==
  ASSUME AirInv, StartClient \/ StopClient \/ ClientCompletes
  PROVE  AirInv'
<1>1. UNCHANGED <<mac, workQ, running, items, displaced, sema, control, threads>>
  BY DEF StartClient, StopClient, ClientCompletes
<1>2. Ready' /\ Assumed'
  <2>1. CASE Command
    BY <1>1, <2>1, CommandReady
  <2>2. CASE UNCHANGED commands
    BY <1>1, <2>2 DEF control, threads, AirInv, Ready, Typed, Data, Lists, Labels, Users, Repeats, Assumed
  <2> QED
    BY <2>1, <2>2 DEF StartClient, StopClient, ClientCompletes
<1>3. Choosing' /\ OnAir'
  BY <1>1 DEF AirInv, Choosing, OnAir, Queues, StartAsked, StopAsked, Starting, Still, control, threads
<1> QED
  BY <1>2, <1>3 DEF AirInv

LEMMA WorkStartsAir ==
  ASSUME AirInv, WorkStarts
  PROVE  AirInv'
<1>1. /\ pc["work"] = "idle" /\ workQ # <<>> /\ Head(workQ) = "start" /\ workQ' = Tail(workQ)
      /\ UNCHANGED <<mac, running, items, displaced, handler, commands>>
  BY DEF WorkStarts, control
<1>2. /\ StartAsked /\ Queues' /\ ~StartAsked' /\ (StopAsked => StopAsked')
  <2>1. Queues
    BY DEF AirInv, Choosing
  <2>2. workQ' = <<>> \/ (workQ' = <<"stop">> /\ StopAsked)
    BY <1>1, <2>1, Taken
  <2>3. StopAsked => workQ' = <<"stop">>
    BY <1>1, <2>1, Taken
  <2>4. <<>> # <<"start">> /\ <<>> # <<"start", "stop">> /\ <<"stop">> # <<"start">>
        /\ <<"stop">> # <<"start", "stop">>
    OBVIOUS
  <2> QED
    BY <1>1, <2>1, <2>2, <2>3, <2>4, Taken DEF StartAsked, StopAsked, Queues
<1>3. Still /\ ~ctrl.rssi_scan_ongoing /\ ~running
  BY <1>2 DEF AirInv, Choosing, OnAir, Starting
<1>4. PICK all \in BOOLEAN : StartScan("work", [suspend |-> TRUE, interval |-> FALSE, all |-> all])
  BY <1>3 DEF WorkStarts
<1>5. /\ CancelAll(ctrlQ) /\ Waits("work", "suspend") /\ ctrl'.rssi_scan_ongoing
      /\ UNCHANGED <<timer, rxQ>>
  BY <1>4 DEF StartScan, AirInv, Ready, Typed, Data
<1>6. Typed'
  <2>1. [suspend |-> TRUE, interval |-> FALSE, all |-> all] \in ScanParams
    BY DEF ScanParams
  <2>2. Data' /\ Lists' /\ Labels'
    BY <1>4, <2>1, StartScanType DEF AirInv, Ready
  <2> QED
    BY <1>1, <2>2 DEF AirInv, Ready, Typed, Users
<1>7. pc'["work"] = "suspend" /\ pc'["shell"] = pc["shell"] /\ pc'["ctrl"] = pc["ctrl"]
  BY <1>5, WaitsType DEF AirInv, Ready
<1>8. modem' = <<>> /\ ctrlQ' = <<>>
  <2>1. ctrlQ = <<>> /\ modem = <<>>
    BY <1>3 DEF Still
  <2>2. Ended(<<>>, FALSE) = <<>>
    BY DEF Ended
  <2>3. modem' = <<>> /\ ctrlQ' = ctrlQ \o Ended(modem, FALSE)
    BY <1>5 DEF CancelAll
  <2>4. <<>> \o <<>> = <<>>
    OBVIOUS
  <2> QED
    BY <2>1, <2>2, <2>3, <2>4
<1>9. Still'
  BY <1>1, <1>3, <1>5, <1>7, <1>8 DEF Still
<1>10. Choosing'
  BY <1>2, <1>5, <1>7, <1>9 DEF Choosing
<1>11. OnAir'
  BY <1>1, <1>3 DEF AirInv, OnAir
<1> QED
  BY <1>3, <1>5, <1>6, <1>10, <1>11 DEF AirInv, Ready, Assumed, Still

LEMMA WorkSuspendsAir ==
  ASSUME AirInv, WorkSuspends
  PROVE  AirInv'
<1>1. /\ ScanSuspends("work", "wait") /\ UNCHANGED <<own, users>>
  BY DEF WorkSuspends
<1>2. pc["work"] = "suspend" /\ pc'["work"] = "wait"
  BY <1>1, GoesOnType DEF ScanSuspends, AirInv, Ready
<1>3. Typed'
  <2>1. Data' /\ Lists' /\ Labels'
    BY <1>1, ScanSuspendsType DEF AirInv, Ready
  <2> QED
    BY <1>1, <2>1 DEF AirInv, Ready, Typed, Users, users
<1>4. ctrl.rssi_scan_ongoing /\ ~StartAsked /\ UNCHANGED <<ctrl, timer>>
  BY <1>1, <1>2 DEF AirInv, Choosing, ScanSuspends
<1>5. Ready'
  BY <1>3, <1>4 DEF AirInv, Ready, Repeats
<1>6. Choosing'
  BY <1>1, <1>2, <1>4 DEF AirInv, Choosing, Queues, StartAsked, StopAsked, own
<1>7. OnAir'
  BY <1>1, <1>2 DEF AirInv, OnAir, Starting, StopAsked, own
<1> QED
  BY <1>5, <1>6, <1>7 DEF AirInv, Assumed

\* The work queue is idle again.
LEMMA WorkIdle ==
  ASSUME AirInv, pc["work"] = "wait", sema' = "empty", pc' = [pc EXCEPT !["work"] = "idle"],
         UNCHANGED <<workQ, control, commands>>
  PROVE  Ready' /\ Choosing' /\ Assumed' /\ pc'["work"] = "idle" /\ ~Starting'
<1>1. /\ pc'["work"] = "idle" /\ pc'["shell"] = pc["shell"] /\ pc'["ctrl"] = pc["ctrl"]
      /\ pc' = [t \in {"shell", "work", "ctrl"} |-> pc'[t]]
  BY PcMoves DEF AirInv, Ready, Typed
<1>2. Labels'
  BY <1>1 DEF AirInv, Ready, Typed, Labels
<1>3. Typed'
  BY <1>2 DEF AirInv, Ready, Typed, Data, Lists, Users, control
<1>4. ~StartAsked /\ ~StartAsked'
  BY DEF AirInv, Choosing, StartAsked
<1>5. Choosing'
  BY <1>1, <1>4 DEF AirInv, Choosing, Queues, StopAsked, StartAsked
<1> QED
  BY <1>1, <1>3, <1>4, <1>5 DEF AirInv, Ready, Repeats, Assumed, control, Starting

LEMMA WorkGivesUpAir ==
  ASSUME AirInv, WorkGivesUp
  PROVE  AirInv'
<1>1. Ready' /\ Choosing' /\ Assumed' /\ ~Starting'
  BY WorkIdle DEF WorkGivesUp, own, users
<1>2. OnAir'
  BY <1>1 DEF WorkGivesUp, AirInv, OnAir, StopAsked, own
<1> QED
  BY <1>1, <1>2 DEF AirInv

LEMMA WorkGoesOnAir ==
  ASSUME AirInv, WorkGoesOn
  PROVE  AirInv'
<1>1. Ready' /\ Choosing' /\ Assumed' /\ ~Starting'
  BY WorkIdle DEF WorkGoesOn, users
<1>2. /\ ~running /\ items["tx"] = 0 /\ items["rach"] = 0 /\ items \in [Kinds -> Nat]
      /\ "beacon_tx_on_going" \in DOMAIN mac /\ ~mac.beacon_tx_on_going
  BY DEF WorkGoesOn, AirInv, OnAir, Starting
<1>3. OnAir'
  <2>1. ASSUME NEW got \in SUBSET Kinds, "rach" \in got => "tx" \in got,
               items' = [k \in Kinds |-> IF k \in got THEN items[k] + 1 ELSE items[k]],
               running' = Listed(got), mac' = [mac EXCEPT !.beacon_tx_on_going = Listed(got)]
        PROVE  OnAir'
    <3>1. items' \in [Kinds -> Nat]
      BY <1>2, <2>1
    <3>2. items'["tx"] = (IF "tx" \in got THEN 1 ELSE 0) /\ items'["rach"] = (IF "rach" \in got THEN 1 ELSE 0)
      BY <1>2, <2>1 DEF Kinds
    <3>3. PICK on \in BOOLEAN : on <=> "tx" \in got
      OBVIOUS
    <3>4. running' = on /\ mac' = [mac EXCEPT !.beacon_tx_on_going = on]
      <4>1. Listed(got) = on
        BY <3>3, Zenon DEF Listed
      <4> QED
        BY <2>1, <4>1
    <3>5. mac'.beacon_tx_on_going = on /\ "beacon_tx_on_going" \in DOMAIN mac'
      BY <1>2, <3>4
    <3> QED
      BY <1>1, <2>1, <3>1, <3>2, <3>3, <3>4, <3>5 DEF OnAir
  <2>2. CASE mac' = [mac EXCEPT !.beacon_tx_on_going = FALSE] /\ UNCHANGED <<running, items, displaced>>
    BY <1>1, <1>2, <2>2 DEF OnAir, AirInv
  <2> QED
    BY <1>2, <2>1, <2>2 DEF WorkGoesOn, TxStart
<1> QED
  BY <1>1, <1>3 DEF AirInv

LEMMA WorkStopsAir ==
  ASSUME AirInv, WorkStops
  PROVE  AirInv'
<1>1. /\ pc["work"] = "idle" /\ workQ = <<"stop">> /\ workQ' = <<>>
  BY Taken DEF WorkStops, AirInv, Choosing
<1>2. ~StartAsked' /\ Queues' /\ ~running'
  BY <1>1 DEF WorkStops, StartAsked, Queues
<1>3. Ready' /\ Assumed'
  BY DEF WorkStops, control, threads, AirInv, Ready, Typed, Data, Lists, Labels, Users, Repeats, Assumed
<1>4. Choosing'
  BY <1>2 DEF WorkStops, AirInv, Choosing, control, threads
<1>5. OnAir'
  <2>1. items \in [Kinds -> Nat] /\ items["tx"] <= 1 /\ items["rach"] <= 1
    BY DEF AirInv, OnAir
  <2>2. items' = [k \in Kinds |-> IF items[k] > 0 THEN items[k] - 1 ELSE items[k]]
    BY DEF WorkStops, Unlisted
  <2>3. items' \in [Kinds -> Nat] /\ items'["tx"] = 0 /\ items'["rach"] = 0
    BY <2>1, <2>2 DEF Kinds
  <2>4. running' = FALSE /\ mac'.beacon_tx_on_going = FALSE /\ "beacon_tx_on_going" \in DOMAIN mac'
    BY DEF WorkStops
  <2> QED
    BY <2>3, <2>4 DEF OnAir
<1> QED
  BY <1>3, <1>4, <1>5 DEF AirInv

\* An LMS is reported while PHY control may be at anything.
LEMMA LmsAir ==
  ASSUME AirInv, LmsStarts \/ \E busy \in Busy : LmsReports(busy)
  PROVE  AirInv'
<1>1. CASE LmsStarts
  BY <1>1 DEF LmsStarts, vars, AirInv, Ready, Typed, Data, Lists, Labels, Users, Repeats, Assumed,
     Choosing, OnAir, Queues, StartAsked, StopAsked, Starting, Still
<1>2. ASSUME NEW busy \in Busy, LmsReports(busy)
      PROVE  AirInv'
  <2>1. /\ UNCHANGED <<ctrl, ext, sema, timer, suspended, ctrlQ, rxQ, modem, handler, threads, commands,
                       mac, running, displaced>>
        /\ scan' \in ScanData
        /\ UNCHANGED <<workQ, items>> \/ DirectRssi(busy)
    BY <1>2 DEF LmsReports, Heard, AirInv, Ready, Typed, Data
  <2>2. Typed'
    BY <2>1 DEF AirInv, Ready, Typed, Data, Lists, Labels, Users, threads
  <2>3. Queues' /\ (StartAsked' <=> StartAsked)
        /\ (StopAsked => StopAsked')
        /\ items' \in [Kinds -> Nat] /\ (\A k \in Kinds : items'[k] <= items[k])
        /\ (items' = items \/ StopAsked')
    <3>1. CASE UNCHANGED <<workQ, items>>
      BY <3>1 DEF AirInv, Choosing, OnAir, Queues, StartAsked, StopAsked
    <3>2. CASE DirectRssi(busy)
      BY <3>2, DirectRssiDoes DEF AirInv, Choosing, OnAir
    <3> QED
      BY <2>1, <3>1, <3>2
  <2>4. Ready' /\ Assumed'
    BY <2>1, <2>2 DEF AirInv, Ready, Repeats, Assumed
  <2>5. Choosing'
    BY <2>1, <2>3 DEF AirInv, Choosing, Still, threads
  <2>6. OnAir'
    <3>1. items \in [Kinds -> Nat] /\ "tx" \in Kinds /\ "rach" \in Kinds
      BY DEF AirInv, OnAir, Kinds
    <3>2. items'["tx"] <= items["tx"] /\ items'["rach"] <= items["rach"]
          /\ items'["tx"] \in Nat /\ items'["rach"] \in Nat /\ items["tx"] \in Nat /\ items["rach"] \in Nat
      BY <2>3, <3>1
    <3> QED
      BY <2>1, <2>3, <3>2 DEF AirInv, OnAir, Starting, threads
  <2> QED
    BY <2>4, <2>5, <2>6 DEF AirInv
<1> QED
  BY <1>1, <1>2

\* The scheduler drops an operation of the beacon.
LEMMA DroppedAir ==
  ASSUME AirInv, NEW kind \in Kinds, Dropped(kind)
  PROVE  AirInv'
<1>1. /\ items[kind] > 0 /\ items' = Unlisted({kind})
      /\ UNCHANGED <<mac, workQ, running, vars>>
  BY DEF Dropped
<1>2. (displaced => displaced') /\ (kind = "tx" => displaced')
  <2>1. displaced' = (displaced \/ kind = "tx")
    BY DEF Dropped
  <2> QED
    BY <2>1, Zenon
<1>3. items \in [Kinds -> Nat] /\ "tx" \in Kinds /\ "rach" \in Kinds
  BY DEF AirInv, OnAir, Kinds
<1>4. /\ items' \in [Kinds -> Nat] /\ items'["tx"] <= items["tx"] /\ items'["rach"] <= items["rach"]
      /\ items'["tx"] \in Nat /\ items'["rach"] \in Nat
      /\ kind # "tx" => items'["tx"] = items["tx"]
  BY <1>1, <1>3 DEF Unlisted
<1>5. Ready' /\ Assumed' /\ Choosing'
  BY <1>1 DEF vars, control, threads, AirInv, Ready, Typed, Data, Lists, Labels, Users, Repeats, Assumed,
     Choosing, Queues, StartAsked, StopAsked, Still
<1>6. OnAir'
  BY <1>1, <1>2, <1>3, <1>4 DEF vars, threads, AirInv, OnAir, Starting, StartAsked, StopAsked
<1> QED
  BY <1>5, <1>6 DEF AirInv

\* Every step of the beacon keeps it on the air until it is to stop or its TX is dropped.
LEMMA AirStep ==
  ASSUME AirInv, [BeaconNext]_beaconVars
  PROVE  AirInv'
<1>1. CASE StartBeacon \/ StopBeacon \/ StartClient \/ StopClient \/ ClientCompletes
  BY <1>1, StartBeaconAir, StopBeaconAir, ClientAir
<1>2. CASE Work
  BY <1>2, WorkStartsAir, WorkSuspendsAir, WorkGivesUpAir, WorkGoesOnAir, WorkStopsAir DEF Work
<1>3. CASE LmsStarts \/ (\E busy \in Busy : LmsReports(busy)) \/ \E kind \in Kinds : Dropped(kind)
  BY <1>3, LmsAir, DroppedAir
<1>4. ASSUME \/ ControlShell \/ ControlGoesOn \/ Completes \/ Others
             \/ \E busy \in Busy, i \in DOMAIN modem : ControlMeasures(i, busy)
      PROVE  AirInv'
  <2>1. /\ \/ ControlThread \/ (Shell /\ ShellRuns) \/ ShellGoesOn
           \/ RxThread \/ TimerFires \/ ToolEnds
           \/ \E i \in DOMAIN modem : Measure(i) \/ \E ok \in BOOLEAN : Complete(i, ok)
        /\ UNCHANGED <<running, mac, displaced>>
        /\ UNCHANGED <<workQ, items>> \/ \E busy : DirectRssi(busy)
    BY <1>4 DEF ControlShell, ControlGoesOn, Completes, Others, ControlMeasures, Heard, own
  <2>2. ~StartAsked /\ pc["work"] # "suspend"
    BY <2>1, StillStands
  <2>4. Shell /\ ShellRuns => (pc["work"] = "wait" => ctrl.rssi_scan_ongoing)
    BY DEF ShellRuns, WorkReady, AirInv, Choosing
  <2>3. Typed' /\ Spares
    BY <2>1, <2>4, ControlThreadType, ShellType, ShellGoesOnType, RxThreadType, TimerFiresType, ToolEndsType,
       MeasureType, CompleteType, ControlThreadSpares, ShellSpares, ShellGoesOnSpares, OthersSpare
       DEF AirInv, Ready, Choosing
  <2> QED
    BY <2>1, <2>2, <2>3, SparedAir
<1>5. CASE UNCHANGED beaconVars
  BY <1>5 DEF beaconVars, own, vars, AirInv, Ready, Typed, Data, Lists, Labels, Users, Repeats, Assumed,
     Choosing, OnAir, Queues, StartAsked, StopAsked, Starting, Still
<1> QED
  BY <1>1, <1>2, <1>3, <1>4, <1>5 DEF BeaconNext, Reports

LEMMA AirStarts ==
  ASSUME Assumed, BeaconInit
  PROVE  AirInv
<1>1. Typed
  BY InitType DEF Assumed, BeaconInit
<1>2. ~StartAsked /\ ~StopAsked /\ Queues
  BY DEF BeaconInit, StartAsked, StopAsked, Queues
<1>3. pc["work"] = "idle" /\ ~timer
  BY DEF BeaconInit, Init
<1>4. OnAir
  BY <1>2, <1>3 DEF BeaconInit, OnAir, Kinds, Starting
<1> QED
  BY <1>1, <1>2, <1>3, <1>4 DEF AirInv, Ready, Choosing, Assumed

\* mac_data and beacon_data agree on whether the beacon runs; one that runs is on the air
\* unless it is to stop or the scheduler has dropped its TX, one that does not has nothing
\* listed, whatever scans, tools, client operations and LMS do in between.
THEOREM BeaconStaysOnAir == BeaconSpec => []BeaconOnAir
<1>1. Assumed
  BY PhyCtrlAssumption, BeaconAssumption DEF Assumed
<1>2. BeaconInit => AirInv
  BY <1>1, AirStarts
<1>3. AirInv /\ [BeaconNext]_beaconVars => AirInv'
  BY AirStep
<1>4. AirInv => BeaconOnAir
  <2> SUFFICES ASSUME AirInv PROVE BeaconOnAir
    OBVIOUS
  <2>1. items["tx"] \in Nat
    BY DEF AirInv, OnAir, Kinds
  <2>2. StopAsked => Contains(workQ, "stop")
    BY Queued
  <2> QED
    BY <2>1, <2>2 DEF AirInv, OnAir, BeaconOnAir
<1> QED
  BY <1>2, <1>3, <1>4, PTL DEF BeaconSpec

--------------------------------------------------------------------------------
(* The beacon is heard.                                                    *)

Both == {"rssi", "pdc"}

\* A beacon that starts or runs has the modem and its callbacks, and nothing but it may end
\* the external command while it starts.
Hears ==
  /\ "callbacks" \in DOMAIN mac
  /\ Starting \/ running =>
       Held /\ ext = [running |-> TRUE, callbacks |-> Both] /\ mac.callbacks = Both
  /\ Starting => ~client

HearInv == AirInv /\ Hears

\* No step but a user's start makes a beacon start.
LEMMA StartKept ==
  ASSUME AirInv, UNCHANGED workQ \/ Submit("stop") \/ \E busy : DirectRssi(busy)
  PROVE  StartAsked' <=> StartAsked
<1>1. CASE UNCHANGED workQ
  BY <1>1 DEF StartAsked
<1>2. CASE Submit("stop")
  BY <1>2, SubmitStop DEF AirInv, Choosing
<1>3. ASSUME NEW busy, DirectRssi(busy)
      PROVE  StartAsked' <=> StartAsked
  BY <1>3, DirectRssiDoes DEF AirInv, Choosing, OnAir
<1> QED
  BY <1>1, <1>2, <1>3

LEMMA SparedHears ==
  ASSUME HearInv, Spares, UNCHANGED <<running, mac, client>>, StartAsked' <=> StartAsked
  PROVE  Hears'
<1>1. Starting' <=> Starting
  BY DEF Starting, Spares
<1> QED
  BY <1>1 DEF HearInv, Hears, Spares

LEMMA StartBeaconHears ==
  ASSUME HearInv, ~Mixes, StartBeacon
  PROVE  Hears'
<1>1. /\ Alone /\ Reclaimed /\ ~client /\ UNCHANGED <<control, threads, running, client>>
      /\ pc["shell"] = "idle"
  BY DEF StartBeacon, Command
<1>2. "callbacks" \in DOMAIN mac' /\ mac'.callbacks = Both /\ ~running
  BY DEF StartBeacon, HearInv, Hears, AirInv, OnAir, Both
<1>3. CASE ExtFree
  <2>1. ext' = [running |-> TRUE, callbacks |-> Both]
    BY <1>3 DEF StartBeacon, ExtStart, Both
  <2>2. Held'
    BY <1>1, <2>1 DEF Held, Alone, Reclaimed, control, threads, HearInv, AirInv, Assumed, PhyCtrlAssumption
  <2> QED
    BY <1>1, <1>2, <2>1, <2>2 DEF Hears
<1>4. CASE ~ExtFree
  <2>1. UNCHANGED <<ext, workQ>>
    BY <1>4 DEF StartBeacon
  <2> QED
    BY <1>1, <1>2, <2>1 DEF HearInv, Hears, Starting, StartAsked, Held, control, threads
<1> QED
  BY <1>3, <1>4

\* Where the users' care for a beacon is needed: no operation of the client fails or is
\* stopped while one starts or runs.
LEMMA ClientHears ==
  ASSUME HearInv, ~Mixes, StartClient \/ StopClient \/ ClientCompletes
  PROVE  Hears'
<1>1. UNCHANGED <<mac, workQ, running, control, threads>>
  BY DEF StartClient, StopClient, ClientCompletes
<1>2. Starting' <=> Starting
  BY <1>1 DEF Starting, StartAsked, threads
<1>3. UNCHANGED <<pc, handler>> /\ ctrl'.tools = ctrl.tools
  BY <1>1 DEF control, threads
<1>4. ASSUME ShellRuns, pc["work"] = "idle"
      PROVE  ~Starting
  <2>1. workQ = <<>>
    BY <1>4 DEF ShellRuns, WorkReady
  <2> QED
    BY <1>4, <2>1 DEF Starting, StartAsked
<1>5. CASE StartClient
  <2>1. PICK ok \in BOOLEAN :
          /\ ~Disturbs(~ok)
          /\ IF ~ExtFree THEN UNCHANGED <<ext, client>>
             ELSE IF ok THEN ExtStart(mac.callbacks) /\ client' = TRUE
             ELSE ExtStop /\ UNCHANGED client
    BY <1>5 DEF StartClient
  <2>2. ~Starting /\ (ok \/ ~running)
    BY <1>4, <1>5, <2>1 DEF StartClient, Disturbs
  <2>3. running => ext' = ext \/ ext' = [running |-> TRUE, callbacks |-> mac.callbacks]
    BY <2>1, <2>2 DEF ExtStart
  <2> QED
    BY <1>1, <1>2, <1>3, <2>2, <2>3 DEF HearInv, Hears, Held
<1>6. CASE StopClient
  <2>1. ~Starting /\ ~running
    BY <1>4, <1>6 DEF StopClient, Disturbs
  <2> QED
    BY <1>1, <1>2, <2>1 DEF HearInv, Hears
<1>7. CASE ClientCompletes
  <2>1. ~Starting /\ (running => ext' = ext)
    BY <1>7 DEF ClientCompletes, HearInv, Hears
  <2> QED
    BY <1>1, <1>2, <1>3, <2>1 DEF HearInv, Hears, Held
<1> QED
  BY <1>5, <1>6, <1>7

LEMMA WorkHears ==
  ASSUME HearInv, Work
  PROVE  Hears'
<1> client' = client
  BY DEF Work, WorkStarts, WorkSuspends, WorkGivesUp, WorkGoesOn, WorkStops, own
<1>1. CASE WorkStarts
  <2>1. workQ # <<>> /\ Head(workQ) = "start" /\ UNCHANGED <<mac, running, ext, handler>>
    BY <1>1 DEF WorkStarts, control
  <2>2. StartAsked
    BY <2>1, Taken DEF HearInv, AirInv, Choosing
  <2>3. ctrl'.tools = ctrl.tools /\ pc'["shell"] = pc["shell"]
    <3>1. ~ctrl.rssi_scan_ongoing
      BY <2>2 DEF HearInv, AirInv, Choosing
    <3>2. PICK all \in BOOLEAN : StartScan("work", [suspend |-> TRUE, interval |-> FALSE, all |-> all])
      BY <1>1, <3>1 DEF WorkStarts
    <3>3. Waits("work", "suspend")
      BY <3>2 DEF StartScan
    <3> QED
      BY <3>2, <3>3, WaitsType DEF StartScan, HearInv, AirInv, Ready, Typed, Data
  <2> QED
    BY <2>1, <2>2, <2>3 DEF HearInv, Hears, Starting, Held
<1>2. CASE WorkSuspends
  <2>1. /\ GoesOn("work", "suspend", "wait") /\ UNCHANGED <<own, users, ctrl>>
    BY <1>2 DEF WorkSuspends, ScanSuspends
  <2>2. pc["work"] = "suspend" /\ pc'["shell"] = pc["shell"]
    BY <2>1, GoesOnType DEF HearInv, AirInv, Ready
  <2> QED
    BY <2>1, <2>2 DEF HearInv, Hears, Starting, Held, own, users
<1>3. CASE WorkGivesUp
  <2>1. ~Starting' /\ ~running' /\ mac' = mac
    BY <1>3, WorkIdle DEF WorkGivesUp, own, users, HearInv, AirInv, OnAir, Starting
  <2> QED
    BY <2>1 DEF HearInv, Hears
<1>4. CASE WorkGoesOn
  <2>1. ~Starting' /\ pc["work"] = "wait" /\ UNCHANGED <<control, users>>
    BY <1>4, WorkIdle DEF WorkGoesOn, users, HearInv
  <2>2. "callbacks" \in DOMAIN mac' /\ mac'.callbacks = mac.callbacks
    <3>1. \E going : mac' = [mac EXCEPT !.beacon_tx_on_going = going]
      BY <1>4 DEF WorkGoesOn, TxStart
    <3> QED
      BY <3>1 DEF HearInv, Hears
  <2>3. pc'["shell"] = pc["shell"]
    BY <1>4, PcMoves DEF WorkGoesOn, HearInv, AirInv, Ready, Typed
  <2> QED
    BY <2>1, <2>2, <2>3 DEF HearInv, Hears, Starting, Held, control, users
<1>5. CASE WorkStops
  <2>1. ~Starting'
    <3>1. pc["work"] = "idle" /\ workQ' = <<>> /\ UNCHANGED threads
      BY <1>5, Taken DEF WorkStops, HearInv, AirInv, Choosing
    <3> QED
      BY <3>1 DEF Starting, StartAsked, threads
  <2> QED
    BY <1>5, <2>1 DEF WorkStops, Hears
<1> QED
  BY <1>1, <1>2, <1>3, <1>4, <1>5 DEF Work

\* Every step leaves the beacon what it hears with.
LEMMA HearStep ==
  ASSUME HearInv, ~Mixes, [BeaconNext]_beaconVars
  PROVE  HearInv'
<1>1. AirInv'
  BY AirStep DEF HearInv
<1>2. CASE StartBeacon \/ StartClient \/ StopClient \/ ClientCompletes
  BY <1>1, <1>2, StartBeaconHears, ClientHears DEF HearInv
<1>3. CASE Work
  BY <1>1, <1>3, WorkHears DEF HearInv
<1>4. ASSUME \/ StopBeacon \/ LmsStarts \/ (\E busy \in Busy : LmsReports(busy))
             \/ (\E kind \in Kinds : Dropped(kind)) \/ UNCHANGED beaconVars
      PROVE  HearInv'
  <2>1. /\ UNCHANGED <<mac, running, client, ext, handler, ctrl, pc>>
        /\ UNCHANGED workQ \/ Submit("stop") \/ \E busy : DirectRssi(busy)
    BY <1>4 DEF StopBeacon, LmsStarts, LmsReports, Dropped, Heard, beaconVars, own, vars, control, threads
  <2>2. StartAsked' <=> StartAsked
    BY <2>1, StartKept DEF HearInv
  <2> QED
    BY <1>1, <2>1, <2>2 DEF HearInv, Hears, Starting, Held
<1>5. ASSUME \/ ControlShell \/ ControlGoesOn \/ Completes \/ Others
             \/ \E busy \in Busy, i \in DOMAIN modem : ControlMeasures(i, busy)
      PROVE  HearInv'
  <2>1. /\ \/ ControlThread \/ (Shell /\ ShellRuns) \/ ShellGoesOn
           \/ RxThread \/ TimerFires \/ ToolEnds
           \/ \E i \in DOMAIN modem : Measure(i) \/ \E ok \in BOOLEAN : Complete(i, ok)
        /\ UNCHANGED <<running, mac, client>>
        /\ UNCHANGED workQ \/ \E busy : DirectRssi(busy)
    BY <1>5 DEF ControlShell, ControlGoesOn, Completes, Others, ControlMeasures, Heard, own
  <2>4. Shell /\ ShellRuns => (pc["work"] = "wait" => ctrl.rssi_scan_ongoing)
    BY DEF ShellRuns, WorkReady, HearInv, AirInv, Choosing
  <2>2. Spares
    BY <2>1, <2>4, ControlThreadSpares, ShellSpares, ShellGoesOnSpares, OthersSpare
       DEF HearInv, AirInv, Choosing
  <2>3. StartAsked' <=> StartAsked
    BY <2>1, StartKept DEF HearInv
  <2> QED
    BY <1>1, <2>1, <2>2, <2>3, SparedHears DEF HearInv
<1> QED
  BY <1>2, <1>3, <1>4, <1>5 DEF BeaconNext, Reports

\* A beacon that runs has PHY control's handler and its own callbacks in the external
\* command, whatever scans, tools and client operations came before, as long as users let
\* a beacon start and start or stop no operation that fails while it runs (~Mixes).
THEOREM BeaconIsHeard == ASSUME ~Mixes PROVE BeaconSpec => []BeaconHeard
<1>1. BeaconInit => HearInv
  <2> SUFFICES ASSUME BeaconInit PROVE HearInv
    OBVIOUS
  <2>1. AirInv
    BY AirStarts, PhyCtrlAssumption, BeaconAssumption DEF Assumed
  <2>2. ~Starting /\ ~running /\ "callbacks" \in DOMAIN mac
    BY DEF BeaconInit, Init, Starting, StartAsked
  <2> QED
    BY <2>1, <2>2 DEF HearInv, Hears
<1>2. HearInv /\ [BeaconNext]_beaconVars => HearInv'
  BY HearStep
<1>3. HearInv => BeaconHeard
  BY DEF HearInv, Hears, Held, BeaconHeard, Both
<1> QED
  BY <1>1, <1>2, <1>3, PTL DEF BeaconSpec

--------------------------------------------------------------------------------
(* PHY control alone: the work queue has nothing to do.                    *)

\* The facts about a step of PHY control that the others rest on.
CtrlReady == Ready /\ pc["work"] = "idle" /\ ~ext.running

LEMMA CtrlStep ==
  ASSUME CtrlReady, [Next]_vars
  PROVE  CtrlReady'
<1>1. CASE Next
  <2>1. Typed'
    BY <1>1, ControlThreadType, ShellType, ShellGoesOnType, RxThreadType, TimerFiresType, ToolEndsType,
       MeasureType, CompleteType DEF Next, Modem, CtrlReady, Ready
  <2>2. Spares
    BY <1>1, ControlThreadSpares, ShellSpares, ShellGoesOnSpares, OthersSpare DEF Next, Modem, CtrlReady
  <2>3. ext' = ext
    BY <1>1 DEF Next, ControlThread, CtrlReclaims, Shell, StartTool, ShellGoesOn, ToolStarts, RxThread,
       TimerFires, ToolEnds, Modem, Measure, Complete, users
  <2> QED
    BY <2>1, <2>2, <2>3 DEF CtrlReady, Ready, Spares
<1>2. CASE UNCHANGED vars
  BY <1>2 DEF vars, CtrlReady, Ready, Typed, Data, Lists, Labels, Users, Repeats
<1> QED
  BY <1>1, <1>2

LEMMA CtrlStarts ==
  ASSUME PhyCtrlAssumption, Init
  PROVE  CtrlReady
BY InitType DEF CtrlReady, Ready, Init, NoCallbacks

\* The commands, their parameters and the queues keep their types.
THEOREM CtrlTyped == Spec => []TypeOK
<1>1. Init => CtrlReady
  BY CtrlStarts, PhyCtrlAssumption
<1>2. CtrlReady /\ [Next]_vars => CtrlReady'
  BY CtrlStep
<1>3. CtrlReady => TypeOK
  <2> SUFFICES ASSUME CtrlReady PROVE TypeOK
    OBVIOUS
  <2> USE DEF RadioOps
  <2>1. Data /\ Lists /\ Users
    BY DEF CtrlReady, Ready, Typed
  <2> QED
    BY <2>1 DEF Data, Lists, Users, TypeOK
<1> QED
  BY <1>1, <1>2, <1>3, PTL DEF Spec

--------------------------------------------------------------------------------
(* The modem in the hands of a tool.                                       *)

ToolAbout == pc["shell"] \in Tools \/ ctrl.tools # {} \/ handler # "ctrl" \/ pc["ctrl"] = "tool"

\* While a tool starts, runs or is reclaimed, nothing else is under way, and the control
\* thread has nothing to take but its end. One that starts while the one before is
\* reclaimed waits behind the control thread.
Lent ==
  /\ rxQ = <<>> /\ modem = <<>> /\ ~timer
  /\ ~ctrl.rssi_scan_ongoing /\ ~ctrl.rx_cmd_on_going /\ ~Repeats
  /\ pc["shell"] \notin {"suspend", "rx"} /\ pc["ctrl"] \notin {"suspend", "rx"}
  /\ pc["shell"] \in Tools => /\ ctrl.tools = {} /\ ctrlQ = <<>>
                              /\ IF pc["ctrl"] = "tool" THEN "shell" \in behind ELSE handler = "ctrl"
  /\ pc["ctrl"] = "tool" => ctrl.tools = {} /\ ctrlQ = <<>>
  /\ ctrl.tools # {} =>
       \E tool \in Tools : /\ ctrl.tools = {tool} /\ handler \in {"ctrl", tool}
                           /\ ctrlQ = <<Done(tool)>> \/ (ctrlQ = <<>> /\ handler = tool)
  /\ handler # "ctrl" => ctrl.tools # {} \/ pc["ctrl"] = "tool"

NoneEnded == ToSet(ctrlQ) \cap ToolsEnded = {}
Lending == IF ToolAbout THEN Lent ELSE NoneEnded

\* Steps that have nothing to do with tools.
NoTool ==
  /\ ctrl'.tools = ctrl.tools /\ handler' = handler
  /\ pc'["shell"] \in {pc["shell"], "idle", "suspend", "rx"}
  /\ pc'["ctrl"] \in {pc["ctrl"], "idle", "suspend", "rx"}
  /\ NoneEnded => NoneEnded'

LEMMA NoToolLends ==
  ASSUME CtrlReady, Lending, ~ToolAbout, NoTool
  PROVE  Lending'
<1>1. {"idle", "suspend", "rx"} \cap Tools = {}
  BY DEF CtrlReady, Ready, PhyCtrlAssumption
<1> QED
  BY <1>1 DEF Lending, ToolAbout, NoTool

\* What ends in the modem is no tool.
LEMMA EndedNone ==
  ASSUME NEW ops \in Seq(RadioOps), NEW ok \in BOOLEAN
  PROVE  ToSet(Ended(ops, ok)) \cap ToolsEnded = {}
<1>1. Ended(ops, ok) = <<>> \/ Ended(ops, ok) = [i \in DOMAIN ops |-> Completed(ops[i], ok)]
  BY DEF Ended
<1>3. \A i \in DOMAIN ops : Completed(ops[i], ok) \notin ToolsEnded
  BY DEF ToolsEnded, Completed
<1>4. CASE Ended(ops, ok) = [i \in DOMAIN ops |-> Completed(ops[i], ok)]
  BY <1>3, <1>4 DEF ToSet
<1> QED
  BY <1>1, <1>4, HoldsEmpty

LEMMA CancelAllNone ==
  ASSUME Lists, NEW queue \in Seq(Messages), ToSet(queue) \subseteq ToSet(ctrlQ), CancelAll(queue)
  PROVE  NoneEnded => NoneEnded'
<1>1. modem \in Seq(RadioOps) /\ ctrlQ' = queue \o Ended(modem, FALSE)
  BY DEF CancelAll, Lists
<1>2. Ended(modem, FALSE) \in Seq(Messages)
  BY <1>1, EndedType
<1>4. ToSet(Ended(modem, FALSE)) \cap ToolsEnded = {}
  BY <1>1, EndedNone
<1>3. ToSet(queue \o Ended(modem, FALSE)) = ToSet(queue) \cup ToSet(Ended(modem, FALSE))
  BY <1>2, HoldsConcat
<1> QED
  BY <1>1, <1>3, <1>4 DEF NoneEnded

\* What a message that is taken leaves, and what one adds.
LEMMA QueueNone ==
  ASSUME Lists
  PROVE  /\ ctrlQ # <<>> => /\ Tail(ctrlQ) \in Seq(Messages) /\ Head(ctrlQ) \in ToSet(ctrlQ)
                            /\ ToSet(Tail(ctrlQ)) \subseteq ToSet(ctrlQ)
                            /\ (ctrlQ' = Tail(ctrlQ) => (NoneEnded => NoneEnded'))
         /\ ctrlQ' \in {ctrlQ, Append(ctrlQ, Msg("run")), Append(ctrlQ, Msg("rssi_on_rx"))} =>
              (NoneEnded => NoneEnded')
<1>1. ctrlQ # <<>> => Tail(ctrlQ) \in Seq(Messages) /\ ToSet(ctrlQ) = {Head(ctrlQ)} \cup ToSet(Tail(ctrlQ))
  BY HoldsTail DEF Lists
<1>2. ASSUME NEW m \in {Msg("run"), Msg("rssi_on_rx")}
      PROVE  ToSet(Append(ctrlQ, m)) = ToSet(ctrlQ) \cup {m} /\ m \notin ToolsEnded
  <2>1. m \in Messages
    <3>1. Msg("run") \in ScanSteps
      BY DEF Msg, ScanSteps
    <3> QED
      BY <3>1 DEF Messages
  <2>2. m.id # "done"
    BY DEF Msg
  <2>3. m \notin ToolsEnded
    BY <2>2 DEF ToolsEnded
  <2> QED
    BY <2>1, <2>3, HoldsAppend DEF Lists
<1> QED
  BY <1>1, <1>2 DEF NoneEnded

LEMMA ScanNoTool ==
  ASSUME CtrlReady,
         \/ \E params \in Scans : StartScan("shell", params)
         \/ ScanSuspends("shell", "idle")
         \/ StopScan /\ UNCHANGED threads,
         handler' = handler
  PROVE  NoTool
<1> ctrl \in CtrlData /\ Lists /\ Typed
  BY DEF CtrlReady, Ready, Typed, Data
<1>1. ASSUME NEW params \in Scans, StartScan("shell", params)
      PROVE  NoTool
  <2>1. ctrl'.tools = ctrl.tools
    BY <1>1 DEF StartScan
  <2>2. CASE CancelAll(ctrlQ) /\ Waits("shell", "suspend")
    <3>1. NoneEnded => NoneEnded'
      BY <2>2, CancelAllNone DEF Lists
    <3> QED
      BY <2>1, <2>2, <3>1, WaitsType DEF NoTool
  <2>3. CASE RunScan /\ UNCHANGED threads
    <3>1. NoneEnded => NoneEnded'
      BY <2>3, QueueNone DEF RunScan
    <3> QED
      BY <2>1, <2>3, <3>1 DEF NoTool, threads
  <2> QED
    BY <1>1, <2>2, <2>3 DEF StartScan
<1>2. CASE ScanSuspends("shell", "idle")
  <2>1. NoneEnded => NoneEnded'
    BY <1>2, QueueNone DEF ScanSuspends, RunScan
  <2> QED
    BY <1>2, <2>1, GoesOnType DEF ScanSuspends, NoTool
<1>3. CASE StopScan /\ UNCHANGED threads
  BY <1>3 DEF StopScan, threads, NoTool, NoneEnded
<1> QED
  BY <1>1, <1>2, <1>3

\* What the first channel and the restart of a reception do to ctrl_data.
LEMMA FirstChannelTools ==
  ASSUME CtrlReady, NEW label, FirstChannel(label)
  PROVE  ctrl'.tools = ctrl.tools
BY DEF FirstChannel, CtrlReady, Ready, Typed, Data

LEMMA RestartTools ==
  ASSUME CtrlReady, Restart \/ RxEnds
  PROVE  ctrl'.tools = ctrl.tools
<1> ctrl \in CtrlData
  BY DEF CtrlReady, Ready, Typed, Data
<1>1. CASE RxEnds
  BY <1>1 DEF RxEnds
<1>2. CASE Receive(ctrl.rx_cmd_params, ctrl.rx_channel + 1, TRUE)
  BY <1>2 DEF Receive
<1> QED
  BY <1>1, <1>2 DEF Restart

\* The control thread, but for what is about tools.
LEMMA TakeNoTool ==
  ASSUME CtrlReady, ctrlQ # <<>>, TakeRun \/ TakeCompleted \/ TakeRssiOnRx, UNCHANGED users
  PROVE  NoTool
<1> ctrl \in CtrlData /\ Lists /\ Typed /\ handler' = handler
  BY DEF CtrlReady, Ready, Typed, Data, users
<1>1. \/ ctrlQ' = Tail(ctrlQ) /\ UNCHANGED threads
      \/ \E label \in {"suspend", "rx"} : CancelAll(Tail(ctrlQ)) /\ Waits("ctrl", label)
  BY DEF TakeRun, TakeCompleted, RxCompleted, TakeRssiOnRx
<1>2. ctrl'.tools = ctrl.tools
  BY FirstChannelTools, RestartTools
     DEF TakeRun, TakeCompleted, RxCompleted, Finished, ScanDone, ScanCompleted, TakeRssiOnRx
<1>3. NoneEnded => NoneEnded'
  BY <1>1, QueueNone, CancelAllNone
<1>4. /\ pc'["shell"] \in {pc["shell"], "idle", "suspend", "rx"}
      /\ pc'["ctrl"] \in {pc["ctrl"], "idle", "suspend", "rx"}
  BY <1>1, WaitsType DEF threads
<1> QED
  BY <1>2, <1>3, <1>4 DEF NoTool

LEMMA CtrlGoesNoTool ==
  ASSUME CtrlReady, CtrlSuspends \/ CtrlRestarts, UNCHANGED users
  PROVE  NoTool
<1>1. ctrl'.tools = ctrl.tools /\ handler' = handler /\ NoneEnded' = NoneEnded
  BY FirstChannelTools, RestartTools DEF CtrlSuspends, CtrlRestarts, users, NoneEnded
<1>2. \E label : GoesOn("ctrl", label, "idle")
  BY DEF CtrlSuspends, CtrlRestarts
<1>3. /\ pc'["shell"] \in {pc["shell"], "idle", "suspend", "rx"}
      /\ pc'["ctrl"] \in {pc["ctrl"], "idle", "suspend", "rx"}
  BY <1>2, GoesOnType DEF CtrlReady, Ready
<1> QED
  BY <1>1, <1>3 DEF NoTool

LEMMA RxNoTool ==
  ASSUME CtrlReady,
         (\E params \in Receptions : StartRx(params)) \/ RxSuspends \/ StopRx,
         handler' = handler
  PROVE  NoTool
<1> ctrl \in CtrlData /\ Lists /\ Typed
  BY DEF CtrlReady, Ready, Typed, Data
<1>1. ASSUME NEW params \in Receptions, StartRx(params)
      PROVE  NoTool
  <2>1. ctrl'.tools = ctrl.tools
    BY <1>1 DEF StartRx, Receive
  <2>2. CASE CancelAll(ctrlQ) /\ Waits("shell", "rx")
    <3>1. NoneEnded => NoneEnded'
      BY <2>2, CancelAllNone DEF Lists
    <3> QED
      BY <2>1, <2>2, <3>1, WaitsType DEF NoTool
  <2>3. CASE UNCHANGED <<ctrlQ, threads>>
    BY <2>1, <2>3 DEF NoTool, threads, NoneEnded
  <2> QED
    BY <1>1, <2>2, <2>3 DEF StartRx
<1>2. CASE RxSuspends
  <2>1. ctrl'.tools = ctrl.tools /\ ctrlQ' = ctrlQ
    BY <1>2 DEF RxSuspends, Receive
  <2> QED
    BY <1>2, <2>1, GoesOnType DEF RxSuspends, NoTool, NoneEnded
<1>3. CASE StopRx
  <2>1. ctrl'.tools = ctrl.tools /\ UNCHANGED threads
    BY <1>3 DEF StopRx
  <2>2. ASSUME NEW i \in DOMAIN modem, ctrlQ' = ctrlQ \o Ended(<<modem[i]>>, FALSE)
        PROVE  NoneEnded => NoneEnded'
    <3>1. <<modem[i]>> \in Seq(RadioOps)
      BY LenProperties, ElementOfSeq DEF Lists
    <3>2. Ended(<<modem[i]>>, FALSE) \in Seq(Messages)
      BY <3>1, EndedType
    <3>3. ToSet(Ended(<<modem[i]>>, FALSE)) \cap ToolsEnded = {}
      BY <3>1, EndedNone
    <3>4. ToSet(ctrlQ') = ToSet(ctrlQ) \cup ToSet(Ended(<<modem[i]>>, FALSE))
      BY <2>2, <3>2, HoldsConcat DEF Lists
    <3> QED
      BY <3>3, <3>4 DEF NoneEnded
  <2>3. NoneEnded => NoneEnded'
    BY <1>3, <2>2 DEF StopRx, NoneEnded
  <2> QED
    BY <2>1, <2>3 DEF NoTool, threads
<1> QED
  BY <1>1, <1>2, <1>3

\* The RX thread, the timer and the modem.
LEMMA RadioNoTool ==
  ASSUME CtrlReady,
         RxThread \/ TimerFires \/ \E i \in DOMAIN modem : Measure(i) \/ \E ok \in BOOLEAN : Complete(i, ok)
  PROVE  NoTool
<1> ctrl \in CtrlData /\ Lists
  BY DEF CtrlReady, Ready, Typed, Data
<1>1. UNCHANGED <<threads, users>>
  BY DEF RxThread, TimerFires, Measure, Complete
<1>2. ctrl'.tools = ctrl.tools
  BY DEF RxThread, ScanCompleted, TimerFires, Measure, Complete
<1>3. CASE RxThread \/ TimerFires \/ \E i \in DOMAIN modem : Measure(i)
  <2>1. ctrlQ' \in {ctrlQ, Append(ctrlQ, Msg("run")), Append(ctrlQ, Msg("rssi_on_rx"))}
    BY <1>3 DEF RxThread, TimerFires, RunScan, Measure
  <2> QED
    BY <1>1, <1>2, <2>1, QueueNone DEF NoTool, threads, users
<1>4. ASSUME NEW i \in DOMAIN modem, NEW ok \in BOOLEAN, Complete(i, ok)
      PROVE  NoTool
  <2>1. <<modem[i]>> \in Seq(RadioOps)
    BY LenProperties, ElementOfSeq DEF Lists
  <2>2. Ended(<<modem[i]>>, ok) \in Seq(Messages)
    BY <2>1, EndedType
  <2>3. ToSet(Ended(<<modem[i]>>, ok)) \cap ToolsEnded = {}
    BY <2>1, EndedNone
  <2>4. ToSet(ctrlQ') = ToSet(ctrlQ) \cup ToSet(Ended(<<modem[i]>>, ok))
    BY <1>4, <2>2, HoldsConcat DEF Complete, Lists
  <2> QED
    BY <1>1, <1>2, <2>3, <2>4 DEF NoTool, NoneEnded, threads, users
<1> QED
  BY <1>3, <1>4

\* What the control thread may take while a tool is about.
LEMMA ToolQueue ==
  ASSUME CtrlReady, Lending, ToolAbout
  PROVE  /\ ctrl.tools # {} =>
              \E tool \in Tools : /\ ctrl.tools = {tool} /\ handler \in {"ctrl", tool}
                                  /\ ctrlQ = <<Done(tool)>> \/ (ctrlQ = <<>> /\ handler = tool)
         /\ ctrl.tools = {} => ctrlQ = <<>>
BY DEF Lending, Lent, ToolAbout

LEMMA StartToolLends ==
  ASSUME CtrlReady, Lending, Command, Alone, NEW tool \in Tools, StartTool(tool)
  PROVE  Lending'
<1>1. /\ ~ctrl.rssi_scan_ongoing /\ ctrl.tools = {} /\ ~Repeats /\ ~ctrl.rx_cmd_on_going
      /\ rxQ = <<>> /\ modem = <<>> /\ ctrlQ = <<>> /\ pc["ctrl"] \in {"idle", "tool"} /\ ~timer
  BY DEF StartTool, OpOngoing, Alone, Repeats, CtrlReady, Ready
<1>2. CancelAll(ctrlQ) /\ Waits("shell", tool) /\ UNCHANGED <<ctrl, handler, timer, rxQ>>
  BY DEF StartTool
<1>3. ctrlQ' = <<>> /\ modem' = <<>>
  <2>1. Ended(<<>>, FALSE) = <<>>
    BY DEF Ended
  <2>2. ctrlQ' = ctrlQ \o Ended(modem, FALSE) /\ modem' = <<>>
    BY <1>2 DEF CancelAll
  <2>3. <<>> \o <<>> = <<>>
    OBVIOUS
  <2> QED
    BY <1>1, <2>1, <2>2, <2>3
<1>4. pc'["shell"] = tool /\ pc'["ctrl"] = pc["ctrl"]
  BY <1>2, WaitsType DEF CtrlReady, Ready
<1>5. pc["ctrl"] = "tool" => "shell" \in behind'
  BY <1>2 DEF Waits
<1>6. handler # "ctrl" => pc["ctrl"] = "tool"
  BY <1>1 DEF Lending, Lent, ToolAbout
<1>7. {"idle", "suspend", "rx", "tool"} \cap Tools = {}
  BY DEF CtrlReady, Ready, PhyCtrlAssumption
<1>8. Lent'
  BY <1>1, <1>2, <1>3, <1>4, <1>5, <1>6, <1>7 DEF Lent, Repeats
<1> QED
  BY <1>4, <1>8 DEF Lending, ToolAbout

LEMMA ToolStartsLends ==
  ASSUME CtrlReady, Lending, ToolStarts
  PROVE  Lending'
<1>1. PICK tool \in Tools : tool = pc["shell"]
  BY DEF ToolStarts
<1>2. Lent /\ "shell" \notin behind
  BY <1>1 DEF ToolStarts, GoesOn, Lending, ToolAbout
<1>3. pc["ctrl"] = "idle" /\ handler = "ctrl" /\ ctrlQ = <<>> /\ ctrl.tools = {}
  BY <1>1, <1>2 DEF Lent, CtrlReady, Ready, Typed, Labels
<1>4. pc'["shell"] = "idle" /\ pc'["ctrl"] = "idle"
  BY <1>3, GoesOnType DEF ToolStarts, CtrlReady, Ready
<1>5. ctrl'.tools = {tool}
  BY <1>1, <1>3 DEF ToolStarts, CtrlReady, Ready, Typed, Data
<1>6. /\ ctrl'.rssi_scan_ongoing = ctrl.rssi_scan_ongoing /\ ctrl'.rx_cmd_on_going = ctrl.rx_cmd_on_going
      /\ Repeats' = Repeats
  BY DEF ToolStarts, CtrlReady, Ready, Typed, Data, Repeats
<1>7. handler' \in {"ctrl", tool} /\ (ctrlQ' = <<Done(tool)>> \/ (ctrlQ' = <<>> /\ handler' = tool))
  <2>1. Append(<<>>, Done(tool)) = <<Done(tool)>>
    OBVIOUS
  <2> QED
    BY <1>1, <1>3, <2>1 DEF ToolStarts
<1>8. "idle" \notin Tools
  BY DEF CtrlReady, Ready, PhyCtrlAssumption
<1>9. Lent'
  BY <1>2, <1>4, <1>5, <1>6, <1>7, <1>8 DEF Lent, ToolStarts
<1> QED
  BY <1>5, <1>9 DEF Lending, ToolAbout

LEMMA ToolEndsLends ==
  ASSUME CtrlReady, Lending, ToolEnds
  PROVE  Lending'
<1>1. /\ handler # "ctrl" /\ pc["ctrl"] # "tool" /\ ~Contains(ctrlQ, Done(handler))
      /\ ctrlQ' = Append(ctrlQ, Done(handler))
      /\ UNCHANGED <<ctrl, handler, timer, rxQ, modem, pc>>
  BY DEF ToolEnds, threads
<1>2. Lent /\ ctrl.tools # {}
  BY <1>1 DEF Lending, ToolAbout, Lent
<1>3. PICK tool \in Tools : /\ ctrl.tools = {tool} /\ handler \in {"ctrl", tool}
                            /\ ctrlQ = <<Done(tool)>> \/ (ctrlQ = <<>> /\ handler = tool)
  BY <1>2 DEF Lent
<1>4. handler = tool
  BY <1>1, <1>3
<1>5. Contains(<<Done(tool)>>, Done(tool))
  <2>1. 1 \in DOMAIN <<Done(tool)>> /\ <<Done(tool)>>[1] = Done(tool)
    OBVIOUS
  <2> QED
    BY <2>1 DEF Contains
<1>6. ctrlQ = <<>>
  BY <1>1, <1>3, <1>4, <1>5
<1>7. ctrlQ' = <<Done(tool)>>
  <2>1. Append(<<>>, Done(tool)) = <<Done(tool)>>
    OBVIOUS
  <2> QED
    BY <1>1, <1>4, <1>6, <2>1
<1>8. pc["shell"] \notin Tools
  BY <1>2 DEF Lent
<1>9. Lent'
  BY <1>1, <1>2, <1>3, <1>7, <1>8 DEF Lent, Repeats
<1> QED
  BY <1>1, <1>2, <1>9 DEF Lending, ToolAbout

LEMMA TakeDoneLends ==
  ASSUME CtrlReady, Lending, pc["ctrl"] = "idle", ctrlQ # <<>>, TakeDone, UNCHANGED users
  PROVE  Lending'
<1>1. ToolAbout
  <2>1. Head(ctrlQ) \in Messages /\ Head(ctrlQ).id = "done" /\ Head(ctrlQ) \in ToSet(ctrlQ)
    BY QueueTypes, QueueNone DEF TakeDone, CtrlReady, Ready, Typed
  <2>2. /\ \A m \in ScanSteps \cup RxEnded : m.id # "done"
        /\ Msg("rssi_on_rx").id # "done"
    BY DEF ScanSteps, RxEnded, Msg
  <2>3. Head(ctrlQ) \in ToolsEnded
    BY <2>1, <2>2, Zenon DEF Messages
  <2> QED
    BY <2>1, <2>3 DEF Lending, NoneEnded
<1>2. Lent /\ ctrl.tools # {}
  BY <1>1, ToolQueue DEF Lending
<1>3. PICK tool \in Tools : ctrl.tools = {tool} /\ ctrlQ = <<Done(tool)>>
  BY <1>2 DEF Lent
<1>4. Head(<<Done(tool)>>).op = tool /\ Tail(<<Done(tool)>>) = <<>>
  BY DEF Done
<1>5. ctrl'.tools = {} /\ CancelAll(<<>>) /\ Waits("ctrl", "tool")
  <2>1. ctrl'.tools = ctrl.tools \ {Head(ctrlQ).op} /\ CancelAll(Tail(ctrlQ)) /\ Waits("ctrl", "tool")
    BY DEF TakeDone, CtrlReady, Ready, Typed, Data
  <2> QED
    BY <1>3, <1>4, <2>1
<1>6. modem' = <<>> /\ ctrlQ' = <<>>
  <2>1. Ended(<<>>, FALSE) = <<>>
    BY DEF Ended
  <2>2. ctrlQ' = <<>> \o Ended(modem, FALSE) /\ modem' = <<>>
    BY <1>5 DEF CancelAll
  <2>3. <<>> \o <<>> = <<>>
    OBVIOUS
  <2> QED
    BY <1>2, <2>1, <2>2, <2>3 DEF Lent
<1>7. pc'["ctrl"] = "tool" /\ pc'["shell"] = pc["shell"]
  BY <1>5, WaitsType DEF CtrlReady, Ready
<1>8. /\ ctrl'.rssi_scan_ongoing = ctrl.rssi_scan_ongoing /\ ctrl'.rx_cmd_on_going = ctrl.rx_cmd_on_going
      /\ Repeats' = Repeats /\ UNCHANGED <<timer, rxQ, handler>>
  BY DEF TakeDone, CtrlReady, Ready, Typed, Data, Repeats, users
<1>9. pc["shell"] \notin Tools
  BY <1>2 DEF Lent
<1>10. Lent'
  BY <1>2, <1>5, <1>6, <1>7, <1>8, <1>9 DEF Lent
<1> QED
  BY <1>7, <1>10 DEF Lending, ToolAbout

LEMMA CtrlReclaimsLends ==
  ASSUME CtrlReady, Lending, CtrlReclaims
  PROVE  Lending'
<1>1. pc["ctrl"] = "tool" /\ handler' = "ctrl" /\ UNCHANGED <<ctrl, timer, ctrlQ, rxQ, modem>>
  BY DEF CtrlReclaims, GoesOn
<1>2. Lent
  BY <1>1 DEF Lending, ToolAbout
<1>3. pc'["ctrl"] = "idle" /\ pc'["shell"] = pc["shell"]
  BY GoesOnType DEF CtrlReclaims, CtrlReady, Ready
<1>4. ctrl.tools = {} /\ ctrlQ = <<>>
  BY <1>1, <1>2 DEF Lent
<1>5. Lent' /\ NoneEnded'
  BY <1>1, <1>2, <1>3, <1>4, HoldsEmpty DEF Lent, NoneEnded, Repeats
<1> QED
  BY <1>5 DEF Lending

\* While a tool is about, users may at most stop a scan that does not repeat.
LEMMA StopScanLends ==
  ASSUME CtrlReady, Lending, StopScan, UNCHANGED <<threads, handler>>
  PROVE  Lending'
<1>1. /\ ctrl'.tools = ctrl.tools /\ ~ctrl'.rssi_scan_ongoing /\ ctrl'.rx_cmd_on_going = ctrl.rx_cmd_on_going
      /\ ~Repeats' /\ ~timer' /\ UNCHANGED <<ctrlQ, rxQ, modem>>
  BY DEF StopScan, CtrlReady, Ready, Typed, Data, Repeats
<1>2. ToolAbout' <=> ToolAbout
  BY <1>1 DEF ToolAbout, threads
<1>3. Lent => Lent'
  BY <1>1 DEF Lent, threads
<1> QED
  BY <1>1, <1>2, <1>3 DEF Lending, NoneEnded

LEMMA LendingStep ==
  ASSUME CtrlReady, Lending, [Next]_vars
  PROVE  Lending'
<1>1. CASE ToolStarts \/ ToolEnds \/ CtrlReclaims
  BY <1>1, ToolStartsLends, ToolEndsLends, CtrlReclaimsLends
<1>2. CASE pc["ctrl"] = "idle" /\ ctrlQ # <<>> /\ TakeDone /\ UNCHANGED users
  BY <1>2, TakeDoneLends
<1>3. CASE UNCHANGED vars
  BY <1>3 DEF vars, Lending, ToolAbout, Lent, NoneEnded, Repeats
<1>4. CASE Shell
  <2>1. CASE Alone /\ \E tool \in Tools : StartTool(tool)
    BY <1>4, <2>1, StartToolLends DEF Shell
  <2>2. CASE StopScan /\ UNCHANGED <<threads, ext, handler>>
    BY <2>2, StopScanLends
  <2>3. CASE /\ Alone /\ Reclaimed /\ UNCHANGED <<ext, handler>>
             /\ \/ \E params \in Scans : StartScan("shell", params)
                \/ \E params \in Receptions : StartRx(params)
    <3>1. ~ToolAbout
      BY <1>4, <2>3 DEF Shell, Command, Alone, Reclaimed, ToolAbout, CtrlReady, Ready, PhyCtrlAssumption
    <3> QED
      BY <2>3, <3>1, ScanNoTool, RxNoTool, NoToolLends
  <2>4. CASE ctrl.rx_cmd_on_going /\ StopRx /\ UNCHANGED <<ext, handler>>
    <3>1. ~ToolAbout
      BY <2>4 DEF Lending, Lent
    <3> QED
      BY <2>4, <3>1, RxNoTool, NoToolLends
  <2> QED
    BY <1>4, <2>1, <2>2, <2>3, <2>4 DEF Shell
<1>5. ASSUME \/ /\ pc["ctrl"] = "idle" /\ ctrlQ # <<>>
                /\ TakeRun \/ TakeCompleted \/ TakeRssiOnRx
                /\ UNCHANGED users
             \/ (CtrlSuspends \/ CtrlRestarts) /\ UNCHANGED users
             \/ (ScanSuspends("shell", "idle") \/ RxSuspends) /\ UNCHANGED users
             \/ RxThread \/ TimerFires
             \/ \E i \in DOMAIN modem : Measure(i) \/ \E ok \in BOOLEAN : Complete(i, ok)
      PROVE  Lending'
  <2>1. ~ToolAbout
    <3>1. ASSUME Lent, ToolAbout, ctrlQ # <<>>
          PROVE  Head(ctrlQ).id = "done"
      <4>1. PICK tool : ctrlQ = <<Done(tool)>>
        BY <3>1, ToolQueue DEF Lending
      <4>2. Head(<<Done(tool)>>).id = "done"
        BY DEF Done
      <4> QED
        BY <4>1, <4>2
    <3>2. Lent => rxQ = <<>> /\ DOMAIN modem = {} /\ ~timer
      BY DEF Lent
    <3>3. Lent => pc["shell"] \notin {"suspend", "rx"} /\ pc["ctrl"] \notin {"suspend", "rx"}
      BY DEF Lent
    <3> QED
      BY <1>5, <3>1, <3>2, <3>3 DEF Lending, TakeRun, TakeCompleted, TakeRssiOnRx, CtrlSuspends, CtrlRestarts,
         ScanSuspends, RxSuspends, GoesOn, RxThread, TimerFires
  <2>2. NoTool
    BY <1>5, TakeNoTool, CtrlGoesNoTool, ScanNoTool, RxNoTool, RadioNoTool DEF users
  <2> QED
    BY <2>1, <2>2, NoToolLends
<1> QED
  BY <1>1, <1>2, <1>3, <1>4, <1>5 DEF Next, ControlThread, ShellGoesOn, Modem

LEMMA LendingStarts ==
  ASSUME CtrlReady, Init
  PROVE  Lending
<1>1. ~ToolAbout
  BY DEF Init, ToolAbout, CtrlReady, Ready, PhyCtrlAssumption
<1> QED
  BY <1>1, HoldsEmpty DEF Init, Lending, NoneEnded

\* A tool has the modem for itself, and one that goes on and did not end has its handler,
\* also when the tool before was being reclaimed as it was started.
THEOREM ToolIsHeard == Spec => []ToolHeard
<1>1. Init => CtrlReady /\ Lending
  BY CtrlStarts, LendingStarts, PhyCtrlAssumption
<1>2. CtrlReady /\ Lending /\ [Next]_vars => (CtrlReady /\ Lending)'
  BY CtrlStep, LendingStep
<1>3. CtrlReady /\ Lending => ToolHeard
  <2> SUFFICES ASSUME CtrlReady, Lending PROVE ToolHeard
    OBVIOUS
  <2>1. handler # "ctrl" => rxQ = <<>> /\ modem = <<>>
    BY DEF Lending, ToolAbout, Lent
  <2>2. ASSUME NEW tool \in ctrl.tools
        PROVE  handler = tool \/ Contains(ctrlQ, Done(tool))
    <3>1. handler = tool \/ ctrlQ = <<Done(tool)>>
      BY <2>2, ToolQueue DEF ToolAbout
    <3>2. Contains(<<Done(tool)>>, Done(tool))
      <4>1. 1 \in DOMAIN <<Done(tool)>> /\ <<Done(tool)>>[1] = Done(tool)
        OBVIOUS
      <4> QED
        BY <4>1 DEF Contains
    <3> QED
      BY <3>1, <3>2
  <2> QED
    BY <2>1, <2>2 DEF ToolHeard
<1> QED
  BY <1>1, <1>2, <1>3, PTL DEF Spec

--------------------------------------------------------------------------------
(* The steps of a scan, counted.                                           *)

MeasureEnds == [id : {"completed"}, op : {"measure"}, ok : BOOLEAN]
MeasuredEnds == [id : {"completed"}, op : {"measure"}, ok : {TRUE}]
Measures == [op : {"measure"}, measured : BOOLEAN]
Measurements == [op : {"measure"}, measured : {TRUE}]
RxOps == [op : {"rx"}, measured : BOOLEAN]

LEMMA OpKinds ==
  /\ RadioOps = Measures \cup RxOps /\ Measures \cap RxOps = {} /\ Measurements \subseteq Measures
  /\ \A op \in RadioOps : (op.op = "measure" <=> op \in Measures) /\ (op.op = "rx" <=> op \in RxOps)
                          /\ (op \in Measurements <=> op.op = "measure" /\ op.measured)
BY DEF RadioOps, Measures, RxOps, Measurements

LEMMA MessageKinds ==
  /\ MeasureEnds \subseteq ScanSteps /\ MeasuredEnds \subseteq MeasureEnds
  /\ ScanSteps \cap RxEnded = {} /\ MeasureEnds \cap RxEnded = {} /\ MeasuredEnds \cap RxEnded = {}
  /\ Msg("run") \in ScanSteps /\ Msg("run") \notin MeasureEnds /\ Msg("run") \notin RxEnded
  /\ Msg("run") \notin MeasuredEnds
  /\ Msg("rssi_on_rx") \notin ScanSteps /\ Msg("rssi_on_rx") \notin RxEnded
  /\ \A tool : Done(tool) \notin ScanSteps /\ Done(tool) \notin RxEnded
  /\ \A op \in Measures, ok \in BOOLEAN :
       Completed(op, ok) \in MeasureEnds /\ (Completed(op, ok) \in MeasuredEnds <=> ok)
  /\ \A op \in RxOps, ok \in BOOLEAN : Completed(op, ok) \in RxEnded
<1>1. MeasureEnds \subseteq ScanSteps
  BY DEF MeasureEnds, ScanSteps
<1>2. MeasuredEnds \subseteq MeasureEnds
  BY DEF MeasuredEnds, MeasureEnds
<1>3. ScanSteps \cap RxEnded = {} /\ MeasureEnds \cap RxEnded = {} /\ MeasuredEnds \cap RxEnded = {}
  BY <1>1, <1>2 DEF ScanSteps, RxEnded
<1>4. Msg("run") \in ScanSteps /\ Msg("run").id = "run" /\ Msg("rssi_on_rx").id = "rssi_on_rx"
      /\ \A tool : Done(tool).id = "done"
  BY DEF Msg, Done, ScanSteps
<1>5. /\ \A m \in ScanSteps : m.id \in {"run", "completed"}
      /\ \A m \in RxEnded \cup MeasureEnds \cup MeasuredEnds : m.id = "completed"
  BY DEF ScanSteps, RxEnded, MeasureEnds, MeasuredEnds
<1>6. \A op \in Measures, ok \in BOOLEAN :
        Completed(op, ok) \in MeasureEnds /\ (Completed(op, ok) \in MeasuredEnds <=> ok)
  BY DEF Measures, Completed, MeasureEnds, MeasuredEnds
<1>7. \A op \in RxOps, ok \in BOOLEAN : Completed(op, ok) \in RxEnded
  BY DEF RxOps, Completed, RxEnded
<1>8. /\ Msg("run") \notin MeasureEnds /\ Msg("run") \notin RxEnded /\ Msg("run") \notin MeasuredEnds
  BY <1>4, <1>5
<1>9. Msg("rssi_on_rx") \notin ScanSteps /\ Msg("rssi_on_rx") \notin RxEnded
  BY <1>4, <1>5
<1>10. \A tool : Done(tool) \notin ScanSteps /\ Done(tool) \notin RxEnded
  BY <1>4, <1>5
<1> QED
  BY <1>1, <1>2, <1>3, <1>4, <1>6, <1>7, <1>8, <1>9, <1>10

\* What a message says of its kind.
LEMMA MessageSays ==
  ASSUME NEW m \in Messages
  PROVE  /\ m.id = "run" => m \in ScanSteps
         /\ m.id = "completed" /\ m.op = "rx" => m \in RxEnded /\ m.ok \in BOOLEAN
         /\ m.id = "completed" /\ m.op # "rx" => m \in MeasureEnds /\ m.ok \in BOOLEAN
                                                 /\ (m.ok => m \in MeasuredEnds)
         /\ m.id = "rssi_on_rx" => m \notin ScanSteps /\ m \notin RxEnded
         /\ m \in ScanSteps => m.id = "run" \/ (m.id = "completed" /\ m.op = "measure")
         /\ m.id = "run" \/ (m.id = "completed" /\ m.op = "measure") => m \in ScanSteps
<1>1. CASE m \in ScanSteps
  <2>1. CASE m \in [id : {"run"}, op : {"none"}, ok : {TRUE}]
    BY <1>1, <2>1
  <2>2. CASE m \in MeasureEnds
    <3>1. /\ m.id = "completed" /\ m.op = "measure" /\ m.ok \in BOOLEAN
          /\ m = [id |-> m.id, op |-> m.op, ok |-> m.ok]
      BY <2>2 DEF MeasureEnds
    <3>2. m.ok => m \in MeasuredEnds
      <4>1. [id |-> "completed", op |-> "measure", ok |-> TRUE] \in MeasuredEnds
        BY DEF MeasuredEnds
      <4>2. m.ok => m.ok = TRUE
        BY <3>1
      <4> QED
        BY <3>1, <4>1, <4>2
    <3> QED
      BY <1>1, <2>2, <3>1, <3>2
  <2> QED
    BY <1>1, <2>1, <2>2 DEF ScanSteps, MeasureEnds
<1>2. CASE m \in RxEnded
  BY <1>2 DEF RxEnded, ScanSteps
<1>3. CASE m \in ToolsEnded
  BY <1>3 DEF ToolsEnded, ScanSteps
<1>4. CASE m = Msg("rssi_on_rx")
  <2>1. m.id = "rssi_on_rx" /\ m \notin ScanSteps /\ m \notin RxEnded
    BY <1>4, MessageKinds DEF Msg
  <2> QED
    BY <2>1
<1> QED
  BY <1>1, <1>2, <1>3, <1>4 DEF Messages

\* Where the steps of a scan are: asked for or ended, queued, in the modem, or waiting for
\* the answer to a cancel.
Suspending(labels) ==
  (IF labels["shell"] = "suspend" THEN 1 ELSE 0) + (IF labels["ctrl"] = "suspend" THEN 1 ELSE 0)
Steps(queue, radio, ops, labels) ==
  Number(queue, ScanSteps) + Number(radio, {"measure"}) + Number(ops, Measures) + Suspending(labels)
Count == Steps(ctrlQ, rxQ, modem, pc)

LEMMA StepsNone ==
  ASSUME NEW queue, IsList(queue), NEW radio, IsList(radio), NEW ops, IsList(ops), NEW labels
  PROVE  /\ Number(queue, ScanSteps) \in Nat /\ Number(radio, {"measure"}) \in Nat
         /\ Number(ops, Measures) \in Nat /\ Suspending(labels) \in Nat
         /\ Steps(queue, radio, ops, labels) \in Nat
         /\ Number(queue, ScanSteps) = 0 <=> ToSet(queue) \cap ScanSteps = {}
         /\ Number(radio, {"measure"}) = 0 <=> "measure" \notin ToSet(radio)
         /\ Number(ops, Measures) = 0 <=> ToSet(ops) \cap Measures = {}
         /\ Suspending(labels) = 0 <=> labels["shell"] # "suspend" /\ labels["ctrl"] # "suspend"
         /\ Steps(queue, radio, ops, labels) = 0 <=>
              /\ ToSet(queue) \cap ScanSteps = {} /\ "measure" \notin ToSet(radio)
              /\ ToSet(ops) \cap Measures = {}
              /\ labels["shell"] # "suspend" /\ labels["ctrl"] # "suspend"
<1>1. /\ Number(queue, ScanSteps) \in Nat /\ (Number(queue, ScanSteps) = 0 <=> ToSet(queue) \cap ScanSteps = {})
      /\ Number(ops, Measures) \in Nat /\ (Number(ops, Measures) = 0 <=> ToSet(ops) \cap Measures = {})
  BY ListNumber
<1>2. Number(radio, {"measure"}) \in Nat /\ (Number(radio, {"measure"}) = 0 <=> "measure" \notin ToSet(radio))
  BY ListNumber
<1>3. Suspending(labels) \in Nat
      /\ (Suspending(labels) = 0 <=> labels["shell"] # "suspend" /\ labels["ctrl"] # "suspend")
  BY DEF Suspending
<1>4. PICK a, b, c, d : /\ a = Number(queue, ScanSteps) /\ b = Number(radio, {"measure"})
                        /\ c = Number(ops, Measures) /\ d = Suspending(labels)
  OBVIOUS
<1>5. Steps(queue, radio, ops, labels) = a + b + c + d
  BY <1>4 DEF Steps
<1>6. a \in Nat /\ b \in Nat /\ c \in Nat /\ d \in Nat
  BY <1>1, <1>2, <1>3, <1>4
<1>7. a + b + c + d \in Nat /\ (a + b + c + d = 0 <=> a = 0 /\ b = 0 /\ c = 0 /\ d = 0)
  BY <1>6
<1> QED
  BY <1>1, <1>2, <1>3, <1>4, <1>5, <1>7

LEMMA QueuesAreLists ==
  ASSUME Lists
  PROVE  IsList(ctrlQ) /\ IsList(rxQ) /\ IsList(modem)
BY ListOf DEF Lists

\* Where there is one step, there is no other.
LEMMA OnePlaceOnly ==
  ASSUME Lists, Count <= 1
  PROVE  /\ ToSet(ctrlQ) \cap ScanSteps # {} =>
              /\ Number(ctrlQ, ScanSteps) = 1 /\ Count = 1
              /\ "measure" \notin ToSet(rxQ) /\ ToSet(modem) \cap Measures = {}
              /\ pc["shell"] # "suspend" /\ pc["ctrl"] # "suspend"
         /\ "measure" \in ToSet(rxQ) =>
              /\ Number(rxQ, {"measure"}) = 1 /\ Count = 1
              /\ ToSet(ctrlQ) \cap ScanSteps = {} /\ ToSet(modem) \cap Measures = {}
              /\ pc["shell"] # "suspend" /\ pc["ctrl"] # "suspend"
         /\ ToSet(modem) \cap Measures # {} =>
              /\ Number(modem, Measures) = 1 /\ Count = 1
              /\ ToSet(ctrlQ) \cap ScanSteps = {} /\ "measure" \notin ToSet(rxQ)
              /\ pc["shell"] # "suspend" /\ pc["ctrl"] # "suspend"
         /\ pc["shell"] = "suspend" \/ pc["ctrl"] = "suspend" =>
              /\ Suspending(pc) = 1 /\ Count = 1 /\ ~(pc["shell"] = "suspend" /\ pc["ctrl"] = "suspend")
              /\ ToSet(ctrlQ) \cap ScanSteps = {} /\ "measure" \notin ToSet(rxQ)
              /\ ToSet(modem) \cap Measures = {}
<1>1. PICK a, b, c, d : /\ a = Number(ctrlQ, ScanSteps) /\ b = Number(rxQ, {"measure"})
                        /\ c = Number(modem, Measures) /\ d = Suspending(pc)
  OBVIOUS
<1>2. /\ a \in Nat /\ b \in Nat /\ c \in Nat /\ d \in Nat
      /\ (a = 0 <=> ToSet(ctrlQ) \cap ScanSteps = {}) /\ (b = 0 <=> "measure" \notin ToSet(rxQ))
      /\ (c = 0 <=> ToSet(modem) \cap Measures = {})
      /\ (d = 0 <=> pc["shell"] # "suspend" /\ pc["ctrl"] # "suspend")
  BY <1>1, QueuesAreLists, StepsNone
<1>3. Count = a + b + c + d
  BY <1>1 DEF Count, Steps
<1>4. pc["shell"] = "suspend" /\ pc["ctrl"] = "suspend" => d = 2
  BY <1>1 DEF Suspending
<1>5. /\ a # 0 => a = 1 /\ b = 0 /\ c = 0 /\ d = 0 /\ Count = 1
      /\ b # 0 => b = 1 /\ a = 0 /\ c = 0 /\ d = 0 /\ Count = 1
      /\ c # 0 => c = 1 /\ a = 0 /\ b = 0 /\ d = 0 /\ Count = 1
      /\ d # 0 => d = 1 /\ a = 0 /\ b = 0 /\ c = 0 /\ Count = 1
  BY <1>2, <1>3
<1> QED
  BY <1>1, <1>2, <1>4, <1>5

\* One step in one of the places.
LEMMA OneCounted ==
  ASSUME NEW queue, IsList(queue), NEW radio, IsList(radio), NEW ops, IsList(ops), NEW labels,
         \/ /\ Number(queue, ScanSteps) = 1 /\ "measure" \notin ToSet(radio) /\ ToSet(ops) \cap Measures = {}
            /\ labels["shell"] # "suspend" /\ labels["ctrl"] # "suspend"
         \/ /\ Number(radio, {"measure"}) = 1 /\ ToSet(queue) \cap ScanSteps = {}
            /\ ToSet(ops) \cap Measures = {}
            /\ labels["shell"] # "suspend" /\ labels["ctrl"] # "suspend"
         \/ /\ Number(ops, Measures) = 1 /\ ToSet(queue) \cap ScanSteps = {} /\ "measure" \notin ToSet(radio)
            /\ labels["shell"] # "suspend" /\ labels["ctrl"] # "suspend"
         \/ /\ ToSet(queue) \cap ScanSteps = {} /\ "measure" \notin ToSet(radio)
            /\ ToSet(ops) \cap Measures = {}
            /\ \/ labels["shell"] = "suspend" /\ labels["ctrl"] # "suspend"
               \/ labels["shell"] # "suspend" /\ labels["ctrl"] = "suspend"
  PROVE  Steps(queue, radio, ops, labels) = 1
<1>1. PICK a, b, c, d : /\ a = Number(queue, ScanSteps) /\ b = Number(radio, {"measure"})
                        /\ c = Number(ops, Measures) /\ d = Suspending(labels)
  OBVIOUS
<1>2. /\ a \in Nat /\ b \in Nat /\ c \in Nat /\ d \in Nat
      /\ (a = 0 <=> ToSet(queue) \cap ScanSteps = {}) /\ (b = 0 <=> "measure" \notin ToSet(radio))
      /\ (c = 0 <=> ToSet(ops) \cap Measures = {})
      /\ (d = 0 <=> labels["shell"] # "suspend" /\ labels["ctrl"] # "suspend")
  BY <1>1, StepsNone
<1>3. Steps(queue, radio, ops, labels) = a + b + c + d
  BY <1>1 DEF Steps
<1>4. (labels["shell"] = "suspend" /\ labels["ctrl"] # "suspend") => d = 1
  BY <1>1 DEF Suspending
<1>5. (labels["shell"] # "suspend" /\ labels["ctrl"] = "suspend") => d = 1
  BY <1>1 DEF Suspending
<1>6. \/ a = 1 /\ b = 0 /\ c = 0 /\ d = 0
      \/ b = 1 /\ a = 0 /\ c = 0 /\ d = 0
      \/ c = 1 /\ a = 0 /\ b = 0 /\ d = 0
      \/ d = 1 /\ a = 0 /\ b = 0 /\ c = 0
  BY <1>1, <1>2, <1>4, <1>5
<1> QED
  BY <1>2, <1>3, <1>6

--------------------------------------------------------------------------------
(* A scan has one step under way.                                          *)

Measuring == "measure" \in ToSet(rxQ) \/ ToSet(modem) \cap Measures # {} \/ ToSet(ctrlQ) \cap MeasureEnds # {}
Receiving ==
  \/ ctrl.rx_cmd_on_going \/ pc["shell"] = "rx" \/ pc["ctrl"] = "rx"
  \/ "rx" \in ToSet(rxQ) \/ ToSet(modem) \cap RxOps # {} \/ ToSet(ctrlQ) \cap RxEnded # {}

\* OneStep and VerdictHasData, with what keeps them: a scan that measures gets the end, with
\* the scheduler suspended if it is forced; the timer runs between rounds only; a
\* reception leaves no scan on going; and what was measured was stored.
ScanInv ==
  /\ Count <= 1
  /\ ctrl.rssi_scan_ongoing => Count = 1 \/ "queue" \in Exhausts
  /\ ctrl.rssi_scan_ongoing /\ Measuring => scan.callback /\ (ctrl.rssi_scan_params.suspend => suspended)
  /\ timer => Count = 0 /\ ~ctrl.rssi_scan_ongoing
  /\ Receiving => Count = 0 /\ ~ctrl.rssi_scan_ongoing /\ ~Repeats
  /\ ctrl.rx_cmd_on_going => ~scan.on_going
  /\ ctrl.rssi_scan_ongoing /\ (ToSet(modem) \cap Measurements # {} \/ ToSet(ctrlQ) \cap MeasuredEnds # {}) =>
       scan.measured

\* What the proofs of the steps assume.
Going == CtrlReady /\ Lending /\ ScanInv

LEMMA GoingLists ==
  ASSUME CtrlReady
  PROVE  /\ Lists /\ Typed /\ ctrl \in CtrlData /\ scan \in ScanData
         /\ IsList(ctrlQ) /\ IsList(rxQ) /\ IsList(modem)
BY QueuesAreLists DEF CtrlReady, Ready, Typed, Data

\* No scan is left.
LEMMA NoScanLeft ==
  ASSUME Count' = 0, ~ctrl'.rssi_scan_ongoing, Receiving' => ~Repeats',
         ctrl'.rx_cmd_on_going => ~scan'.on_going
  PROVE  ScanInv'
BY DEF ScanInv

LEMMA NoneCounted ==
  ASSUME IsList(ctrlQ'), IsList(rxQ'), IsList(modem'),
         ToSet(ctrlQ') \cap ScanSteps = {}, "measure" \notin ToSet(rxQ'), ToSet(modem') \cap Measures = {},
         pc'["shell"] # "suspend", pc'["ctrl"] # "suspend"
  PROVE  Count' = 0
BY StepsNone DEF Count

LEMMA CountNone ==
  ASSUME CtrlReady, Count = 0
  PROVE  /\ ToSet(ctrlQ) \cap ScanSteps = {} /\ "measure" \notin ToSet(rxQ) /\ ToSet(modem) \cap Measures = {}
         /\ pc["shell"] # "suspend" /\ pc["ctrl"] # "suspend"
BY GoingLists, StepsNone DEF Count

\* While a tool is about there is no scan and no reception.
LEMMA ToolScans ==
  ASSUME CtrlReady', Lending', ToolAbout'
  PROVE  ScanInv'
<1>1. Lent'
  BY DEF Lending
<1>2. IsList(ctrlQ') /\ IsList(rxQ') /\ IsList(modem')
  <2>1. Lists'
    BY DEF CtrlReady, Ready, Typed
  <2> QED
    BY <2>1, ListOf DEF Lists
<1>3. ToSet(rxQ') = {} /\ ToSet(modem') = {}
  BY <1>1, HoldsEmpty DEF Lent
<1>4. ctrlQ' = <<>> \/ \E tool \in Tools : ctrlQ' = <<Done(tool)>>
  BY <1>1 DEF Lent, ToolAbout
<1>5. ToSet(ctrlQ') \cap ScanSteps = {} /\ ToSet(ctrlQ') \cap RxEnded = {}
  BY <1>4, HoldsEmpty, HoldsSingle, MessageKinds
<1>6. Count' = 0
  BY <1>1, <1>2, <1>3, <1>5, NoneCounted DEF Lent
<1>7. ~Receiving' /\ ~ctrl'.rssi_scan_ongoing /\ ~ctrl'.rx_cmd_on_going
  BY <1>1, <1>3, <1>5 DEF Receiving, Lent
<1> QED
  BY <1>6, <1>7, NoScanLeft

\* Cancelling nothing.
LEMMA CancelNothing ==
  ASSUME modem = <<>>, NEW queue \in Seq(Messages), CancelAll(queue)
  PROVE  modem' = <<>> /\ ctrlQ' = queue
<1>1. Ended(<<>>, FALSE) = <<>>
  BY DEF Ended
<1>2. modem' = <<>> /\ ctrlQ' = queue \o Ended(modem, FALSE)
  BY DEF CancelAll
<1>3. queue \o <<>> = queue
  OBVIOUS
<1> QED
  BY <1>1, <1>2, <1>3

\* Where an operation is in the modem, control has it.
LEMMA RadioIsControls ==
  ASSUME Going, rxQ # <<>> \/ modem # <<>> \/ timer \/ ctrl.rx_cmd_on_going \/ ctrl.rssi_scan_ongoing
  PROVE  ~ToolAbout /\ handler = "ctrl"
BY DEF Going, Lending, Lent, ToolAbout

\* What ends is a message for each operation.
LEMMA EndedHolds ==
  ASSUME NEW ops \in Seq(RadioOps), NEW ok \in BOOLEAN
  PROVE  \A m \in ToSet(Ended(ops, ok)) : \E op \in ToSet(ops) : m = Completed(op, ok)
<1>1. CASE handler = "ctrl"
  <2>1. Ended(ops, ok) = [i \in DOMAIN ops |-> Completed(ops[i], ok)]
    BY <1>1 DEF Ended
  <2> QED
    BY <2>1 DEF ToSet
<1>2. CASE handler # "ctrl"
  BY <1>2, HoldsEmpty DEF Ended
<1> QED
  BY <1>1, <1>2

\* With nothing but receptions in the modem, what is cancelled is no step of a scan.
LEMMA CancelReceptions ==
  ASSUME Lists, ToSet(modem) \cap Measures = {}, NEW queue \in Seq(Messages), CancelAll(queue)
  PROVE  modem' = <<>> /\ ToSet(ctrlQ') \cap ScanSteps = ToSet(queue) \cap ScanSteps
<1>1. modem \in Seq(RadioOps) /\ modem' = <<>> /\ ctrlQ' = queue \o Ended(modem, FALSE)
  BY DEF CancelAll, Lists
<1>2. Ended(modem, FALSE) \in Seq(Messages)
  BY <1>1, EndedType
<1>3. \A op \in ToSet(modem) : op \in RxOps
  BY <1>1, HoldsType, OpKinds
<1>4. \A m \in ToSet(Ended(modem, FALSE)) : \E op \in ToSet(modem) : m = Completed(op, FALSE)
  BY <1>1, EndedHolds
<1>5. \A m \in ToSet(Ended(modem, FALSE)) : m \notin ScanSteps
  BY <1>3, <1>4, MessageKinds
<1>6. ToSet(ctrlQ') = ToSet(queue) \cup ToSet(Ended(modem, FALSE))
  BY <1>1, <1>2, HoldsConcat
<1> QED
  BY <1>1, <1>5, <1>6

\* The first channel, whether asked for by the control thread's queue or after its cancel.
LEMMA FirstChannelScans ==
  ASSUME CtrlReady, CtrlReady', ~timer, ~Receiving, rxQ = <<>> \/ "measure" \notin ToSet(rxQ),
         ToSet(modem) \cap Measures = {}, modem' = modem,
         ToSet(ctrlQ') \subseteq ToSet(ctrlQ), ToSet(ctrlQ') \cap ScanSteps = {},
         pc'["shell"] = pc["shell"], pc["shell"] # "suspend", pc'["ctrl"] = "idle",
         NEW label, FirstChannel(label), ctrl.rssi_scan_params.suspend => label = "suspend"
  PROVE  ScanInv'
<1> ctrl \in CtrlData
  BY GoingLists
<1>1. IsList(rxQ) /\ IsList(modem') /\ IsList(ctrlQ') /\ "measure" \notin ToSet(rxQ)
  <2>1. IsList(rxQ) /\ IsList(modem)
    BY GoingLists
  <2>2. IsList(ctrlQ')
    BY ListOf DEF CtrlReady, Ready, Typed, Lists
  <2> QED
    BY <2>1, <2>2, HoldsEmpty
<1>2. ToSet(ctrlQ') \cap RxEnded = {} /\ ToSet(modem') \cap RxOps = {} /\ "rx" \notin ToSet(rxQ)
      /\ pc'["shell"] # "rx" /\ pc'["ctrl"] # "rx" /\ ~ctrl.rx_cmd_on_going
  BY DEF Receiving
<1>3. CASE /\ ctrl' = [ctrl EXCEPT !.rssi_scan_ongoing = FALSE, !.rssi_scan_cmd_running = FALSE]
           /\ UNCHANGED rxQ
  <2>1. ~ctrl'.rssi_scan_ongoing /\ ~ctrl'.rx_cmd_on_going
    BY <1>2, <1>3
  <2>2. ~Receiving'
    BY <1>2, <1>3, <2>1 DEF Receiving
  <2>3. Count' = 0
    BY <1>1, <1>3, NoneCounted
  <2> QED
    BY <2>1, <2>2, <2>3, NoScanLeft
<1>4. CASE /\ scan' = [Cleared EXCEPT !.on_going = TRUE, !.callback = TRUE, !.channel = 1,
                                !.all = ctrl.rssi_scan_params.all]
           /\ \E added \in Added : AddRx("measure", added)
           /\ suspended' = (suspended \/ label = "suspend")
           /\ UNCHANGED <<ctrl, sema, timer>>
  <2>1. scan'.callback
    BY <1>4 DEF Cleared
  <2>2. ctrl.rssi_scan_params.suspend => suspended'
    BY <1>4
  <2>3. PICK added \in Added : AddRx("measure", added)
    BY <1>4
  <2>4. ToSet(rxQ') \subseteq ToSet(rxQ) \cup {"measure"} /\ IsList(rxQ')
        /\ (added => Number(rxQ', {"measure"}) = 1)
    <3>1. /\ IsList(Append(rxQ, "measure")) /\ ToSet(Append(rxQ, "measure")) = ToSet(rxQ) \cup {"measure"}
          /\ Number(Append(rxQ, "measure"), {"measure"}) = Number(rxQ, {"measure"}) + 1
      BY <1>1, ListAppend
    <3>2. Number(rxQ, {"measure"}) = 0
      BY <1>1, ListNumber
    <3> QED
      BY <1>1, <2>3, <3>1, <3>2 DEF AddRx
  <2>5. ~Receiving'
    BY <1>2, <1>4, <2>4 DEF Receiving
  <2>6. CASE added
    <3>1. Count' = 1
      BY <1>1, <2>4, <2>6, OneCounted DEF Count
    <3>2. ToSet(modem') \cap Measurements = {} /\ ToSet(ctrlQ') \cap MeasuredEnds = {}
      BY OpKinds, MessageKinds
    <3> QED
      BY <1>2, <1>4, <2>1, <2>2, <2>5, <3>1, <3>2 DEF ScanInv
  <2>7. CASE ~added
    <3>1. rxQ' = rxQ /\ "queue" \in Exhausts
      BY <2>3, <2>7 DEF AddRx, Added
    <3>2. Count' = 0
      BY <1>1, <3>1, NoneCounted
    <3>3. ToSet(modem') \cap Measurements = {} /\ ToSet(ctrlQ') \cap MeasuredEnds = {}
      BY OpKinds, MessageKinds
    <3> QED
      BY <1>2, <1>4, <2>1, <2>2, <2>5, <3>1, <3>2, <3>3 DEF ScanInv
  <2> QED
    BY <2>6, <2>7
<1> QED
  BY <1>3, <1>4 DEF FirstChannel

LEMMA TakeRunScans ==
  ASSUME Going, CtrlReady', pc["ctrl"] = "idle", ctrlQ # <<>>, TakeRun
  PROVE  ScanInv'
<1>1. /\ Head(ctrlQ) \in ToSet(ctrlQ) /\ Head(ctrlQ) \in ScanSteps
      /\ Tail(ctrlQ) \in Seq(Messages) /\ ToSet(Tail(ctrlQ)) \subseteq ToSet(ctrlQ)
      /\ Number(ctrlQ, ScanSteps) = Number(Tail(ctrlQ), ScanSteps) + 1
  <2>1. Head(ctrlQ) \in Messages /\ Head(ctrlQ).id = "run" /\ Tail(ctrlQ) \in Seq(Messages)
    BY QueueTypes, GoingLists DEF TakeRun, Going
  <2>2. Head(ctrlQ) \in ScanSteps
    BY <2>1, MessageSays
  <2> QED
    BY <2>1, <2>2, ListTail, GoingLists DEF Going
<1>2. /\ Number(ctrlQ, ScanSteps) = 1 /\ Count = 1
      /\ "measure" \notin ToSet(rxQ) /\ ToSet(modem) \cap Measures = {}
      /\ pc["shell"] # "suspend" /\ pc["ctrl"] # "suspend"
  BY <1>1, OnePlaceOnly, GoingLists DEF Going, ScanInv
<1>3. ~timer /\ ~Receiving
  BY <1>2 DEF Going, ScanInv
<1>4. ToSet(Tail(ctrlQ)) \cap ScanSteps = {}
  <2>1. IsList(Tail(ctrlQ))
    BY <1>1, ListOf
  <2>2. Number(Tail(ctrlQ), ScanSteps) \in Nat
    BY <2>1, ListNumber
  <2>3. Number(Tail(ctrlQ), ScanSteps) = 0
    BY <1>1, <1>2, <2>2
  <2> QED
    BY <2>1, <2>3, ListNumber
<1>5. IsList(Tail(ctrlQ)) /\ IsList(rxQ) /\ IsList(modem)
  BY <1>1, ListOf, GoingLists DEF Going
<1>6. CASE ~Runs /\ ctrlQ' = Tail(ctrlQ)
           /\ UNCHANGED <<ctrl, scan, sema, timer, suspended, rxQ, modem, threads>>
  <2>1. Count' = 0
    BY <1>2, <1>4, <1>5, <1>6, NoneCounted DEF threads
  <2>2. ~Receiving' /\ ~ctrl'.rssi_scan_ongoing /\ ~ctrl'.rx_cmd_on_going
    BY <1>1, <1>3, <1>6 DEF Receiving, Runs, threads
  <2> QED
    BY <2>1, <2>2, NoScanLeft
<1>7. CASE ~ctrl.rssi_scan_params.suspend /\ FirstChannel("none")
           /\ ctrlQ' = Tail(ctrlQ) /\ UNCHANGED <<modem, threads>>
  BY <1>1, <1>2, <1>3, <1>4, <1>7, FirstChannelScans DEF Going, threads
<1>8. CASE ctrl.rssi_scan_params.suspend /\ CancelAll(Tail(ctrlQ)) /\ Waits("ctrl", "suspend")
           /\ UNCHANGED <<ctrl, scan, sema, timer, suspended, rxQ>>
  <2>1. modem = <<>>
    <3>1. ToSet(modem) \subseteq RadioOps /\ ToSet(modem) \cap RxOps = {}
      BY <1>3, HoldsType, GoingLists DEF Receiving, Going, Lists
    <3>2. ToSet(modem) = {}
      BY <1>2, <3>1, OpKinds
    <3> QED
      BY <3>2, GoingLists, NothingHeld DEF Going, Lists
  <2>2. modem' = <<>> /\ ctrlQ' = Tail(ctrlQ)
    BY <1>1, <1>8, <2>1, CancelNothing
  <2>3. pc'["ctrl"] = "suspend" /\ pc'["shell"] = pc["shell"]
    BY <1>8, WaitsType, GoingLists DEF Going
  <2>4. Count' = 1
    BY <1>2, <1>4, <1>5, <1>8, <2>1, <2>2, <2>3, OneCounted DEF Count
  <2>5. ~Receiving' /\ ~Measuring' /\ ~ctrl'.rx_cmd_on_going
    BY <1>1, <1>2, <1>3, <1>4, <1>8, <2>1, <2>2, <2>3, MessageKinds DEF Receiving, Measuring
  <2>6. ToSet(modem') \cap Measurements = {} /\ ToSet(ctrlQ') \cap MeasuredEnds = {}
    BY <1>2, <1>4, <2>1, <2>2, OpKinds, MessageKinds
  <2> QED
    BY <1>3, <1>8, <2>4, <2>5, <2>6 DEF ScanInv
<1> QED
  BY <1>6, <1>7, <1>8 DEF TakeRun

LEMMA CtrlSuspendsScans ==
  ASSUME Going, CtrlReady', CtrlSuspends
  PROVE  ScanInv'
<1>1. pc["ctrl"] = "suspend" /\ FirstChannel("suspend") /\ UNCHANGED <<ctrlQ, modem>>
  BY DEF CtrlSuspends, GoesOn
<1>2. pc'["ctrl"] = "idle" /\ pc'["shell"] = pc["shell"]
  BY GoesOnType, GoingLists DEF CtrlSuspends, Going
<1>3. /\ Count = 1 /\ pc["shell"] # "suspend"
      /\ ToSet(ctrlQ) \cap ScanSteps = {} /\ "measure" \notin ToSet(rxQ) /\ ToSet(modem) \cap Measures = {}
  BY <1>1, OnePlaceOnly, GoingLists DEF Going, ScanInv
<1>4. ~timer /\ ~Receiving
  BY <1>3 DEF Going, ScanInv
<1> QED
  BY <1>1, <1>2, <1>3, <1>4, FirstChannelScans DEF Going

--------------------------------------------------------------------------------
(* What a step leaves of a scan.                                           *)

ScanKept ==
  /\ ctrl'.rssi_scan_ongoing = ctrl.rssi_scan_ongoing
  /\ ctrl'.rssi_scan_cmd_running = ctrl.rssi_scan_cmd_running
  /\ ctrl'.rssi_scan_params = ctrl.rssi_scan_params

\* The queues after a step are lists too.
LEMMA GoingLater ==
  ASSUME CtrlReady'
  PROVE  IsList(ctrlQ') /\ IsList(rxQ') /\ IsList(modem')
BY ListOf DEF CtrlReady, Ready, Typed, Lists

\* No step of a scan is added where there was none.
LEMMA QuietStays ==
  ASSUME CtrlReady, CtrlReady', Count = 0, ~ctrl'.rssi_scan_ongoing, ~Repeats',
         "measure" \in ToSet(rxQ') => "measure" \in ToSet(rxQ),
         ToSet(modem') \cap Measures \subseteq ToSet(modem),
         ToSet(ctrlQ') \cap ScanSteps \subseteq ToSet(ctrlQ),
         pc'["shell"] = "suspend" => pc["shell"] = "suspend",
         pc'["ctrl"] = "suspend" => pc["ctrl"] = "suspend",
         ctrl'.rx_cmd_on_going => ~scan'.on_going
  PROVE  ScanInv'
<1>1. Count' = 0
  BY CountNone, GoingLater, NoneCounted
<1> QED
  BY <1>1, NoScanLeft

\* A reception leaves scans alone.
LEMMA ReceivingQuiet ==
  ASSUME Going, CtrlReady', Receiving, ScanKept,
         "measure" \in ToSet(rxQ') => "measure" \in ToSet(rxQ),
         ToSet(modem') \cap Measures \subseteq ToSet(modem),
         ToSet(ctrlQ') \cap ScanSteps \subseteq ToSet(ctrlQ),
         pc'["shell"] = "suspend" => pc["shell"] = "suspend",
         pc'["ctrl"] = "suspend" => pc["ctrl"] = "suspend",
         ctrl'.rx_cmd_on_going => ~scan'.on_going
  PROVE  ScanInv'
<1>1. Count = 0 /\ ~ctrl'.rssi_scan_ongoing /\ ~Repeats'
  BY DEF Going, ScanInv, ScanKept, Repeats
<1> QED
  BY <1>1, QuietStays DEF Going

\* A scan that is asked for and has nothing in the modem.
LEMMA OneStepLeft ==
  ASSUME Count' = 1, ~timer', ~Receiving', ~Measuring'
  PROVE  ScanInv'
<1>1. ToSet(modem') \cap Measurements = {} /\ ToSet(ctrlQ') \cap MeasuredEnds = {}
  BY OpKinds, MessageKinds DEF Measuring
<1>2. ~ctrl'.rx_cmd_on_going
  BY DEF Receiving
<1> QED
  BY <1>1, <1>2 DEF ScanInv

LEMMA RequestedOnce ==
  ASSUME CtrlReady, RunScan, UNCHANGED <<rxQ, modem>>, ~timer', ~Receiving,
         ctrl'.rx_cmd_on_going = ctrl.rx_cmd_on_going,
         ToSet(ctrlQ) \cap ScanSteps = {}, "measure" \notin ToSet(rxQ), ToSet(modem) \cap Measures = {},
         pc'["shell"] \notin {"suspend", "rx"}, pc'["ctrl"] \notin {"suspend", "rx"}
  PROVE  ScanInv'
<1>1. IsList(ctrlQ) /\ IsList(rxQ) /\ IsList(modem)
  BY GoingLists
<1>2. ctrlQ' = Append(ctrlQ, Msg("run"))
  BY DEF RunScan
<1>3. /\ IsList(ctrlQ') /\ ToSet(ctrlQ') = ToSet(ctrlQ) \cup {Msg("run")}
      /\ Number(ctrlQ', ScanSteps) = Number(ctrlQ, ScanSteps) + 1
  BY <1>1, <1>2, ListAppend, MessageKinds
<1>4. Number(ctrlQ', ScanSteps) = 1
  BY <1>1, <1>3, ListNumber
<1>5. Count' = 1
  BY <1>1, <1>3, <1>4, OneCounted DEF Count
<1>6. ~Receiving'
  BY <1>3, MessageKinds DEF Receiving
<1>7. ~Measuring'
  BY <1>3, MessageKinds DEF Measuring
<1> QED
  BY <1>5, <1>6, <1>7, OneStepLeft

\* The message that is taken was the step of a scan.
LEMMA HeadTaken ==
  ASSUME Going, ctrlQ # <<>>, Head(ctrlQ) \in ScanSteps
  PROVE  /\ Count = 1 /\ ~timer /\ ~Receiving
         /\ IsList(Tail(ctrlQ)) /\ Tail(ctrlQ) \in Seq(Messages)
         /\ ToSet(Tail(ctrlQ)) \subseteq ToSet(ctrlQ) /\ ToSet(Tail(ctrlQ)) \cap ScanSteps = {}
         /\ "measure" \notin ToSet(rxQ) /\ ToSet(modem) \cap Measures = {}
         /\ pc["shell"] # "suspend" /\ pc["ctrl"] # "suspend"
<1>1. /\ Head(ctrlQ) \in ToSet(ctrlQ) /\ Tail(ctrlQ) \in Seq(Messages) /\ IsList(Tail(ctrlQ))
      /\ ToSet(Tail(ctrlQ)) \subseteq ToSet(ctrlQ)
      /\ Number(ctrlQ, ScanSteps) = Number(Tail(ctrlQ), ScanSteps) + 1
  BY ListTail, QueueTypes, GoingLists DEF Going
<1>2. /\ Number(ctrlQ, ScanSteps) = 1 /\ Count = 1
      /\ "measure" \notin ToSet(rxQ) /\ ToSet(modem) \cap Measures = {}
      /\ pc["shell"] # "suspend" /\ pc["ctrl"] # "suspend"
  BY <1>1, OnePlaceOnly, GoingLists DEF Going, ScanInv
<1>3. Number(Tail(ctrlQ), ScanSteps) \in Nat
      /\ (Number(Tail(ctrlQ), ScanSteps) = 0 <=> ToSet(Tail(ctrlQ)) \cap ScanSteps = {})
  BY <1>1, ListNumber
<1>4. Number(Tail(ctrlQ), ScanSteps) = 0
  BY <1>1, <1>2, <1>3
<1> QED
  BY <1>1, <1>2, <1>3, <1>4 DEF Going, ScanInv

--------------------------------------------------------------------------------
(* A scan has one step under way: the commands.                            *)

\* A command over nothing else.
LEMMA AloneQuiet ==
  ASSUME Going, Alone, Command, pc["ctrl"] = "idle", ~ctrl.rssi_scan_ongoing
  PROVE  /\ rxQ = <<>> /\ modem = <<>> /\ ctrlQ = <<>> /\ Count = 0
         /\ ~timer /\ ~Repeats /\ ~Receiving /\ ~ctrl.rx_cmd_on_going
         /\ ToSet(ctrlQ) = {} /\ ToSet(rxQ) = {} /\ ToSet(modem) = {}
<1>1. rxQ = <<>> /\ modem = <<>> /\ ctrlQ = <<>> /\ ~Repeats /\ ~ctrl.rx_cmd_on_going
  BY DEF Alone, Repeats
<1>2. ToSet(ctrlQ) = {} /\ ToSet(rxQ) = {} /\ ToSet(modem) = {}
  BY <1>1, HoldsEmpty
<1>3. ~timer
  BY <1>1 DEF Going, CtrlReady, Ready
<1>4. pc["shell"] = "idle"
  BY DEF Command
<1>5. ~Receiving
  BY <1>1, <1>2, <1>4 DEF Receiving
<1>6. Count = 0
  BY <1>2, <1>4, StepsNone, GoingLists DEF Count, Going
<1> QED
  BY <1>1, <1>2, <1>3, <1>5, <1>6

LEMMA StartScanScans ==
  ASSUME Going, CtrlReady', NEW params \in Scans, Command, Alone, Reclaimed, StartScan("shell", params)
  PROVE  ScanInv'
<1>1. pc["ctrl"] = "idle" /\ pc["shell"] = "idle" /\ ~ctrl.rssi_scan_ongoing
      /\ UNCHANGED <<timer, rxQ>> /\ ctrl'.rx_cmd_on_going = ctrl.rx_cmd_on_going
  BY GoingLists DEF Reclaimed, Command, StartScan, Going
<1>2. /\ modem = <<>> /\ ctrlQ = <<>> /\ ~timer /\ ~Receiving /\ ~ctrl.rx_cmd_on_going
      /\ ToSet(ctrlQ) = {} /\ ToSet(rxQ) = {} /\ ToSet(modem) = {}
  BY <1>1, AloneQuiet
<1>3. CASE params.suspend
  <2>1. CancelAll(ctrlQ) /\ Waits("shell", "suspend")
    BY <1>3 DEF StartScan
  <2>2. modem' = modem /\ ctrlQ' = ctrlQ
    BY <1>2, <2>1, CancelNothing, GoingLists DEF Going, Lists
  <2>3. pc'["shell"] = "suspend" /\ pc'["ctrl"] = pc["ctrl"]
    BY <2>1, WaitsType, GoingLists DEF Going
  <2>4. Count' = 1
    BY <1>1, <1>2, <2>2, <2>3, OneCounted, GoingLater DEF Count
  <2>5. ~Receiving' /\ ~Measuring'
    BY <1>1, <1>2, <2>2, <2>3 DEF Receiving, Measuring
  <2> QED
    BY <1>1, <1>2, <2>4, <2>5, OneStepLeft
<1>4. CASE ~params.suspend
  <2>1. RunScan /\ UNCHANGED <<modem, threads>>
    BY <1>4 DEF StartScan
  <2> QED
    BY <1>1, <1>2, <2>1, RequestedOnce DEF threads, Going
<1> QED
  BY <1>3, <1>4

LEMMA StartRxScans ==
  ASSUME Going, CtrlReady', NEW params \in Receptions, Command, Alone, Reclaimed,
         ~ctrl.rssi_scan_ongoing, StartRx(params)
  PROVE  ScanInv'
<1>1. pc["ctrl"] = "idle" /\ pc["shell"] = "idle"
  BY DEF Reclaimed, Command
<1>2. /\ modem = <<>> /\ ctrlQ = <<>> /\ rxQ = <<>> /\ ~Repeats /\ ~ctrl.rx_cmd_on_going
      /\ ToSet(ctrlQ) = {} /\ ToSet(rxQ) = {} /\ ToSet(modem) = {} /\ Count = 0
  BY <1>1, AloneQuiet
<1>3. ScanKept
  BY GoingLists DEF StartRx, Receive, ScanKept, Going
<1>4. ~ctrl'.rssi_scan_ongoing /\ ~Repeats'
  BY <1>2, <1>3 DEF ScanKept, Repeats
<1>5. CASE params.suspend
  <2>1. CancelAll(ctrlQ) /\ Waits("shell", "rx") /\ ctrl' = [ctrl EXCEPT !.rx_cmd_params = params]
        /\ rxQ' = rxQ
    BY <1>5 DEF StartRx
  <2>2. modem' = modem /\ ctrlQ' = ctrlQ
    BY <1>2, <2>1, CancelNothing, GoingLists DEF Going, Lists
  <2>3. pc'["shell"] = "rx" /\ pc'["ctrl"] = pc["ctrl"]
    BY <2>1, WaitsType, GoingLists DEF Going
  <2>4. ~ctrl'.rx_cmd_on_going
    BY <1>2, <2>1, GoingLists DEF Going
  <2> QED
    BY <1>2, <1>4, <2>1, <2>2, <2>3, <2>4, QuietStays DEF Going
<1>6. CASE ~params.suspend
  <2>1. PICK added \in Added : Receive(params, 1, added)
    BY <1>6 DEF StartRx
  <2>2. UNCHANGED <<ctrlQ, modem, threads>>
    BY <1>6 DEF StartRx
  <2>3. scan' = Cleared /\ rxQ' \in {<<>>, Append(<<>>, "rx")}
    BY <1>2, <2>1 DEF Receive, AddRx
  <2>4. ToSet(Append(<<>>, "rx")) = {"rx"}
    <3>1. Append(<<>>, "rx") = <<"rx">>
      OBVIOUS
    <3> QED
      BY <3>1, HoldsSingle
  <2>5. "measure" \notin ToSet(rxQ')
    BY <2>3, <2>4, HoldsEmpty
  <2>6. ~scan'.on_going
    BY <2>3 DEF Cleared
  <2> QED
    BY <1>2, <1>4, <2>2, <2>5, <2>6, QuietStays DEF Going, threads
<1> QED
  BY <1>5, <1>6

LEMMA StopScanScans ==
  ASSUME Going, StopScan, UNCHANGED threads
  PROVE  ScanInv'
<1>1. /\ ~ctrl'.rssi_scan_ongoing /\ ctrl'.rx_cmd_on_going = ctrl.rx_cmd_on_going /\ ~scan'.on_going
      /\ ~timer' /\ ~Repeats'
  BY GoingLists DEF StopScan, Going, Repeats
<1>2. Count' = Count /\ (Receiving' => Receiving)
  BY <1>1 DEF StopScan, threads, Count, Receiving
<1>3. Count <= 1 /\ (Receiving => Count = 0)
  BY DEF ScanInv, Going
<1> QED
  BY <1>1, <1>2, <1>3 DEF ScanInv

LEMMA StopRxScans ==
  ASSUME Going, CtrlReady', ctrl.rx_cmd_on_going, StopRx
  PROVE  ScanInv'
<1>1. Receiving /\ ScanKept /\ ~ctrl'.rx_cmd_on_going /\ UNCHANGED <<rxQ, threads>>
  BY GoingLists DEF Receiving, StopRx, ScanKept, Going
<1>2. CASE UNCHANGED <<modem, ctrlQ>>
  BY <1>1, <1>2, ReceivingQuiet DEF threads
<1>3. ASSUME NEW i \in DOMAIN modem, modem[i].op = "rx", modem' = RemoveAt(modem, i),
             ctrlQ' = ctrlQ \o Ended(<<modem[i]>>, FALSE)
      PROVE  ScanInv'
  <2>1. modem[i] \in RadioOps /\ <<modem[i]>> \in Seq(RadioOps) /\ i \in 1 .. Len(modem)
    BY LenProperties, ElementOfSeq, GoingLists DEF Lists, Going
  <2>2. modem[i] \in RxOps
    BY <1>3, <2>1, OpKinds
  <2>3. \A m \in ToSet(Ended(<<modem[i]>>, FALSE)) : m = Completed(modem[i], FALSE)
    <3>1. PICK ops : ops = <<modem[i]>>
      OBVIOUS
    <3>2. ops \in Seq(RadioOps) /\ ToSet(ops) = {modem[i]}
      BY <2>1, <3>1, HoldsSingle
    <3>3. \A m \in ToSet(Ended(ops, FALSE)) : \E op \in ToSet(ops) : m = Completed(op, FALSE)
      BY <3>2, EndedHolds
    <3> QED
      BY <3>1, <3>2, <3>3
  <2>4. Completed(modem[i], FALSE) \notin ScanSteps
    BY <2>2, MessageKinds
  <2>5. ToSet(ctrlQ') = ToSet(ctrlQ) \cup ToSet(Ended(<<modem[i]>>, FALSE))
    BY <1>3, <2>1, EndedType, HoldsConcat, GoingLists DEF Lists, Going
  <2>6. ToSet(modem') \subseteq ToSet(modem)
    BY <1>3, <2>1, RemoveAtHolds, GoingLists DEF Lists, Going
  <2> QED
    BY <1>1, <2>3, <2>4, <2>5, <2>6, ReceivingQuiet DEF threads
<1> QED
  BY <1>2, <1>3 DEF StopRx

LEMMA ScanSuspendsScans ==
  ASSUME Going, ScanSuspends("shell", "idle")
  PROVE  ScanInv'
<1>1. pc["shell"] = "suspend" /\ pc'["shell"] = "idle" /\ pc'["ctrl"] = pc["ctrl"]
  BY GoesOnType, GoingLists DEF ScanSuspends, Going
<1>2. /\ Count = 1 /\ ToSet(ctrlQ) \cap ScanSteps = {} /\ "measure" \notin ToSet(rxQ)
      /\ ToSet(modem) \cap Measures = {} /\ pc["ctrl"] # "suspend"
  BY <1>1, OnePlaceOnly, GoingLists DEF Going, ScanInv
<1>3. ~timer /\ ~Receiving
  BY <1>2 DEF Going, ScanInv
<1>4. pc["ctrl"] # "rx"
  BY <1>3 DEF Receiving
<1> QED
  BY <1>1, <1>2, <1>3, <1>4, RequestedOnce DEF ScanSuspends, Going

LEMMA TimerFiresScans ==
  ASSUME Going, TimerFires
  PROVE  ScanInv'
<1>1. timer /\ ~timer' /\ RunScan /\ UNCHANGED <<ctrl, rxQ, modem, threads>>
  BY DEF TimerFires
<1>2. Repeats /\ Count = 0
  BY <1>1 DEF Going, CtrlReady, Ready, ScanInv
<1>3. ~Receiving
  BY <1>2 DEF Going, ScanInv
<1>4. pc["shell"] # "rx" /\ pc["ctrl"] # "rx"
  BY <1>3 DEF Receiving
<1> QED
  BY <1>1, <1>2, <1>3, <1>4, CountNone, RequestedOnce DEF Going, threads

--------------------------------------------------------------------------------
(* A scan has one step under way: the control thread.                      *)

\* What a reception that goes on or ends does.
LEMMA RestartDoes ==
  ASSUME CtrlReady, Restart \/ (RxEnds /\ UNCHANGED <<scan, rxQ>>)
  PROVE  /\ ScanKept /\ (ctrl'.rx_cmd_on_going => ~scan'.on_going)
         /\ "measure" \in ToSet(rxQ') => "measure" \in ToSet(rxQ)
<1> ctrl \in CtrlData
  BY GoingLists
<1>1. CASE RxEnds /\ UNCHANGED rxQ
  BY <1>1 DEF RxEnds, ScanKept
<1>2. CASE Receive(ctrl.rx_cmd_params, ctrl.rx_channel + 1, TRUE)
  <2>1. ScanKept /\ scan' = Cleared /\ rxQ' = Append(rxQ, "rx")
    BY <1>2 DEF Receive, ScanKept, AddRx
  <2>2. ToSet(rxQ') = ToSet(rxQ) \cup {"rx"}
    BY <2>1, ListAppend, GoingLists
  <2> QED
    BY <2>1, <2>2 DEF Cleared
<1> QED
  BY <1>1, <1>2 DEF Restart

LEMMA CtrlRestartsScans ==
  ASSUME Going, CtrlReady', CtrlRestarts
  PROVE  ScanInv'
<1>1. pc["ctrl"] = "rx" /\ pc'["ctrl"] = "idle" /\ pc'["shell"] = pc["shell"]
  BY GoesOnType, GoingLists DEF CtrlRestarts, Going
<1>2. Receiving
  BY <1>1 DEF Receiving
<1> QED
  BY <1>1, <1>2, RestartDoes, ReceivingQuiet DEF CtrlRestarts, Going

LEMMA RxSuspendsScans ==
  ASSUME Going, CtrlReady', RxSuspends
  PROVE  ScanInv'
<1>1. pc["shell"] = "rx" /\ pc'["shell"] = "idle" /\ pc'["ctrl"] = pc["ctrl"]
  BY GoesOnType, GoingLists DEF RxSuspends, Going
<1>2. Receiving /\ UNCHANGED <<ctrlQ, modem>>
  BY <1>1 DEF Receiving, RxSuspends
<1>3. PICK added \in Added : Receive(ctrl.rx_cmd_params, 1, added)
  BY DEF RxSuspends
<1>4. ScanKept /\ scan' = Cleared /\ rxQ' \in {rxQ, Append(rxQ, "rx")}
  BY <1>3, GoingLists DEF Receive, ScanKept, AddRx, Going
<1>5. ToSet(rxQ') \subseteq ToSet(rxQ) \cup {"rx"}
  BY <1>4, ListAppend, GoingLists DEF Going
<1>6. ~scan'.on_going
  BY <1>4 DEF Cleared
<1> QED
  BY <1>1, <1>2, <1>4, <1>5, <1>6, ReceivingQuiet

LEMMA RxCompletedScans ==
  ASSUME Going, CtrlReady', ctrlQ # <<>>, Head(ctrlQ) \in RxEnded, NEW ok \in BOOLEAN, RxCompleted(ok)
  PROVE  ScanInv'
<1>1. /\ Head(ctrlQ) \in ToSet(ctrlQ) /\ Tail(ctrlQ) \in Seq(Messages)
      /\ ToSet(Tail(ctrlQ)) \subseteq ToSet(ctrlQ)
  BY QueueNone, GoingLists DEF Going
<1>2. Receiving
  BY <1>1 DEF Receiving
<1>3. CASE /\ ctrl.rx_cmd_on_going /\ CancelAll(Tail(ctrlQ)) /\ Waits("ctrl", "rx")
           /\ UNCHANGED <<ctrl, scan, suspended, rxQ>>
  <2>1. pc'["ctrl"] = "rx" /\ pc'["shell"] = pc["shell"]
    BY <1>3, WaitsType, GoingLists DEF Going
  <2>2. Count = 0
    BY <1>2 DEF Going, ScanInv
  <2>3. ToSet(modem) \cap Measures = {}
    BY <2>2, CountNone DEF Going
  <2>4. modem' = <<>> /\ ToSet(ctrlQ') \cap ScanSteps = ToSet(Tail(ctrlQ)) \cap ScanSteps
    BY <1>1, <1>3, <2>3, CancelReceptions, GoingLists DEF Going
  <2>5. ToSet(modem') = {}
    BY <2>4, HoldsEmpty
  <2>6. ScanKept /\ (ctrl'.rx_cmd_on_going => ~scan'.on_going)
    BY <1>3 DEF ScanKept, Going, ScanInv
  <2> QED
    BY <1>1, <1>2, <1>3, <2>1, <2>4, <2>5, <2>6, ReceivingQuiet
<1>4. CASE /\ Restart \/ (RxEnds /\ UNCHANGED <<scan, rxQ>>)
           /\ ctrlQ' = Tail(ctrlQ) /\ UNCHANGED <<modem, threads>>
  <2>1. /\ ScanKept /\ (ctrl'.rx_cmd_on_going => ~scan'.on_going)
        /\ "measure" \in ToSet(rxQ') => "measure" \in ToSet(rxQ)
    BY <1>4, RestartDoes DEF Going
  <2> QED
    BY <1>1, <1>2, <1>4, <2>1, ReceivingQuiet DEF threads
<1> QED
  BY <1>3, <1>4 DEF RxCompleted

\* Nothing of a scan is left when its end is told.
LEMMA EndLeavesNone ==
  ASSUME Going, ctrl'.rx_cmd_on_going = ctrl.rx_cmd_on_going, NEW ok \in BOOLEAN,
         IF scan.callback THEN ScanCompleted(ok) ELSE UNCHANGED <<ctrl, sema, suspended, timer>>,
         ~Receiving, Measuring,
         Count' = 0, ToSet(modem') \cap RxOps \subseteq ToSet(modem), ToSet(ctrlQ') \subseteq ToSet(ctrlQ),
         "rx" \in ToSet(rxQ') => "rx" \in ToSet(rxQ), UNCHANGED threads
  PROVE  ScanInv'
<1>1. ~Receiving'
  BY DEF Receiving, threads
<1>2. ~ctrl'.rssi_scan_ongoing
  <2>1. CASE scan.callback
    BY <2>1, GoingLists DEF ScanCompleted, Going
  <2>2. CASE ~scan.callback
    BY <2>2 DEF Going, ScanInv
  <2> QED
    BY <2>1, <2>2
<1>3. ~ctrl'.rx_cmd_on_going
  BY <1>1 DEF Receiving
<1> QED
  BY <1>1, <1>2, <1>3, NoScanLeft

LEMMA FinishedScans ==
  ASSUME Going, CtrlReady', ctrlQ # <<>>, Head(ctrlQ) \in MeasureEnds, NEW ok \in BOOLEAN, Finished(ok),
         ctrlQ' = Tail(ctrlQ), UNCHANGED <<modem, threads>>
  PROVE  ScanInv'
<1> ctrl \in CtrlData
  BY GoingLists DEF Going
<1>1. /\ Count = 1 /\ ~timer /\ ~Receiving
      /\ ToSet(ctrlQ') \subseteq ToSet(ctrlQ) /\ ToSet(ctrlQ') \cap ScanSteps = {}
      /\ "measure" \notin ToSet(rxQ) /\ ToSet(modem) \cap Measures = {}
      /\ pc["shell"] # "suspend" /\ pc["ctrl"] # "suspend"
  BY HeadTaken, MessageKinds
<1>2. Measuring
  <2>1. Head(ctrlQ) \in ToSet(ctrlQ)
    BY QueueNone, GoingLists DEF Going
  <2> QED
    BY <2>1 DEF Measuring
<1>3. IsList(ctrlQ') /\ IsList(rxQ') /\ IsList(modem')
  BY GoingLater
<1>4. CASE ScanDone(ok)
  <2>1. rxQ' = rxQ
    BY <1>4 DEF ScanDone
  <2>2. Count' = 0
    BY <1>1, <1>3, <2>1, NoneCounted DEF threads
  <2>3. ctrl'.rx_cmd_on_going = ctrl.rx_cmd_on_going
    BY <1>4 DEF ScanDone, ScanCompleted
  <2> QED
    BY <1>1, <1>2, <1>4, <2>1, <2>2, <2>3, EndLeavesNone DEF ScanDone
<1>5. CASE /\ scan' = [scan EXCEPT !.channel = @ + 1, !.measured = FALSE]
           /\ \E added \in Added : AddRx("measure", added)
           /\ UNCHANGED <<ctrl, sema, suspended, timer>>
  <2>1. scan'.callback = scan.callback
    BY <1>5, GoingLists DEF Going
  <2>2. PICK added \in Added : AddRx("measure", added)
    BY <1>5
  <2>3. IsList(rxQ)
    BY GoingLists DEF Going
  <2>4. ToSet(rxQ') \subseteq ToSet(rxQ) \cup {"measure"} /\ (added => Number(rxQ', {"measure"}) = 1)
    <3>1. /\ ToSet(Append(rxQ, "measure")) = ToSet(rxQ) \cup {"measure"}
          /\ Number(Append(rxQ, "measure"), {"measure"}) = Number(rxQ, {"measure"}) + 1
      BY <2>3, ListAppend
    <3>2. Number(rxQ, {"measure"}) = 0
      BY <1>1, <2>3, ListNumber
    <3> QED
      BY <2>2, <3>1, <3>2 DEF AddRx
  <2>5. ~Receiving'
    BY <1>1, <1>5, <2>4 DEF Receiving, threads
  <2>6. ~ctrl'.rx_cmd_on_going
    BY <2>5 DEF Receiving
  <2>7. ToSet(modem') \cap Measurements = {} /\ ToSet(ctrlQ') \cap MeasuredEnds = {}
    BY <1>1, OpKinds, MessageKinds
  <2>8. ctrl'.rssi_scan_ongoing => scan'.callback /\ (ctrl'.rssi_scan_params.suspend => suspended')
    BY <1>2, <1>5, <2>1 DEF Going, ScanInv
  <2>9. CASE added
    <3>1. Count' = 1
      BY <1>1, <1>3, <2>4, <2>9, OneCounted DEF Count, threads
    <3> QED
      BY <1>1, <1>5, <2>5, <2>6, <2>7, <2>8, <3>1 DEF ScanInv
  <2>10. CASE ~added
    <3>1. rxQ' = rxQ /\ "queue" \in Exhausts
      BY <2>2, <2>10 DEF AddRx, Added
    <3>2. Count' = 0
      BY <1>1, <1>3, <3>1, NoneCounted DEF threads
    <3> QED
      BY <1>1, <1>5, <2>5, <2>6, <2>7, <2>8, <3>1, <3>2 DEF ScanInv
  <2> QED
    BY <2>9, <2>10
<1> QED
  BY <1>4, <1>5 DEF Finished

LEMMA TakeCompletedScans ==
  ASSUME Going, CtrlReady', ctrlQ # <<>>, TakeCompleted
  PROVE  ScanInv'
<1>1. Head(ctrlQ) \in Messages /\ Head(ctrlQ).id = "completed"
  BY QueueTypes, GoingLists DEF TakeCompleted, Going
<1>2. CASE Head(ctrlQ).op = "rx"
  <2>1. Head(ctrlQ) \in RxEnded /\ Head(ctrlQ).ok \in BOOLEAN /\ RxCompleted(Head(ctrlQ).ok)
    BY <1>1, <1>2, MessageSays DEF TakeCompleted
  <2> QED
    BY <2>1, RxCompletedScans
<1>3. CASE Head(ctrlQ).op # "rx"
  <2>1. /\ Head(ctrlQ) \in MeasureEnds /\ Head(ctrlQ).ok \in BOOLEAN /\ Finished(Head(ctrlQ).ok)
        /\ ctrlQ' = Tail(ctrlQ) /\ UNCHANGED <<modem, threads>>
    BY <1>1, <1>3, MessageSays DEF TakeCompleted
  <2> QED
    BY <2>1, FinishedScans
<1> QED
  BY <1>2, <1>3

LEMMA TakeRssiOnRxScans ==
  ASSUME Going, CtrlReady', ctrlQ # <<>>, TakeRssiOnRx
  PROVE  ScanInv'
<1> ctrl \in CtrlData
  BY GoingLists DEF Going
<1>1. /\ Head(ctrlQ) \in Messages /\ Head(ctrlQ).id = "rssi_on_rx" /\ ctrlQ' = Tail(ctrlQ)
      /\ UNCHANGED <<modem, threads>>
  BY QueueTypes, GoingLists DEF TakeRssiOnRx, Going
<1>2. /\ ToSet(ctrlQ') \subseteq ToSet(ctrlQ) /\ Number(ctrlQ, ScanSteps) \in Nat
      /\ Number(ctrlQ', ScanSteps) = Number(ctrlQ, ScanSteps)
  <2>1. IsList(Tail(ctrlQ)) /\ ToSet(ctrlQ) = {Head(ctrlQ)} \cup ToSet(Tail(ctrlQ))
        /\ Number(ctrlQ, ScanSteps) = Number(Tail(ctrlQ), ScanSteps) + IF Head(ctrlQ) \in ScanSteps THEN 1 ELSE 0
    BY ListTail, GoingLists DEF Going
  <2>2. Head(ctrlQ) \notin ScanSteps
    BY <1>1, MessageSays
  <2>3. Number(Tail(ctrlQ), ScanSteps) \in Nat
    BY <2>1, ListNumber
  <2> QED
    BY <1>1, <2>1, <2>2, <2>3
<1>3. CASE ctrl.rx_cmd_on_going \/ ext.running
  <2>1. Receiving /\ ~scan.on_going
    BY <1>3 DEF Receiving, Going, CtrlReady, ScanInv
  <2>2. Count = 0 /\ ~ctrl.rssi_scan_ongoing /\ ~Repeats
    BY <2>1 DEF Going, ScanInv
  <2>3. /\ scan' = Cleared /\ rxQ' = rxQ
        /\ ScanCompleted(TRUE) \/ UNCHANGED <<ctrl, sema, suspended, timer>>
    BY <1>3, <2>1 DEF TakeRssiOnRx, MoreChannels
  <2>4. ~ctrl'.rssi_scan_ongoing /\ ~Repeats'
    BY <2>2, <2>3 DEF ScanCompleted, Repeats
  <2>5. ~scan'.on_going
    BY <2>3 DEF Cleared
  <2> QED
    BY <1>1, <1>2, <2>2, <2>3, <2>4, <2>5, QuietStays DEF Going, threads
<1>4. CASE UNCHANGED <<ctrl, scan, sema, suspended, timer, rxQ>>
  <2>1. Count' = Count
    BY <1>1, <1>2, <1>4 DEF Count, Steps, threads
  <2>2. (Receiving' => Receiving) /\ (Measuring' => Measuring) /\ Repeats' = Repeats
    BY <1>1, <1>2, <1>4 DEF Receiving, Measuring, threads, Repeats
  <2>3. ScanInv
    BY DEF Going
  <2>4. ToSet(ctrlQ') \cap MeasuredEnds \subseteq ToSet(ctrlQ) \cap MeasuredEnds
    BY <1>2
  <2> QED
    BY <1>1, <1>4, <2>1, <2>2, <2>3, <2>4 DEF ScanInv
<1> QED
  BY <1>3, <1>4 DEF TakeRssiOnRx

LEMMA CtrlReclaimsScans ==
  ASSUME Going, CtrlReady', CtrlReclaims
  PROVE  ScanInv'
<1>1. pc["ctrl"] = "tool" /\ pc'["ctrl"] = "idle" /\ pc'["shell"] = pc["shell"]
      /\ UNCHANGED <<ctrl, scan, timer, ctrlQ, rxQ, modem>>
  BY GoesOnType, GoingLists DEF CtrlReclaims, Going
<1>2. Lent
  BY <1>1 DEF Going, Lending, ToolAbout
<1>3. rxQ = <<>> /\ modem = <<>> /\ ctrlQ = <<>> /\ ~ctrl.rssi_scan_ongoing /\ ~Repeats
      /\ ~ctrl.rx_cmd_on_going /\ pc["shell"] # "suspend"
  BY <1>1, <1>2 DEF Lent
<1>4. ToSet(rxQ) = {} /\ ToSet(modem) = {} /\ ToSet(ctrlQ) = {}
  BY <1>3, HoldsEmpty
<1>5. Count = 0
  BY <1>1, <1>3, <1>4, StepsNone, GoingLists DEF Count, Going
<1> QED
  BY <1>1, <1>3, <1>4, <1>5, QuietStays DEF Going, Repeats

--------------------------------------------------------------------------------
(* A scan has one step under way: the RX thread and the modem.             *)

LEMMA RxThreadScans ==
  ASSUME Going, CtrlReady', RxThread
  PROVE  ScanInv'
<1> ctrl \in CtrlData
  BY GoingLists DEF Going
<1>1. /\ rxQ # <<>> /\ rxQ' = Tail(rxQ) /\ Head(rxQ) \in {"measure", "rx"}
      /\ UNCHANGED <<ctrlQ, threads, users>>
  BY QueueTypes, GoingLists DEF RxThread, Going
<1>2. /\ IsList(Tail(rxQ)) /\ ToSet(rxQ) = {Head(rxQ)} \cup ToSet(Tail(rxQ))
      /\ Number(rxQ, {"measure"}) = Number(Tail(rxQ), {"measure"})
                                      + IF Head(rxQ) \in {"measure"} THEN 1 ELSE 0
  BY <1>1, ListTail, GoingLists DEF Going
<1>3. IsList(ctrlQ') /\ IsList(rxQ') /\ IsList(modem') /\ IsList(modem)
  BY GoingLater, GoingLists DEF Going
<1>4. CASE Head(rxQ) = "rx"
  <2>1. UNCHANGED <<ctrl, scan, sema, timer, suspended>>
        /\ modem' \in {modem, Append(modem, [op |-> "rx", measured |-> FALSE])}
    BY <1>4 DEF RxThread
  <2>2. PICK op : op = [op |-> "rx", measured |-> FALSE]
    OBVIOUS
  <2>3. op \notin Measures
    BY <2>2 DEF Measures
  <2>6. ToSet(modem') \subseteq ToSet(modem) \cup {op}
    <3>1. modem' \in {modem, Append(modem, op)}
      BY <2>1, <2>2
    <3> QED
      BY <1>3, <3>1, ListAppend
  <2>4. Receiving /\ ScanKept
    BY <1>2, <1>4, <2>1 DEF Receiving, ScanKept
  <2>5. ctrl'.rx_cmd_on_going => ~scan'.on_going
    BY <2>1 DEF Going, ScanInv
  <2> QED
    BY <1>1, <1>2, <2>3, <2>4, <2>5, <2>6, ReceivingQuiet DEF threads
<1>5. CASE Head(rxQ) = "measure"
  <2>1. /\ Count = 1 /\ Number(rxQ, {"measure"}) = 1 /\ Measuring
        /\ ToSet(ctrlQ) \cap ScanSteps = {} /\ ToSet(modem) \cap Measures = {}
        /\ pc["shell"] # "suspend" /\ pc["ctrl"] # "suspend"
    BY <1>2, <1>5, OnePlaceOnly, GoingLists DEF Going, ScanInv, Measuring
  <2>2. ~timer /\ ~Receiving
    BY <2>1 DEF Going, ScanInv
  <2>3. "measure" \notin ToSet(rxQ') /\ ("rx" \in ToSet(rxQ') => "rx" \in ToSet(rxQ))
    <3>1. Number(Tail(rxQ), {"measure"}) \in Nat
          /\ (Number(Tail(rxQ), {"measure"}) = 0 <=> ToSet(Tail(rxQ)) \cap {"measure"} = {})
      BY <1>2, ListNumber
    <3>2. Number(Tail(rxQ), {"measure"}) = 0
      BY <1>2, <1>5, <2>1, <3>1
    <3> QED
      BY <1>1, <1>2, <3>1, <3>2
  <2>4. CASE modem' = Append(modem, [op |-> Head(rxQ), measured |-> FALSE])
             /\ UNCHANGED <<ctrl, scan, sema, timer, suspended>>
    <3>1. PICK op : op = [op |-> Head(rxQ), measured |-> FALSE]
      OBVIOUS
    <3>2. op \in Measures /\ op \notin Measurements /\ op \notin RxOps
      BY <1>5, <3>1 DEF Measures, Measurements, RxOps
    <3>3. /\ ToSet(modem') = ToSet(modem) \cup {op}
          /\ Number(modem', Measures) = Number(modem, Measures) + 1
      <4>1. modem' = Append(modem, op)
        BY <2>4, <3>1
      <4> QED
        BY <1>3, <3>2, <4>1, ListAppend
    <3>4. Number(modem', Measures) = 1
      BY <1>3, <2>1, <3>3, ListNumber
    <3>5. Count' = 1
      BY <1>1, <1>3, <2>1, <2>3, <3>4, OneCounted DEF Count, threads
    <3>6. ~Receiving'
      BY <1>1, <2>2, <2>3, <2>4, <3>2, <3>3 DEF Receiving, threads
    <3>7. ~ctrl'.rx_cmd_on_going
      BY <3>6 DEF Receiving
    <3>8. ToSet(modem') \cap Measurements = {} /\ ToSet(ctrlQ') \cap MeasuredEnds = {}
      BY <1>1, <2>1, <3>2, <3>3, OpKinds, MessageKinds
    <3>9. ctrl'.rssi_scan_ongoing => scan'.callback /\ (ctrl'.rssi_scan_params.suspend => suspended')
      BY <2>1, <2>4 DEF Going, ScanInv
    <3>10. ~timer'
      BY <2>2, <2>4
    <3> QED
      BY <3>5, <3>6, <3>7, <3>8, <3>9, <3>10 DEF ScanInv
  <2>5. CASE /\ IF scan.callback THEN ScanCompleted(FALSE) ELSE UNCHANGED <<ctrl, sema, suspended, timer>>
             /\ UNCHANGED modem
    <3>1. Count' = 0
      BY <1>1, <1>3, <2>1, <2>3, <2>5, NoneCounted DEF threads
    <3>2. ctrl'.rx_cmd_on_going = ctrl.rx_cmd_on_going
      BY <2>5 DEF ScanCompleted
    <3> QED
      BY <1>1, <2>1, <2>2, <2>3, <2>5, <3>1, <3>2, EndLeavesNone
  <2> QED
    BY <1>5, <2>4, <2>5 DEF RxThread
<1> QED
  BY <1>1, <1>4, <1>5

\* A measurement makes no step of a scan, and is one of the scan that goes on.
LEMMA MeasureScans ==
  ASSUME Going, CtrlReady', NEW i \in DOMAIN modem, Measure(i)
  PROVE  ScanInv'
<1>1. PICK op : op = [modem[i] EXCEPT !.measured = TRUE]
  OBVIOUS
<1>2. modem[i] \in RadioOps /\ modem[i] \in ToSet(modem)
  BY HoldsType, GoingLists DEF Going, Lists, ToSet
<1>3. op \in RadioOps /\ op.op = modem[i].op
  BY <1>1, <1>2 DEF RadioOps
<1>4. (modem[i] \in Measures <=> op \in Measures) /\ (modem[i] \in RxOps <=> op \in RxOps)
  BY <1>2, <1>3, OpKinds
<1>5. /\ modem' = [modem EXCEPT ![i] = op] /\ DOMAIN modem' = DOMAIN modem
      /\ modem' = [j \in DOMAIN modem |-> modem'[j]] /\ modem'[i] = op
      /\ \A j \in DOMAIN modem : j # i => modem'[j] = modem[j]
  <2>1. modem' = [modem EXCEPT ![i] = op]
    BY <1>1 DEF Measure
  <2>2. modem = [j \in DOMAIN modem |-> modem[j]]
    BY LenProperties, GoingLists DEF Going, Lists
  <2> QED
    BY <2>1, <2>2
<1>6. IsList(modem) /\ IsList(ctrlQ)
  BY GoingLists DEF Going
<1>7. ToSet(modem') \subseteq ToSet(modem) \cup {op} /\ Number(modem', Measures) = Number(modem, Measures)
  BY <1>4, <1>5, <1>6, ListReplaced
<1>8. /\ ToSet(ctrlQ') \subseteq ToSet(ctrlQ) \cup {Msg("rssi_on_rx")}
      /\ Number(ctrlQ', ScanSteps) = Number(ctrlQ, ScanSteps)
  <2>1. ctrlQ' \in {ctrlQ, Append(ctrlQ, Msg("rssi_on_rx"))}
    BY DEF Measure
  <2>2. Number(ctrlQ, ScanSteps) \in Nat
    BY <1>6, ListNumber
  <2>3. PICK m : m = Msg("rssi_on_rx")
    OBVIOUS
  <2>4. m \notin ScanSteps
    BY <2>3, MessageKinds
  <2>5. ToSet(Append(ctrlQ, m)) = ToSet(ctrlQ) \cup {m}
        /\ Number(Append(ctrlQ, m), ScanSteps) = Number(ctrlQ, ScanSteps)
    BY <1>6, <2>2, <2>4, ListAppend
  <2>6. CASE ctrlQ' = ctrlQ
    BY <2>6
  <2>7. CASE ctrlQ' = Append(ctrlQ, m)
    BY <2>3, <2>5, <2>7
  <2> QED
    BY <2>1, <2>3, <2>6, <2>7
<1>9. UNCHANGED <<ctrl, timer, suspended, rxQ, threads>> /\ scan'.callback = scan.callback
      /\ scan'.on_going = scan.on_going
  BY GoingLists DEF Measure, Going
<1>10. Count' = Count
  BY <1>7, <1>8, <1>9 DEF Count, Steps, threads
<1>11. (Receiving' => Receiving) /\ Repeats' = Repeats
  BY <1>2, <1>4, <1>7, <1>8, <1>9, MessageKinds DEF Receiving, Repeats, threads
<1>12. Measuring' => Measuring
  <2>1. Msg("rssi_on_rx") \notin MeasureEnds
    BY MessageKinds
  <2> QED
    BY <1>2, <1>4, <1>7, <1>8, <1>9, <2>1 DEF Measuring
<1>13. ctrl'.rssi_scan_ongoing => scan'.measured
  <2>1. SUFFICES ASSUME ctrl.rssi_scan_ongoing PROVE scan'.measured
    BY <1>9
  <2>2. handler = "ctrl" /\ ScanMeasures
    BY <2>1, RadioIsControls DEF ScanMeasures
  <2> QED
    BY <2>2, GoingLists DEF Measure, Going
<1> QED
  BY <1>9, <1>10, <1>11, <1>12, <1>13 DEF Going, ScanInv

LEMMA CompleteScans ==
  ASSUME Going, CtrlReady', NEW i \in DOMAIN modem, NEW ok \in BOOLEAN, Complete(i, ok)
  PROVE  ScanInv'
<1>1. /\ modem[i] \in RadioOps /\ modem[i] \in ToSet(modem) /\ modem # <<>>
      /\ IsList(modem) /\ IsList(ctrlQ) /\ IsList(rxQ)
  BY HoldsType, GoingLists DEF Going, Lists, ToSet
<1>2. UNCHANGED <<ctrl, scan, timer, suspended, rxQ, threads>> /\ modem' = RemoveAt(modem, i)
      /\ (ok => modem[i].op = "rx" \/ modem[i].measured)
  BY DEF Complete
<1>3. ToSet(modem) = {modem[i]} \cup ToSet(modem')
      /\ Number(modem, Measures) = Number(modem', Measures) + IF modem[i] \in Measures THEN 1 ELSE 0
  BY <1>1, <1>2, ListRemove
<1>4. ctrlQ' = Append(ctrlQ, Completed(modem[i], ok))
  <2>1. handler = "ctrl"
    BY <1>1, RadioIsControls
  <2>2. PICK ops : ops = <<modem[i]>>
    OBVIOUS
  <2>3. DOMAIN ops = {1} /\ ops[1] = modem[i]
    BY <2>2
  <2>4. Ended(ops, ok) = [j \in {1} |-> Completed(modem[i], ok)]
    BY <2>1, <2>3 DEF Ended
  <2>5. PICK m : m = Completed(modem[i], ok)
    OBVIOUS
  <2>6. [j \in {1} |-> m] = <<m>>
    OBVIOUS
  <2>7. ctrlQ' = ctrlQ \o <<m>>
    BY <2>2, <2>4, <2>5, <2>6 DEF Complete
  <2>8. ctrlQ \in Seq(Messages)
    BY GoingLists DEF Going, Lists
  <2>9. ctrlQ \o <<m>> = Append(ctrlQ, m)
    BY <2>8
  <2> QED
    BY <2>5, <2>7, <2>9
<1>5. /\ ToSet(ctrlQ') = ToSet(ctrlQ) \cup {Completed(modem[i], ok)}
      /\ Number(ctrlQ', ScanSteps) = Number(ctrlQ, ScanSteps)
                                       + IF Completed(modem[i], ok) \in ScanSteps THEN 1 ELSE 0
  BY <1>1, <1>4, ListAppend
<1>6. CASE modem[i] \in RxOps
  <2>1. Completed(modem[i], ok) \notin ScanSteps
    BY <1>6, MessageKinds
  <2>2. Receiving /\ ScanKept
    BY <1>1, <1>2, <1>6 DEF Receiving, ScanKept
  <2>3. ctrl'.rx_cmd_on_going => ~scan'.on_going
    BY <1>2 DEF Going, ScanInv
  <2> QED
    BY <1>2, <1>3, <1>5, <2>1, <2>2, <2>3, ReceivingQuiet DEF threads
<1>7. CASE modem[i] \in Measures
  <2>1. /\ Count = 1 /\ Number(modem, Measures) = 1 /\ Measuring
        /\ ToSet(ctrlQ) \cap ScanSteps = {} /\ "measure" \notin ToSet(rxQ)
        /\ pc["shell"] # "suspend" /\ pc["ctrl"] # "suspend"
    BY <1>1, <1>7, OnePlaceOnly, GoingLists DEF Going, ScanInv, Measuring
  <2>2. ~timer /\ ~Receiving
    BY <2>1 DEF Going, ScanInv
  <2>3. /\ Completed(modem[i], ok) \in ScanSteps /\ Completed(modem[i], ok) \notin RxEnded
        /\ (Completed(modem[i], ok) \in MeasuredEnds => modem[i] \in Measurements)
    <3>1. Completed(modem[i], ok) \in MeasureEnds /\ (Completed(modem[i], ok) \in MeasuredEnds <=> ok)
      BY <1>7, MessageKinds
    <3>2. modem[i].op = "measure"
      BY <1>1, <1>7, OpKinds
    <3>3. ok => modem[i] \in Measurements
      BY <1>1, <1>2, <3>2, OpKinds
    <3> QED
      BY <3>1, <3>3, MessageKinds
  <2>4. IsList(ctrlQ') /\ IsList(modem') /\ IsList(rxQ')
    BY GoingLater
  <2>5. Number(ctrlQ', ScanSteps) = 1
    BY <1>1, <1>5, <2>1, <2>3, ListNumber
  <2>6. ToSet(modem') \cap Measures = {}
    <3>1. Number(modem', Measures) \in Nat /\ (Number(modem', Measures) = 0 <=> ToSet(modem') \cap Measures = {})
      BY <2>4, ListNumber
    <3>2. Number(modem', Measures) = 0
      BY <1>3, <1>7, <2>1, <3>1
    <3> QED
      BY <3>1, <3>2
  <2>7. Count' = 1
    BY <1>2, <2>1, <2>4, <2>5, <2>6, OneCounted DEF Count, threads
  <2>8. ~Receiving'
    BY <1>2, <1>3, <1>5, <2>2, <2>3 DEF Receiving, threads
  <2>9. ~ctrl'.rx_cmd_on_going
    BY <2>8 DEF Receiving
  <2>10. ctrl'.rssi_scan_ongoing => scan'.callback /\ (ctrl'.rssi_scan_params.suspend => suspended')
    BY <1>2, <2>1 DEF Going, ScanInv
  <2>11. ToSet(modem') \cap Measurements = {}
    BY <2>6, OpKinds
  <2>12. ctrl'.rssi_scan_ongoing /\ ToSet(ctrlQ') \cap MeasuredEnds # {} => scan'.measured
    <3>1. SUFFICES ASSUME ctrl'.rssi_scan_ongoing, ToSet(ctrlQ') \cap MeasuredEnds # {}
                   PROVE  scan'.measured
      OBVIOUS
    <3>2. Completed(modem[i], ok) \in MeasuredEnds
      BY <1>5, <2>1, <3>1, MessageKinds
    <3>3. ToSet(modem) \cap Measurements # {}
      BY <1>1, <2>3, <3>2
    <3> QED
      BY <1>2, <3>1, <3>3 DEF Going, ScanInv
  <2> QED
    BY <1>2, <2>2, <2>7, <2>8, <2>9, <2>10, <2>11, <2>12 DEF ScanInv
<1> QED
  BY <1>1, <1>6, <1>7, OpKinds

--------------------------------------------------------------------------------
(* A scan has one step under way: the whole.                               *)

\* Every step of PHY control. Steps of the tools have no scan to leave.
LEMMA GoingStep ==
  ASSUME Going, [Next]_vars
  PROVE  Going'
<1>1. CtrlReady' /\ Lending'
  BY CtrlStep, LendingStep DEF Going
<1> SUFFICES ScanInv'
  BY <1>1 DEF Going
<1>2. CASE ControlThread
  <2>1. CASE CtrlReclaims
    BY <1>1, <2>1, CtrlReclaimsScans
  <2>2. CASE CtrlSuspends \/ CtrlRestarts
    BY <1>1, <2>2, CtrlSuspendsScans, CtrlRestartsScans
  <2>3. CASE pc["ctrl"] = "idle" /\ ctrlQ # <<>> /\ (TakeRun \/ TakeCompleted \/ TakeRssiOnRx)
    BY <1>1, <2>3, TakeRunScans, TakeCompletedScans, TakeRssiOnRxScans
  <2>4. CASE TakeDone
    <3>1. pc'["ctrl"] = "tool"
      BY <2>4, WaitsType, GoingLists DEF TakeDone, Going
    <3> QED
      BY <1>1, <3>1, ToolScans DEF ToolAbout
  <2> QED
    BY <1>2, <2>1, <2>2, <2>3, <2>4 DEF ControlThread
<1>3. CASE Shell
  <2>1. ASSUME NEW params \in Scans, Command, Alone, Reclaimed, StartScan("shell", params)
        PROVE  ScanInv'
    BY <1>1, <2>1, StartScanScans
  <2>2. ASSUME NEW params \in Receptions, Command, Alone, Reclaimed, ~ctrl.rssi_scan_ongoing, StartRx(params)
        PROVE  ScanInv'
    BY <1>1, <2>2, StartRxScans
  <2>3. ASSUME NEW tool \in Tools, StartTool(tool)
        PROVE  ScanInv'
    <3>1. pc'["shell"] = tool
      BY <2>3, WaitsType, GoingLists DEF StartTool, Going
    <3> QED
      BY <1>1, <3>1, ToolScans DEF ToolAbout
  <2>4. CASE StopScan /\ UNCHANGED threads
    BY <2>4, StopScanScans
  <2>5. CASE ctrl.rx_cmd_on_going /\ StopRx
    BY <1>1, <2>5, StopRxScans
  <2> QED
    BY <1>3, <2>1, <2>2, <2>3, <2>4, <2>5 DEF Shell
<1>4. CASE ShellGoesOn
  <2>1. CASE ToolStarts
    <3>1. pc["shell"] \in Tools /\ ctrl'.tools = ctrl.tools \cup {pc["shell"]}
      BY <2>1, GoingLists DEF ToolStarts, Going
    <3>2. ctrl'.tools # {}
      BY <3>1
    <3> QED
      BY <1>1, <3>2, ToolScans DEF ToolAbout
  <2>2. CASE ScanSuspends("shell", "idle")
    BY <2>2, ScanSuspendsScans
  <2>3. CASE RxSuspends
    BY <1>1, <2>3, RxSuspendsScans
  <2> QED
    BY <1>4, <2>1, <2>2, <2>3 DEF ShellGoesOn
<1>5. CASE RxThread \/ TimerFires
  BY <1>1, <1>5, RxThreadScans, TimerFiresScans
<1>6. CASE ToolEnds
  <2>1. handler' # "ctrl"
    BY <1>6 DEF ToolEnds
  <2> QED
    BY <1>1, <2>1, ToolScans DEF ToolAbout
<1>7. CASE Modem
  BY <1>1, <1>7, MeasureScans, CompleteScans DEF Modem
<1>8. CASE UNCHANGED vars
  BY <1>8 DEF vars, Going, ScanInv, Count, Receiving, Measuring, Repeats
<1> QED
  BY <1>1, <1>2, <1>3, <1>4, <1>5, <1>6, <1>7, <1>8 DEF Next

LEMMA GoingStarts ==
  ASSUME PhyCtrlAssumption, Init
  PROVE  Going
<1>1. CtrlReady /\ Lending
  BY CtrlStarts, LendingStarts
<1>2. ctrlQ = <<>> /\ rxQ = <<>> /\ modem = <<>>
  BY DEF Init
<1>3. ToSet(ctrlQ) = {} /\ ToSet(rxQ) = {} /\ ToSet(modem) = {}
  BY <1>2, HoldsEmpty
<1>4. pc["shell"] = "idle" /\ pc["ctrl"] = "idle" /\ ~timer
      /\ ~ctrl.rssi_scan_ongoing /\ ~ctrl.rx_cmd_on_going
  BY DEF Init
<1>5. Count = 0
  BY <1>1, <1>3, <1>4, StepsNone, GoingLists DEF Count
<1>6. ~Receiving
  BY <1>3, <1>4 DEF Receiving
<1>7. ScanInv
  BY <1>4, <1>5, <1>6 DEF ScanInv
<1> QED
  BY <1>1, <1>7 DEF Going

\* UnderWay is what is counted: the work queue starts no scans of its own.
LEMMA UnderWayCounts ==
  ASSUME CtrlReady, Count <= 1
  PROVE  UnderWay = Count
<1>1. {i \in DOMAIN ctrlQ : ctrlQ[i].id = "run" \/ (ctrlQ[i].id = "completed" /\ ctrlQ[i].op = "measure")}
        = PlacesOf(ctrlQ, ScanSteps)
  <2>1. \A i \in DOMAIN ctrlQ : ctrlQ[i] \in Messages
    BY HoldsType, GoingLists DEF Lists, ToSet
  <2>2. \A i \in DOMAIN ctrlQ : ctrlQ[i] \in ScanSteps
          <=> ctrlQ[i].id = "run" \/ (ctrlQ[i].id = "completed" /\ ctrlQ[i].op = "measure")
    BY <2>1, MessageSays
  <2> QED
    BY <2>2 DEF PlacesOf
<1>2. {i \in DOMAIN rxQ : rxQ[i] = "measure"} = PlacesOf(rxQ, {"measure"})
  BY DEF PlacesOf
<1>3. {i \in DOMAIN modem : modem[i].op = "measure"} = PlacesOf(modem, Measures)
  <2>1. \A i \in DOMAIN modem : modem[i] \in RadioOps
    BY HoldsType, GoingLists DEF Lists, ToSet
  <2>2. \A i \in DOMAIN modem : modem[i] \in Measures <=> modem[i].op = "measure"
    BY <2>1, OpKinds
  <2> QED
    BY <2>2 DEF PlacesOf
<1>4. Cardinality({t \in DOMAIN pc : pc[t] = "suspend"}) = Suspending(pc)
  <2>1. DOMAIN pc = {"shell", "work", "ctrl"} /\ pc["work"] # "suspend"
    BY DEF CtrlReady, Ready, Typed, Labels
  <2>2. ~(pc["shell"] = "suspend" /\ pc["ctrl"] = "suspend")
    BY OnePlaceOnly, GoingLists
  <2>3. CASE pc["shell"] = "suspend"
    <3>1. {t \in DOMAIN pc : pc[t] = "suspend"} = {"shell"}
      BY <2>1, <2>2, <2>3
    <3>2. Suspending(pc) = 1
      BY <2>2, <2>3 DEF Suspending
    <3> QED
      BY <3>1, <3>2, FS_Singleton
  <2>4. CASE pc["ctrl"] = "suspend"
    <3>1. {t \in DOMAIN pc : pc[t] = "suspend"} = {"ctrl"}
      BY <2>1, <2>2, <2>4
    <3>2. Suspending(pc) = 1
      BY <2>2, <2>4 DEF Suspending
    <3> QED
      BY <3>1, <3>2, FS_Singleton
  <2>5. CASE pc["shell"] # "suspend" /\ pc["ctrl"] # "suspend"
    <3>1. {t \in DOMAIN pc : pc[t] = "suspend"} = {}
      BY <2>1, <2>5
    <3> QED
      BY <2>5, <3>1, FS_EmptySet DEF Suspending
  <2> QED
    BY <2>3, <2>4, <2>5
<1> QED
  BY <1>1, <1>2, <1>3, <1>4 DEF UnderWay, Count, Steps, Number

\* Where the RX thread always has room for a message, a scan has one step under way,
\* never two, and the scheduler is suspended under a forced one.
THEOREM ScanHasOneStep == ASSUME "queue" \notin Exhausts PROVE Spec => []OneStep
<1>1. Init => Going
  BY GoingStarts, PhyCtrlAssumption
<1>2. Going /\ [Next]_vars => Going'
  BY GoingStep
<1>3. Going => OneStep
  <2> SUFFICES ASSUME Going PROVE OneStep
    OBVIOUS
  <2>1. UnderWay = Count
    BY UnderWayCounts DEF Going, ScanInv
  <2>2. ASSUME NEW i \in DOMAIN modem, modem[i].op = "measure"
        PROVE  Measuring
    <3>1. modem[i] \in ToSet(modem) /\ modem[i] \in RadioOps
      BY HoldsType, GoingLists DEF Lists, ToSet, Going
    <3> QED
      BY <2>2, <3>1, OpKinds DEF Measuring
  <2> QED
    BY <2>1, <2>2 DEF OneStep, Going, ScanInv
<1> QED
  BY <1>1, <1>2, <1>3, PTL DEF Spec

\* The verdict of a scan that goes on is of measurements of its channel.
THEOREM VerdictsHaveData == Spec => VerdictHasData
<1>1. Init => Going
  BY GoingStarts, PhyCtrlAssumption
<1>2. Going /\ [Next]_vars => Going'
  BY GoingStep
<1>3. Going => (VerdictStep /\ ctrl.rssi_scan_ongoing => scan.measured)
  <2> SUFFICES ASSUME Going, VerdictStep, ctrl.rssi_scan_ongoing PROVE scan.measured
    OBVIOUS
  <2>1. Completed([op |-> "measure"], TRUE) \in MeasuredEnds
    BY DEF Completed, MeasuredEnds
  <2>2. Head(ctrlQ) \in ToSet(ctrlQ) /\ Head(ctrlQ) \in MeasuredEnds
    BY <2>1, QueueNone, GoingLists DEF VerdictStep, Going
  <2> QED
    BY <2>2 DEF Going, ScanInv
<1> QED
  BY <1>1, <1>2, <1>3, PTL DEF Spec, VerdictHasData

--------------------------------------------------------------------------------
(* Common RX: the table of handles and channels.                           *)

RxTypeOK ==
  /\ table \in [Indexes -> [handle : Handles \cup {0}, channel : RingChannels \cup {0}]]
  /\ next \in 0 .. Places
  /\ latest \in [Handles -> RingChannels \cup {0}]
  /\ \/ store = NoStore
     \/ store \in [step : {"found", "named"}, handle : Handles, channel : RingChannels,
                   at : Indexes, new : BOOLEAN]

\* A handle has one place.
OnePlace ==
  \A i, j \in Indexes : table[i].handle = table[j].handle /\ table[i].handle # 0 => i = j

\* Where a store goes, and that nothing else has its handle.
StoreOK ==
  store.step # "none" =>
    /\ \A i \in Indexes : Has(i, store.handle) => i = store.at
    /\ store.step = "named" \/ ~store.new => Has(store.at, store.handle)
    /\ store.new => store.at = next
    /\ next < Places

\* The place of a handle holds the channel of its latest RX, but for the place that is
\* being filled.
Right ==
  \A i \in Indexes :
    table[i].handle # 0 /\ ~(store.step = "named" /\ store.at = i) =>
      table[i].channel = latest[table[i].handle]

RxInv == RxTypeOK /\ OnePlace /\ StoreOK /\ Right

LEMMA RxInitially ==
  ASSUME Sizes, Given
  PROVE  RxInit => RxInv
<1> SUFFICES ASSUME RxInit PROVE RxInv
  OBVIOUS
<1>1. \A i \in Indexes : table[i] = [handle |-> 0, channel |-> 0]
  BY DEF RxInit
<1> QED
  BY <1>1 DEF Sizes, RxInit, RxInv, RxTypeOK, OnePlace, StoreOK, Right, NoStore, Step

\* The search leaves the table alone and finds the place of the handle, or the next one.
LEMMA SearchKeeps ==
  ASSUME Sizes, Given, RxInv, NEW h \in Handles, NEW c \in RingChannels, Search(h, c)
  PROVE  RxInv'
<1> USE DEF RxInv
<1>1. /\ table' = table /\ latest' = latest /\ next' = Wrapped
      /\ Wrapped \in Indexes /\ Wrapped \in 0 .. Places /\ Wrapped < Places
  BY DEF Search, Sizes, RxTypeOK, Wrapped, Indexes
<1>2. PICK i \in Indexes, new \in BOOLEAN :
        /\ store' = Step("found", h, c, i, new)
        /\ \A j \in Indexes : Has(j, h) => j = i
        /\ ~new => Has(i, h)
        /\ new => i = Wrapped
  <2>1. CASE \E i \in Indexes : First(i, h) /\ store' = Step("found", h, c, i, FALSE)
    <3>1. PICK i \in Indexes : First(i, h) /\ store' = Step("found", h, c, i, FALSE)
      BY <2>1
    <3>2. h # 0
      BY DEF Given
    <3>3. \A j \in Indexes : Has(j, h) => j = i
      BY <3>1, <3>2 DEF First, Has, OnePlace
    <3> QED
      BY <3>1, <3>3 DEF First
  <2>2. CASE /\ \A i \in Indexes : ~Has(i, h)
             /\ store' = Step("found", h, c, Wrapped, TRUE)
    BY <1>1, <2>2
  <2> QED
    BY <2>1, <2>2 DEF Search
<1>3. RxTypeOK'
  BY <1>1, <1>2 DEF RxTypeOK, Step
<1>4. OnePlace' /\ StoreOK'
  BY <1>1, <1>2 DEF OnePlace, StoreOK, Step, Has
<1>5. Right'
  <2>1. store.step = "none" /\ store'.step = "found"
    BY <1>2 DEF Search, Step
  <2> QED
    BY <1>1, <2>1 DEF Right
<1> QED
  BY <1>3, <1>4, <1>5

\* What is known while a store is under way.
LEMMA StoreTyped ==
  ASSUME RxInv, store.step # "none"
  PROVE  /\ store \in [step : {"found", "named"}, handle : Handles, channel : RingChannels,
                       at : Indexes, new : BOOLEAN]
         /\ store.handle \in Handles /\ store.channel \in RingChannels /\ store.at \in Indexes
BY DEF RxInv, RxTypeOK, NoStore, Step

\* Writing the handle takes the place from the handle that had it.
LEMMA SetHandleKeeps ==
  ASSUME Sizes, Given, RxInv, SetHandle
  PROVE  RxInv'
<1> DEFINE at == store.at
<1> DEFINE h == store.handle
<1>1. /\ store \in [step : {"found", "named"}, handle : Handles, channel : RingChannels,
                    at : Indexes, new : BOOLEAN]
      /\ h \in Handles /\ at \in Indexes /\ h # 0 /\ store.step = "found"
  BY StoreTyped DEF SetHandle, Given
<1>2. /\ table \in [Indexes -> [handle : Handles \cup {0}, channel : RingChannels \cup {0}]]
      /\ OnePlace /\ StoreOK /\ Right
  BY DEF RxInv, RxTypeOK
<1>3. /\ table'[at] = [table[at] EXCEPT !.handle = h]
      /\ \A i \in Indexes \ {at} : table'[i] = table[i]
      /\ table' \in [Indexes -> [handle : Handles \cup {0}, channel : RingChannels \cup {0}]]
  BY <1>1, <1>2 DEF SetHandle
<1>4. table'[at].handle = h /\ table'[at].channel = table[at].channel
  BY <1>1, <1>2, <1>3
<1>5. /\ store' = [store EXCEPT !.step = "named"]
      /\ next' = next /\ latest' = latest
  BY DEF SetHandle
<1>6. /\ store'.step = "named" /\ store'.at = at /\ store'.handle = h /\ store'.new = store.new
      /\ store' \in [step : {"found", "named"}, handle : Handles, channel : RingChannels,
                     at : Indexes, new : BOOLEAN]
  BY <1>1, <1>5
<1>7. \A i \in Indexes \ {at} : table[i].handle # h
  BY <1>1, <1>2 DEF StoreOK, Has
<1> HIDE DEF at, h
<1>8. RxTypeOK'
  BY <1>3, <1>5, <1>6 DEF RxInv, RxTypeOK
<1>9. OnePlace'
  BY <1>2, <1>3, <1>4, <1>7 DEF OnePlace
<1>10. StoreOK'
  BY <1>1, <1>2, <1>3, <1>4, <1>5, <1>6, <1>7 DEF StoreOK, Has, at
<1>11. Right'
  BY <1>1, <1>2, <1>3, <1>5, <1>6 DEF Right
<1> QED
  BY <1>8, <1>9, <1>10, <1>11 DEF RxInv

\* Writing the channel makes the place right again.
LEMMA SetChannelKeeps ==
  ASSUME Sizes, Given, RxInv, SetChannel
  PROVE  RxInv'
<1> DEFINE at == store.at
<1> DEFINE h == store.handle
<1>1. /\ store \in [step : {"found", "named"}, handle : Handles, channel : RingChannels,
                    at : Indexes, new : BOOLEAN]
      /\ h \in Handles /\ at \in Indexes /\ store.channel \in RingChannels /\ store.step = "named"
  BY StoreTyped DEF SetChannel
<1>2. /\ table \in [Indexes -> [handle : Handles \cup {0}, channel : RingChannels \cup {0}]]
      /\ latest \in [Handles -> RingChannels \cup {0}] /\ next \in 0 .. Places
      /\ OnePlace /\ StoreOK /\ Right
  BY DEF RxInv, RxTypeOK
<1>3. /\ table'[at] = [table[at] EXCEPT !.channel = store.channel]
      /\ \A i \in Indexes \ {at} : table'[i] = table[i]
      /\ table' \in [Indexes -> [handle : Handles \cup {0}, channel : RingChannels \cup {0}]]
  BY <1>1, <1>2 DEF SetChannel
<1>4. /\ table'[at].channel = store.channel
      /\ \A i \in Indexes : table'[i].handle = table[i].handle
  BY <1>1, <1>2, <1>3
<1>5. store' = NoStore /\ store'.step = "none"
  BY DEF SetChannel, NoStore, Step
<1>6. /\ latest' \in [Handles -> RingChannels \cup {0}] /\ latest'[h] = store.channel
      /\ \A g \in Handles \ {h} : latest'[g] = latest[g]
  BY <1>1, <1>2 DEF SetChannel
<1>7. next' \in 0 .. Places
  BY <1>1, <1>2 DEF SetChannel, StoreOK, Sizes
<1>8. table[at].handle = h /\ \A i \in Indexes \ {at} : table[i].handle # h
  BY <1>1, <1>2 DEF StoreOK, Has
<1> HIDE DEF at, h
<1>9. RxTypeOK'
  BY <1>3, <1>5, <1>6, <1>7 DEF RxTypeOK, NoStore, Step
<1>10. OnePlace' /\ StoreOK'
  BY <1>2, <1>4, <1>5 DEF OnePlace, StoreOK
<1>11. Right'
  <2> SUFFICES ASSUME NEW i \in Indexes, table'[i].handle # 0
               PROVE  table'[i].channel = latest'[table'[i].handle]
    BY DEF Right
  <2>1. CASE i = at
    BY <1>4, <1>6, <1>8, <2>1
  <2>2. CASE i # at
    <3>1. table[i].handle \in Handles \ {h} /\ table'[i] = table[i]
      BY <1>2, <1>3, <1>4, <1>8, <2>2
    <3>2. table[i].channel = latest[table[i].handle]
      BY <1>2, <1>4, <2>2 DEF Right, at
    <3> QED
      BY <1>6, <3>1, <3>2
  <2> QED
    BY <2>1, <2>2
<1> QED
  BY <1>9, <1>10, <1>11 DEF RxInv

LEMMA RxInductive ==
  ASSUME Sizes, Given, RxInv, [RxNext]_ringVars
  PROVE  RxInv'
<1>1. ASSUME NEW h \in Handles, NEW c \in RingChannels, Search(h, c)
      PROVE  RxInv'
  BY <1>1, SearchKeeps
<1>2. CASE SetHandle
  BY <1>2, SetHandleKeeps
<1>3. CASE SetChannel
  BY <1>3, SetChannelKeeps
<1>4. CASE UNCHANGED ringVars
  BY <1>4 DEF ringVars, RxInv, RxTypeOK, OnePlace, StoreOK, Right, Has
<1> QED
  BY <1>1, <1>2, <1>3, <1>4 DEF RxNext

\* Data is never attributed to a channel that its handle did not have last, and a store
\* never leaves the table (dect_phy_common_rx_op_handle_to_channel_get, _set).
THEOREM ChannelsRight ==
  ASSUME Sizes, Given
  PROVE  RxSpec => [](RightChannel /\ InTable)
<1>1. RxInit => RxInv
  BY RxInitially
<1>2. RxInv /\ [RxNext]_ringVars => RxInv'
  BY RxInductive
<1>3. RxInv => RightChannel /\ InTable
  <2> SUFFICES ASSUME RxInv PROVE RightChannel /\ InTable
    OBVIOUS
  <2>1. InTable
    BY StoreTyped DEF InTable
  <2>2. ASSUME NEW h \in Handles, NEW c \in RingChannels \cup {0}, Attributes(h, c),
               ~(store.step = "named" /\ store.handle = h)
        PROVE  c = latest[h]
    <3>1. PICK i \in Indexes : table[i].handle = h /\ table[i].channel = c
      BY <2>2 DEF Attributes, First, Has
    <3>2. h # 0
      BY DEF Given
    <3>3. ~(store.step = "named" /\ store.at = i)
      BY <2>2, <3>1, StoreTyped DEF RxInv, StoreOK, Has
    <3> QED
      BY <3>1, <3>2, <3>3 DEF RxInv, Right
  <2> QED
    BY <2>1, <2>2 DEF RightChannel
<1> QED
  BY <1>1, <1>2, <1>3, PTL DEF RxSpec
================================================================================
