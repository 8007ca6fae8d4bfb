------------------------------- MODULE MacBeacon -------------------------------
(***************************************************************************)
(* The cluster beacon of dect_phy_mac_ctrl.c and                           *)
(* dect_phy_mac_cluster_beacon.c on top of PHY control: the shell asks for *)
(* a start or a stop, the work queue carries it out, waiting for an RSSI   *)
(* scan to choose the channel, and the Last Minute Scans (LMS) of a        *)
(* running beacon stop it from the modem's callback. The operations of the *)
(* MAC client share the one external command with it.                      *)
(*                                                                         *)
(* The work queue is as cooperative as the control thread and has priority *)
(* over the shell: a command only runs when the queue has nothing to do.   *)
(* The scheduler is what it does for the beacon: listed operations, and    *)
(* the LMS it has handed to the modem.                                     *)
(***************************************************************************)
EXTENDS PhyCtrl

CONSTANTS
  BeaconSlots,  \* slot_count of the beacon
  BusySymbols,  \* the symbols of a frame at which others may be heard
  Mixes         \* TRUE: users start, stop or fail client operations at any time

SlotSymbols == 10
FrameSymbols == 24 * SlotSymbols
RA_START_SUBSLOT == 12
RA_LENGTH_SLOTS == 10

ASSUME BeaconAssumption ==
  BeaconSlots \in 1 .. 24 /\ BusySymbols \subseteq 0 .. FrameSymbols - 1 /\ Mixes \in BOOLEAN

VARIABLES
  mac,      \* mac_data: beacon_tx_on_going and the callbacks to register
  workQ,    \* dect_phy_ctrl_work_q
  running,  \* beacon_data.running
  items,    \* the beacon's operations in the scheduler's list, by kind
  lms,      \* an LMS is in the modem
  client,   \* a client operation that ends the external command is under way
  displaced \* history: the scheduler has dropped the TX of the beacon that runs

own == <<mac, workQ, running, items, lms, client, displaced>>
beaconVars == <<own, vars>>
control == <<ctrl, scan, timer, suspended, ctrlQ, rxQ, modem, handler>>

Kinds == {"lms", "tx", "rach"}

BeaconInit ==
  /\ Init
  /\ mac = [beacon_tx_on_going |-> FALSE, callbacks |-> {}]
  /\ workQ = <<>> /\ running = FALSE /\ items = [k \in Kinds |-> 0]
  /\ lms = FALSE /\ client = FALSE /\ displaced = FALSE

--------------------------------------------------------------------------------
(* External commands and the work queue.                                   *)

\* What dect_phy_ctrl_ext_command_start() refuses.
ExtFree == ~ctrl.rssi_scan_ongoing /\ ctrl.tools \cap {"perf", "ping"} = {}

ExtStart(callbacks) == ext' = [running |-> TRUE, callbacks |-> callbacks]
ExtStop == ext' = NoCallbacks

\* k_work_submit_to_queue(): nothing new for an item that is queued.
Submit(work) == workQ' = IF Contains(workQ, work) THEN workQ ELSE Append(workQ, work)

WorkReady ==
  \/ pc["work"] = "idle" /\ workQ # <<>>
  \/ pc["work"] = "wait" /\ sema # "empty"

\* Neither does a user type while the work queue waits for a cancel, which the
\* modem answers in milliseconds.
ShellRuns == ~WorkReady /\ pc["work"] # "suspend"

--------------------------------------------------------------------------------
(* Starting and stopping.                                                  *)

\* Users who wait start no beacon over a client operation or a command of PhyCtrl.
StartBeacon ==
  /\ Command /\ ShellRuns /\ Alone /\ Reclaimed /\ (Mixes \/ ~client)
  /\ ~mac.beacon_tx_on_going
  /\ mac' = [mac EXCEPT !.callbacks = {"rssi", "pdc"}]
  /\ IF ExtFree THEN ExtStart({"rssi", "pdc"}) /\ Submit("start") ELSE UNCHANGED <<ext, workQ>>
  /\ UNCHANGED <<running, items, lms, client, displaced, sema, control, threads>>

StopBeacon ==
  /\ Command /\ ShellRuns /\ Submit("stop")
  /\ UNCHANGED <<mac, running, items, lms, client, displaced, ext, sema, control, threads>>

\* The start handler, to the forced scan of the channel or of all of them.
WorkStarts ==
  /\ pc["work"] = "idle" /\ workQ # <<>> /\ Head(workQ) = "start" /\ workQ' = Tail(workQ)
  /\ IF ctrl.rssi_scan_ongoing THEN UNCHANGED <<control, sema, threads>>
     ELSE /\ \E all \in BOOLEAN : StartScan("work", [suspend |-> TRUE, interval |-> FALSE, all |-> all])
          /\ UNCHANGED handler
  /\ UNCHANGED <<mac, running, items, lms, client, displaced, ext, commands>>

WorkSuspends == ScanSuspends("work", "wait") /\ UNCHANGED <<own, users>>

\* Mutant of WorkGivesUp: the handler waits for ever.
WorkGivesUp_Never ==
  /\ pc["work"] = "wait" /\ sema = "failed"
  /\ sema' = "empty" /\ pc' = [pc EXCEPT !["work"] = "idle"]
  /\ UNCHANGED <<own, control, behind, users>>

\* k_sem_take() fails: the scan failed or, with nothing of it left, 120 s passed.
WorkGivesUp ==
  /\ pc["work"] = "wait"
  /\ sema = "failed" \/ (sema = "empty" /\ UnderWay = 0)
  /\ sema' = "empty" /\ pc' = [pc EXCEPT !["work"] = "idle"]
  /\ UNCHANGED <<own, control, behind, users>>

\* The operations that got a place in the list make a beacon.
Listed(got) == "tx" \in got

\* dect_phy_mac_cluster_beacon_tx_start(). It gives up when the TX finds no
\* memory or no place, and leaves the LMS listed; it does without the others.
TxStart ==
  IF running
  THEN mac' = [mac EXCEPT !.beacon_tx_on_going = FALSE] /\ UNCHANGED <<running, items, displaced>>
  ELSE \E got \in SUBSET Kinds :
         /\ "rach" \in got => "tx" \in got
         /\ items' = [k \in Kinds |-> IF k \in got THEN items[k] + 1 ELSE items[k]]
         /\ running' = Listed(got) /\ displaced' = FALSE
         /\ mac' = [mac EXCEPT !.beacon_tx_on_going = Listed(got)]

\* ... which the start handler calls when the scan has found a channel.
WorkGoesOn ==
  /\ pc["work"] = "wait" /\ sema = "given"
  /\ sema' = "empty" /\ pc' = [pc EXCEPT !["work"] = "idle"]
  /\ \/ TxStart
     \/ mac' = [mac EXCEPT !.beacon_tx_on_going = FALSE] /\ UNCHANGED <<running, items, displaced>>
  /\ UNCHANGED <<workQ, lms, client, control, behind, users>>

\* list_item_remove_dealloc_by_phy_op_handle(): the first with the handle.
Unlisted(kinds) == [k \in Kinds |-> IF k \in kinds /\ items[k] > 0 THEN items[k] - 1 ELSE items[k]]

\* Mutant of WorkStops: what is announced stays in the list.
WorkStops_Rach ==
  /\ pc["work"] = "idle" /\ workQ # <<>> /\ Head(workQ) = "stop" /\ workQ' = Tail(workQ)
  /\ items' = Unlisted({"lms", "tx"}) /\ running' = FALSE /\ displaced' = FALSE
  /\ mac' = [beacon_tx_on_going |-> FALSE, callbacks |-> mac.callbacks \ {"pdc"}]
  /\ ExtStop
  /\ UNCHANGED <<lms, client, sema, control, threads, commands>>

\* The stop handler.
WorkStops ==
  /\ pc["work"] = "idle" /\ workQ # <<>> /\ Head(workQ) = "stop" /\ workQ' = Tail(workQ)
  /\ items' = Unlisted(Kinds) /\ running' = FALSE /\ displaced' = FALSE
  /\ mac' = [beacon_tx_on_going |-> FALSE, callbacks |-> mac.callbacks \ {"pdc"}]
  /\ ExtStop
  /\ UNCHANGED <<lms, client, sema, control, threads, commands>>

\* At each of its turns the scheduler lists an interval operation for the next one,
\* unless it collides there with one of no lower priority, such as the random access
\* TX of the client (the operations of others are not kept here). Then the operation
\* is gone, and nobody tells the beacon.
Dropped(kind) ==
  /\ items[kind] > 0 /\ items' = Unlisted({kind})
  /\ displaced' = (displaced \/ kind = "tx")
  /\ UNCHANGED <<mac, workQ, running, lms, client, vars>>

--------------------------------------------------------------------------------
(* Last Minute Scans.                                                      *)

\* dect_phy_mac_ctrl_lms_rssi_scan_data_init().
ReservedTx == {s \in 0 .. FrameSymbols - 1 : s < BeaconSlots * SlotSymbols}
ReservedRa ==
  LET first == RA_START_SUBSLOT * RA_LENGTH_SLOTS - 1
  IN {s \in 0 .. FrameSymbols - 1 : first <= s /\ s < first + RA_LENGTH_SLOTS * SlotSymbols}

\* dect_phy_mac_ctrl_cluster_beacon_phy_api_direct_rssi_cb(). The TX is removed by
\* the scheduler's thread, which runs before all others.
DirectRssi(busy) ==
  /\ items' = IF busy \cap ReservedTx # {} THEN Unlisted({"tx"}) ELSE items
  /\ IF busy \cap (ReservedTx \cup ReservedRa) # {} THEN Submit("stop") ELSE UNCHANGED workQ

\* Who gets a measurement that no scan and no reception waits for.
ToBeacon == handler = "ctrl" /\ ~ScanMeasures /\ "rssi" \in ext.callbacks

Heard(busy) ==
  /\ IF ToBeacon THEN DirectRssi(busy) ELSE UNCHANGED <<items, workQ>>
  /\ UNCHANGED <<mac, running, client, displaced>>

Busy == {{}} \cup {{s} : s \in BusySymbols}

LmsStarts ==
  /\ ~suspended /\ items["lms"] > 0 /\ ~lms /\ lms' = TRUE
  /\ UNCHANGED <<mac, workQ, running, items, client, displaced, vars>>

\* An LMS is reported, or ends without. A scan takes the report for its own.
LmsReports(busy) ==
  /\ lms /\ lms' = FALSE /\ Heard(busy)
  /\ scan' = scan \/ (handler = "ctrl" /\ ScanMeasures /\ scan' = [scan EXCEPT !.measured = TRUE])
  /\ UNCHANGED <<ctrl, ext, sema, timer, suspended, ctrlQ, rxQ, modem, handler, threads, commands>>

\* Measurements of control, which the beacon may get.
ControlMeasures(i, busy) == Measure(i) /\ Heard(busy) /\ UNCHANGED lms

--------------------------------------------------------------------------------
(* Operations of the client.                                               *)

\* Users who wait do not disturb a beacon that starts or, with an operation
\* that fails or is stopped, one that runs.
Disturbs(failing) == pc["work"] # "idle" \/ (failing /\ running)

\* associate, dissociate and rach_tx_start of dect_phy_mac_ctrl.c.
StartClient ==
  /\ Command /\ ShellRuns /\ ~client
  /\ \E ok \in BOOLEAN :
       /\ Mixes \/ ~Disturbs(~ok)
       /\ IF ~ExtFree THEN UNCHANGED <<ext, client>>
          ELSE IF ok THEN ExtStart(mac.callbacks) /\ client' = TRUE
          ELSE ExtStop /\ UNCHANGED client
  /\ UNCHANGED <<mac, workQ, running, items, lms, displaced, sema, control, threads>>

\* dect_phy_mac_ctrl_rach_tx_stop().
StopClient ==
  /\ Command /\ ShellRuns /\ (Mixes \/ ~Disturbs(TRUE))
  /\ client' = FALSE /\ ExtStop
  /\ UNCHANGED <<mac, workQ, running, items, lms, displaced, sema, control, threads>>

\* Mutant of ClientCompletes: the end of an operation ends the external command.
ClientCompletes_Always ==
  /\ client /\ client' = FALSE /\ pc["ctrl"] = "idle"
  /\ IF handler = "ctrl" /\ ext.running THEN ExtStop ELSE UNCHANGED ext
  /\ UNCHANGED <<mac, workQ, running, items, lms, displaced, sema, control, threads, commands>>

\* dect_phy_mac_ctrl_th_phy_api_mdm_op_complete_cb() of its last operation.
ClientCompletes ==
  /\ client /\ client' = FALSE /\ pc["ctrl"] = "idle"
  /\ IF handler = "ctrl" /\ ext.running /\ ~running THEN ExtStop ELSE UNCHANGED ext
  /\ UNCHANGED <<mac, workQ, running, items, lms, displaced, sema, control, threads, commands>>

--------------------------------------------------------------------------------
(* The whole.                                                              *)

Work == WorkStarts \/ WorkSuspends \/ WorkGivesUp \/ WorkGoesOn \/ WorkStops

ControlShell == Shell /\ ShellRuns /\ UNCHANGED own

\* The work queue, too, may be the first at the mutex of the cancel.
ControlGoesOn ==
  /\ ControlThread /\ UNCHANGED own
  /\ pc["ctrl"] = "idle" \/ pc["work"] # "suspend" \/ "work" \in behind
Reports == \E busy \in Busy : LmsReports(busy) \/ \E i \in DOMAIN modem : ControlMeasures(i, busy)
Completes == \E i \in DOMAIN modem, ok \in BOOLEAN : Complete(i, ok) /\ UNCHANGED own
Others == (ShellGoesOn \/ RxThread \/ TimerFires \/ ToolEnds) /\ UNCHANGED own

BeaconNext ==
  \/ StartBeacon \/ StopBeacon \/ StartClient \/ StopClient \/ ControlShell
  \/ Work \/ ClientCompletes
  \/ LmsStarts \/ Reports \/ \E kind \in Kinds : Dropped(kind)
  \/ ControlGoesOn \/ Completes \/ Others

BeaconSpec == BeaconInit /\ [][BeaconNext]_beaconVars

\* Threads run, and what is in the modem ends.
BeaconFairness ==
  /\ WF_beaconVars(Work) /\ WF_beaconVars(ControlGoesOn) /\ WF_beaconVars(ShellGoesOn /\ UNCHANGED own)
  /\ WF_beaconVars(RxThread /\ UNCHANGED own)
  /\ WF_beaconVars(Completes \/ \E i \in DOMAIN modem, busy \in Busy : ControlMeasures(i, busy))
BeaconFairSpec == BeaconSpec /\ BeaconFairness

--------------------------------------------------------------------------------
(* Properties.                                                             *)

\* A beacon that runs gets what the modem receives for it and its LMS: PHY
\* control has the modem and the beacon's callbacks, whatever scans, tools and
\* client operations came before.
BeaconHeard ==
  running => handler = "ctrl" /\ ext.running /\ ext.callbacks = {"rssi", "pdc"}

\* mac_data knows whether the beacon of beacon_data runs ("Beacon already started"
\* is right). A beacon that runs is on the air until it is to stop, or the scheduler
\* drops its TX, which nobody notices; one that does not run neither sends nor listens.
BeaconOnAir ==
  /\ mac.beacon_tx_on_going = running
  /\ IF running THEN items["tx"] = 1 \/ Contains(workQ, "stop") \/ displaced
     ELSE items["tx"] = 0 /\ items["rach"] = 0

\* A stop is carried out, by the user or an LMS, even behind a start that waits
\* for its scan.
StopEnds == Contains(workQ, "stop") ~> ~running /\ ~Contains(workQ, "stop")
================================================================================
