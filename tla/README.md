# DECT NR+ shell and HS-DECT: specifications, model checking and proofs

The repository holds two programs for an nRF91 modem with the DECT NR+ PHY API:

* `src/HS_DECT_SHELL`, the *shell* (about 20 000 lines of C for Zephyr): a
  scheduler of modem operations, a control thread, a small MAC, and tools
  (ping, perf, RF measurements) behind shell commands;
* `src/HS_DECT_2020`, a smaller *HS-DECT application* (about 2 100 lines) that
  opens sessions with the modem from several threads.

What makes both hard is not computation but order: cooperative and preemptive
threads, interrupt-level modem events, message queues with bounded capacity,
semaphores with timeouts, work items and timers all touch the same unlocked
state. The modules here model that order; message contents, encodings, units
and printing are abstracted.

## 1. Inventory

Paths are under `src/HS_DECT_SHELL/src/dect/` unless they begin with `hs_`.

| Component | State | Operations and neighbours | What is hard | What makes it correct |
|---|---|---|---|---|
| PHY API scheduler (`common/dect_phy_api_scheduler.c`) | two linked lists (scheduled, given to the modem), an event queue, a timer, suspend state | `list_item_add`, removals, purge, suspend, resume, the thread that walks the list once a frame; calls `nrf_modem_dect_phy_*`, gets completions from control | callbacks that change the list during the walk, late turns, refused operations, lost queue events, one mutex | items are freed once and never while listed; a completion for each turn given to the modem; the thread never sleeps on work; a counted interval gets its count |
| PHY control (`dect_phy_ctrl.c`) | flags of the commands on going, callbacks of an "external command", semaphores, a message queue | start and stop of RSSI scan, RX, ping, perf, RF tool; dispatch of modem events; suspends and resumes the scheduler | a thread waits for a cancel in the middle of a start; a stop leaves work in the modem; one event handler changes hands | one command owns the modem at a time; every command ends, and the scheduler runs again |
| RX thread (`dect_phy_rx.c`), channel scan (`dect_phy_scan.c`) | a queue of 10 requests; the measurements of the channel being scanned | start RX, start a measurement; completion of a channel starts the next one | a request that is lost or refused must still end the scan | a verdict rests on measurements of its channel |
| Common RX (`common/dect_phy_common_rx.c`) | a ring from RX handles to channels, without a lock | RX start, lookup on reception | overwritten entries, a lookup in the middle of a store | a PDU is attributed to the channel it came from |
| Neighbour list (`mac/dect_phy_mac_nbr.c`) | a table of neighbours | store on beacon, clear from the shell | pointers into the table kept by others | no pointer to a cleared place is used |
| PT side (`mac/dect_phy_mac_client.c`) | association slots, response timeouts | associate, dissociate, response, timeout, RACH TX | four threads, no lock; late responses | one slot per device; a request ends; a released device is left alone |
| Background scan (`mac/dect_phy_mac_nbr_bg_scan.c`) | running scans, items in the scheduler | start, stop, completion in the scheduler thread | its callback removes the item that the walk is handling | a scan runs exactly for the associated devices |
| Cluster beacon, MAC control (`mac/dect_phy_mac_cluster_beacon.c`, `mac/dect_phy_mac_ctrl.c`) | beacon on going, LMS RSSI, RACH RX, work items | beacon start (waits for an RSSI scan), stop, update; commands of the PT side | a start of up to two minutes that a stop or a second start meets; partial failure | beacon operations are all scheduled or none; a stop stops |
| FT association table, fixed schedule (`mac/dect_phy_mac_ft_assoc.c`, `mac/dect_phy_mac_sched_fixed.c`) | a table with a settable limit; none | add, look up, list; next uplink slot | nothing calls them: the table is never filled, no transmission uses the schedule | |
| MAC receive path and PDUs (`mac/dect_phy_mac.c`, `mac/dect_phy_mac_pdu.c`) | none | decode, dispatch | | |
| ping (`ping/`) | client and server runs, HARQ, statistics | request, response, retransmission, timeout | a timeout that races a late answer; HARQ feedback | an answer is to the latest ping; the command ends |
| perf (`perf/`) | client run with its HARQ processes and window, server run with its count of RXs, a timer | TXs driven by completions and feedback, RX restarts, exchange of the results | few of many events drive a run; a thread and the modem's handler start the server's RX; a timer nobody stops | a run has what drives it, TXs are told apart, a server is not deaf; the command ends |
| RF tool (`rf_tool/`) | a run of intervals of interval operations, a flag that waits for a header | start, synchronisation, next interval, stop, report | only the last turn of an operation drives a run; operations of an earlier run stay listed | intervals do not mix, a run has what drives it and ends |
| Shell, settings, startup commands, printing | settings in flash | option parsing, printing, replay of commands | | |
| HS-DECT core (`hs_core/core.c`) | two semaphores, an exit flag | open and close of a session, transmit, receive, event handler | one binary semaphore for all threads | sessions exclude each other; a thread goes on with its own event |
| HS-DECT hello, ping, file ping, shell (`hs_hello`, `hs_ping`, `hs_shell`) | a running flag each | start, stop, worker loops | stop is a flag; a worker is created anew | a stopped worker ends |

`PROJECT.json` lists the components with their status, and under "hazards"
every place found where this can go wrong, with the properties aimed at it.

## 2. Modules

| Module | Models |
|---|---|
| `SchedList` | the order of the list: priorities, insertion, overlap in a frame (`list_item_add`), as operators |
| `Scheduler` | the scheduler's thread, lists, heap, queue, timer, modem, and its callers |
| `OpLife` | the abstract life of a one-shot operation; implemented by `Scheduler` |
| `SchedulerProofs` | TLAPS proofs about the three |
| `MacClient` | neighbour list, association slots, background scans, and the scheduler as they see it |
| `Association` | the abstract life of association slots; implemented by `MacClient` |
| `MacClientProofs` | TLAPS proofs about `MacClient` |
| `SeqFacts` | facts about sequences and minima that the proof modules share |
| `PhyCtrl` | control thread, RX thread, channel scan and the tools' hold on the modem |
| `MacBeacon` | start, stop and Last Minute Scan (LMS) of the cluster beacon on the work queue, and the external command it shares with the client; extends `PhyCtrl` |
| `Ping` | the ping tool: a client and a server device, each with its ping thread, modem and shell, HARQ, the hand-over of the modem between ping and control |
| `PingProofs` | TLAPS proofs about `Ping` |
| `Perf` | the perf tool: a client or a server, its thread, the modem's handler, timer and shell, HARQ processes, and the hand-over with control |
| `PerfProofs` | TLAPS proofs about `Perf` |
| `RfTool` | the RF tool over the scheduler: intervals, synchronisation, start, stop, and the hand-over with control |
| `RfFrame` | the arithmetic of the RF tool's frame (lengths, default offset, duty cycle) |
| `RxRing` | the table of RX handles and channels |
| `ControlProofs` | TLAPS proofs about `PhyCtrl`, `MacBeacon` and `RxRing` |
| `HsSession` | sessions and threads of the HS-DECT application |
| `HsSessionProofs`, `RfToolProofs` | TLAPS proofs about `HsSession`, and about `RfTool` and `RfFrame` |
| `MCScheduler`, `MCMacClient`, `MCPhyCtrl`, `MCMacBeacon` | values of the constants for TLC |

How they correspond to the code: every definition has its file, lines and
symbol in `PROJECT.json` under "map". The rule for the grain of actions is the
kernel's: the control thread, its work queue and the scheduler thread are
cooperative (`K_PRIO_COOP`), so what they do between two waits is one action;
the shell thread is preemptible, so its commands are split where they call out
or wait; modem events come from an interrupt, in between. The scheduler's walk
is split at each item, because the modem's clock and completions go on while it
runs, but no user can touch the list, since the walk holds its mutex.

*Scheduler.* `list`, `item`, `alloc` are the linked list, the items' memory and
what is allocated; `done` is the list of what the modem has. `Add`,
`RemoveByHandle`, `ShiftFrame`, `Request` are the callers; `Take*` one queue
event each; `TurnDelayed`, `TurnSent`, `TurnPostponed`, `WalkEnds` one iteration
of the walk with its locals `cur`, `nxt`, `keep`, `addDone`, `trials`. Histories
(`turns`, `ended`, `cancelled`, `fresh`, `dropped`) only record.

*MacClient.* The three arrays with their pointers as indexes. `Associate`,
`SendRequest`, `Commit` are the pieces of one shell command, `Dissociate`,
`StopForRelease`, `Release` those of the other; `Timeout` is the work item,
`Beacon` and `Response` the control thread, and `SendTurn`, `CompleteTurn`,
`LateTurn`, `Dropped` what `Scheduler` may do to a scan's operation.

*PhyCtrl.* `StartScan`/`ScanSuspends`, `StartRx`/`RxSuspends`,
`StartTool`/`ToolStarts` are commands before and after the cancel they wait
for; `Take*` is one message of the control thread, with `CtrlSuspends`,
`CtrlRestarts`, `CtrlReclaims` after its own cancels. `behind` is what the
cancel mutex and the thread priorities guarantee: who asked for a cancel while
the control thread was waiting for one goes on after it.

*MacBeacon.* `StartBeacon`, `StopBeacon`, `StartClient`, `StopClient` are shell
commands; `WorkStarts`, `WorkSuspends`, `WorkGoesOn`, `WorkGivesUp` the start
handler before, at and after its scan, `WorkStops` the stop handler.
`LmsReports` and `ControlMeasures` give a measurement to whom PHY control gives
it (`ToBeacon`). All of `PhyCtrl` runs beside, and `ext`, `sema` and the place
`pc["work"]` of `PhyCtrl` are those of the beacon. The work queue is cooperative,
so the shell types only when it has nothing to do (`ShellRuns`); waiting for the
semaphore of a scan it lets the shell run. The scheduler is reduced to the
operations it lists for the beacon, by kind, and to the LMS in the modem; it may drop
any of them at one of its turns, refusing to list it again because of a collision
(`Dropped`). The removal of the TX by the scheduler's thread, which has the highest
priority, is part of the report.

*Ping.* `queue[r]` is the queue of the ping thread of device `r`, `Take*` the
handling of one event, with `Drop` for those that come when no ping is on going.
`modem[r]` is what the modem has accepted, a combined TX and RX being two
operations in a row; `Transmit` performs a TX, which the other device hears,
hears in part or misses, and `RxEnds` ends an RX. `list` is the one interval
operation of the client (turns left and the sequence number of its payload) and
the retransmissions. `tool`, `done` are PHY control's side: `ping_ongoing` and
the `PING_CMD_DONE` in its queue. `Report` is shared by the last RX and by the
stop, as in the code.

*Perf.* `ClientTx` is what the code's function of that name does, with or
without HARQ (`TxWithHarq`, `TxNoHarq`); `Take*` is the handling of one event by
the perf thread, `Drop` that of one when no perf is on going. `modem` is what the
modem has accepted, with the RX of a combined operation behind its TX; `Header`,
`Feedback` and `RxEnds` are its events, `Header` including what the handler does
at interrupt level (a server's feedback and the restart of its RX). The processes are
there with HARQ or without, as in the code: the timer a run left behind (`TakeTimer`)
sends with them in a client without HARQ, too. Time moves
in steps of the longest RX, 62 s (`Tick`): the duration of a run, the ageing of a
HARQ process and the timer of a full window are what it decides.

*RfTool.* `list` holds the operations of the last interval started, `strays`
those that are listed for earlier ones: the code does not tell them apart, the
split is a history. `OwnTurn`/`StrayTurn` is a turn in the scheduler's walk:
sent, failed, or ended because what is left of it was not listed again.
`Restart`, `LastInterval`, `OtherDone` handle the one callback there is,
`TakePcc`, `TakeSynced` the synchronisation, `NoteWait` the assignment of a start
that comes after the RX is on its way.

*RxRing.* A store is three steps: `Search` picks the place, `SetHandle`,
`SetChannel` fill it; a lookup (`Attributes`) may come between any two.

*HsSession.* Each thread makes a list of modem calls; `Call` makes one,
`Event` is its answer, `Take` the wait for the semaphore, `CallRefused` an error
return. `Shutdown` forgets what the modem has not answered.

## 3. Runs

| Run | Shows | Bounds |
|---|---|---|
| `sched_control` | done list in step with the modem, one completion for each one-shot operation, list order, refinement of `OpLife`, completion under fairness | two operations, one removal, purge, suspend or resume, queue of 2, time 0..2, one operation the modem may refuse, any walk may be late |
| `sched_interval` | types, heap, no sleeping on work, counted intervals, cancelled operations stay out | a counted interval operation with a range of handles and a background scan on the same frames, one correction of a frame time, time 0..4; walks are not late |
| `sched_zombie` (violation) | a background scan that stops itself during a late walk is put back on the list | the same, walks may be late |
| `assoc_timely` | one slot for a device, no slot waits without a timeout; slots, scans and the scheduler's list agree; refinement of `Association` | two devices, two slots, three requests overlapped with everything; responses come before the timeout |
| `assoc_late` (violation) | a response after the timeout uses a NULL target | two requests, responses at any time |
| `ctrl` | one measurement at a time, quiet scheduler under forced scans, tool alone in the modem and with its event handler, verdicts from data, every command ends, scheduler resumes | three commands of any kind (all scan and RX parameters), a band of two channels, refused measurements, no heap |
| `beacon` | a running beacon is heard, its flags agree with its operations unless the scheduler dropped its TX, nothing is on the air without it, a stop is carried out | five commands of any kind (beacon, client, scan, reception, tool of either class, stops), a refused measurement, a lost one, any part of a start failing, others heard in the TX, in the random access resource or elsewhere, any operation of the beacon dropped by the scheduler |
| `ping` | the server is never deaf, the modem is lent exactly to a ping that is on going, answers are to the latest ping, a ping that is stopped or undisturbed ends | two pings, three commands of either device (stops included), one trouble (a NACK, a late turn, a refused operation, a failed RX), one event left in a queue when the modem goes on; any PDU or feedback may be lost |
| `perf` | a client is always driven by something, outstanding TXs are told apart, the server is never deaf, the modem is lent exactly to a perf that is on going, a perf ends when its time is over or it is stopped | two commands (stops included) of either role over what the run before left (its timer, which fires in a client with HARQ or without), two HARQ processes, a window of two, five TX handles, three units of time, one refused or failed operation, one event left in the queue when the modem goes on |
| `rf_tool` | a run is always driven by something, intervals do not mix, the modem is lent exactly to a run, a run ends by itself or when it is stopped | four commands (stops included) in every mode, two frames, two intervals, one operation refused or dropped, one event left in the queue, up to two operations of earlier runs in the list |
| `hs_session` | sessions exclude each other, a thread takes its own event, for the session before included, stop and open end | three jobs of five kinds, any call but a TX refused |
| `hs_open` (violation) | a session request that fails leaves the opener waiting for ever | one job |

Why the bounds are enough: the interesting interleavings involve two operations
that meet in one walk, two devices that compete for a slot, two or three
commands of which one is stopped while another starts, two threads in a
session, a start of a beacon that a scan, a tool, a client operation and a stop
meet. Each bound lets those happen (every property has a mutant of the code
that the same instance catches), a third request was added where
the order of three matters, and where a counter matters (trials, turns, the
channels of a band, the queue) its limit is reached. `MaxTime`, `MaxCalls`,
`MaxRequests`, `MaxCommands`, `MaxStarts`, `MaxTroubles` only end the exploration; the
instances stop there, hence no deadlock check. `QCap` is the code's 10 (or 1000)
scaled down so that it overflows. `Backlog` says that a modem operation takes
longer than the tool's thread needs for all but that many events. In `perf` two
processes and a window of two are the least for which the starting TX, the middle
one and a full window are different things, and the handles wrap around after
five; in `rf_tool` two frames make the first turn and the last one different, and
two intervals the last one and the one before.

### Assumptions that are constants

Each names a situation the code does not exclude. It is excluded in a run
where the property is otherwise false, and the run beside it, or the hazard,
shows what happens.

* `KeepsUp` (scheduler, MAC): no walk meets a listed frame late. False in
  `sched_control`; `sched_zombie` is why it is needed.
* `Timely`: a response arrives before its timeout; `assoc_late` is why. Half of the
  theorems about `MacClient` do without it (section 4).
* `Alone`, `Reclaimed` (`ctrl`, `beacon`; operators, not constants): users
  start a command when nothing of the previous one is left, and a tool also while
  the one before is being reclaimed; they do not stop a scan in the very wait
  for its cancel. The code refuses only while a scan or a tool goes on: with more
  overlap `OneStep`, `ToolHeard` and the liveness properties fail.
* `Mixes = FALSE` (`beacon`): a client operation is not started while a beacon
  starts, nor a beacon while one is under way; beside a beacon that runs it
  neither fails at once nor is stopped. Each of these clears or replaces the callbacks of
  the one external command, and with `Mixes = TRUE` `BeaconHeard` fails.
* `displaced` (`beacon`; a history): the scheduler has dropped the TX of the beacon that runs. It
  does so when its next turn collides with an operation of no lower priority; the
  client's random access TX has `DECT_PRIORITY0_FORCE_TX` (dect_phy_mac_client.c:414), the
  beacon's TX `DECT_PRIORITY1_TX` (dect_phy_mac_cluster_beacon.c:403). Nobody tells the
  beacon, so `BeaconOnAir` does not claim that such a beacon is on the air.
* `Refuses`, `Exhausts` (`ctrl`, `beacon`): a refused *reception*, or a measurement that
  does not fit into the RX thread's queue, leaves its command on going for
  ever. Refused measurements are included, in `ctrl` an exhausted heap, and in
  `beacon` both of the above, from which a stop must recover.
* `Quiet`, `Answering` (`ping`; operators): the next turn of the client comes
  after the events of the one before are handled and the server's answer is out
  (turns are a second or more apart), and users start a client when nothing of
  an earlier one is on the air.
* `hitch` (`ping`; a history): what the code does not recover from by itself. A
  late or refused turn or retransmission and a retransmission that NACK handling
  drops keep a client going until it is stopped; a refused restart of the server
  keeps `ping_ongoing` set. `PingEnds` and `ToolAgrees` leave these out.
* `hitch` (`perf`): a round of a client of which not even the first TX is taken,
  a restart of the server's RX that the modem refuses, and the timer of a client
  that fires in a server, where the handler writes through a NULL pointer.
* `hitch` (`rf_tool`): operations, or the RX to synchronise, that were not taken
  for the next interval; an operation the list drops without a word; a header
  that comes before the start has noted that it waits for one.
* `astray` (`rf_tool`; a history): the run shares the list with operations of an
  earlier run, which nothing removes at a stop or a failed start. `OneInterval`
  does not hold for such a run: their end starts its next interval early.
* `Restarts = FALSE` (`hs_session`): a worker is not created while it still
  runs. The code tests a flag that stop clears at once.
* `Jobs` of `hs_session` leave out file ping: it uses the modem without a session.

### Fairness

Weak fairness of a thread: the kernel runs a ready thread; the scheduler thread,
control thread and work queue are above all others. Weak fairness of timers and
of the modem: an operation the modem has accepted completes (the modem has a
duration for each) and a request is answered. Users need not do anything. A
tool that was started is assumed to end in `PhyCtrl`; `Ping`, `Perf` and `RfTool`
show it of ping, perf and the RF tool, where it does. Strong fairness of the shell's next step in
`ping`: a shell is preempted by its ping thread again and again, but for
milliseconds, while the receptions in between take seconds; `perf` and `rf_tool`
assume the same of theirs. Time passes in `perf` (`Tick`), and the scheduler comes
to each listed operation in `rf_tool`, which `Scheduler` shows (`CompletionComes`).

### Divergences met while modelling

The three violations are listed under "findings" with the lines and the text they
contradict. What else was met, by component; most of it is under "hazards":

* Scheduler: operations of one frame may overlap (only the first item of the frame
  is compared, without its start offset); after a delayed interval item the walk
  leaves the next delayed one-shot item listed (`remove_from_list` is not set
  back); a refused turn of an operation with a range of handles is completed under
  the next handle, so its copy stays in the done list.
* Scan: the rounds that the timer of a repeated scan starts run without
  `rssi_scan_ongoing`; their measurements are dropped and channels are judged
  without any.
* Beacon: a beacon whose TX the scheduler drops in a collision stays "running" without
  being sent, and refuses a new start until it is stopped. The LMS looks for the random access resource at symbols 119 to 218, the
  resource is elsewhere, so others at its start do not stop the beacon.
* Ping: a late or refused turn is reported to PHY control only, so the pings sent
  never come to `ping_count` and the results are never asked for; a refused restart
  of the server's RX clears `on_going` without telling control; a failed
  `tx_schedule` at the start leaves a client on going with nothing listed;
  `last_redundancy_version` is never advanced, so a round always retransmits
  version 2.
* Perf: the time that passed counts twice when a server restarts its RX; a client
  with duration -1 ends with its first TX; the report's cancel of the server's RX
  completes as a failure, which may restart the RX or end the server; a refused
  TX with RX leaves its HARQ process reserved for 2 s; the timer of a full window outlives
  its run and sends TXs with HARQ processes in a client without HARQ; `--c_harq_process_nbr_max 0`
  leaves none; a stop that cannot send its request ends the perf twice.
* RF tool: a restart clears the metrics before `next_frame_time_get` uses the last
  times in them, so it aligns to time 0; the RX_CONT duration wraps past 62 s; the
  margin of 2/3 s is 0 by integer division; RX_CONT without a peer mode reports
  every 62 s and ends after five, though its usage promises a report only at the
  stop (dect_phy_shell.c:394); "Continuous RX until sync found" (line 428) is a
  single shot, ended by 62 s or by the first header that cannot be decoded; the
  default TX offset is stored in 8 bits (`DefaultsApart`); the transmitter's identity
  is taken from the destination (line 1125).
* Common RX: a handle stored again keeps its old place, so that the next new one may
  push it out while its RX is on.
* FT association table and fixed schedule: nothing calls the functions that fill the
  one and ask the other.

## 4. Proofs

### Scheduler

`SchedulerProofs` proves the following for any set of operations, configuration, queue
capacity, time window and bounds. The assumption of all is `SchedulerAssumption`
(constants are of their types).

| theorem | states | further hypotheses |
|---|---|---|
| `TypeCorrect` | `TypeOK` | none |
| `NeverStalls` | `NoStall` | none |
| `QueueStaysBounded` | the queue never exceeds its capacity | none |
| `ListIsSorted` | `FrameSorted` | none |
| `NothingFreedIsListed` | no walk, search or removal meets a freed item | none |
| `HeapOwned` | `ListOwnsHeap` | `Orderly` |
| `CancelledNeverReturns` | `CancelledStaysOut` | `Orderly` |
| `TurnsAreCounted` | `IntervalCount` | `Orderly` |
| `CompletionsMatch` | `CompletedOnce` | `Orderly`, `NoRanges` |
| `OpLifeRefined` | `RefinesOpLife` | `Orderly` |

The hypotheses speak of the constants only:

* `Orderly` is the conjunction of three. `NoLateIntervals`: no interval operation is
  late, because the thread gets to each listed frame in time and corrections only delay
  (`OnTime`), or because all operations are one-shot, which may be late as much as they
  like. The code does not guarantee it, and `sched_zombie` shows that
  `CancelledStaysOut` is false without it. `OwnHandles`: no two operations share
  a handle, as the ranges in `dect_phy_shell.h` have it. `CountsRepeat`: a count comes
  with an interval, as in `rf_tool.c` and `ping.c`, the only users of a count.
* `NoRanges`: no operation takes a handle of a range for each turn. The walk advances the
  handle of a failed one before it reports it, so that the completion of
  the failure names the handle of the next turn.

`sched_control` satisfies `Orderly` and `NoRanges` (two one-shots, late or not),
`sched_interval` satisfies `Orderly` (in time, with a counted interval operation and a
correction). An operation stands for one item on the heap, added once: that a later
item takes over the handle of an earlier one (the responses of a ping server)
is outside both the runs and the theorems.

There are four inductive invariants, each with the one before as its first conjunct;
TLC finds them true on `sched_control`, and all but the last on `sched_interval`.

1. `SchedInv` (`SchedulerInv`) for types, `NoStall` and the queue. `NoStall` alone is
   not inductive: when a walk ends without leaving a wake-up, one must know that it
   left nothing in the list. `WalkCovers` says so: as long as nothing will wake the
   thread, the walk is at the head of the list and no turn behind it kept its item.
   For that an item must not be listed twice (`ListedOnce`), since removing one
   of two equal entries would leave the other behind; and `cur`, `nxt` must not be
   items that a user is about to add (`fresh`).
2. `PathInv` (`PathHolds`) for the heap and the order, late or not. `Walking`: the two
   pointers of the walk stay listed neighbours under the mutex. `ItemsKept`: a turn changes
   of an item no more than its frame, handle, count and interval. `ListedAllocated` and
   `FrameSorted` are conjuncts.
3. `OrderInv` (`OrderHolds`), under `Orderly`. The local `keep` of the walk is never set
   (`InTime`), so that each turn removes its item before it frees it or adds it again;
   then an allocated item is listed or leaked by a background scan that gave up
   (`Owned`), a counted item has as many turns left as are missing (`TurnsCounted`), and
   turns that have a copy in the done list or are completed are at most the turns taken
   (`EndsCounted`, which counts an operation's copies with `Number` of `SeqFacts`).
4. `LedgerInv`, under `NoRanges` too: a one-shot operation is at most one of with the
   modem, in a queued completion, completed (`Owed`), and for each handle the copies in the
   done list are at most the completions still to come (`Answers`).

The refinement maps each operation to its stage (`StageOf`); each action either leaves
all stages alone (`AllStay`) or moves one along an edge of `OpLife` (`OneMoves`), a purge
several at once. Its key fact is that of `OrderInv`: a completed copy was its operation's
only one. `SeqFacts` has what appending, removing and counting do to a sequence; the
first section of `SchedulerProofs` what insertion, removal and successors do to a sorted
list, the others the lemmas above handler by handler.

### MAC client

`MacClientProofs` proves, for any set of devices, any size of the arrays,
responses at any time (`Timely` and `KeepsUp` either way) and a list that may be
cleared:

* `SlotsTyped`: `Spec => []TypeOK`; the indexes that stand for pointers stay
  in the arrays or are NULL;
* `OneSlotEach`: `Spec => []UniqueTargets`;
* `WaitsAreTimed`: `Spec => []WaitTimed`.

The invariant `Inv` adds `UserOK` to the three: between the steps of an
association command of the shell, no slot but the one it took has its target.
Without it `UniqueTargets` is not inductive, because `Commit` writes the target
some time after it was searched for. The lemmas say, once for each helper, what
the searches find (`FirstProperties`, with `MinExists` of `SeqFacts`) and that
starting or stopping a scan leaves states and targets alone (`StopProperties`,
`StartProperties`); each handler then is one lemma. The only assumption is
`MacClientAssumption`.

Three theorems need that a response comes before its timeout (`Timely`; `assoc_late`
shows what happens else), the last also that no walk is late (`KeepsUp`):

* `TargetsAreKnown`: `TargetKnown`; its invariant `TimelyInv` (`TimelyHolds`) adds that
  a command under way still has the neighbour it found, and a slot that is free or its own
  (`UserTakes`);
* `AssociationRefined`: the client implements `Association`. Every handler gives at
  most one slot another state (`Given`), and the lemmas say which edge that is;
* `ScansAlwaysAgree`: `ScansAgree`. Between the two steps in which a scan is stopped
  and its slot freed, slot, scan and list disagree unless one says who owns what
  (`Owned`): a scan runs only for a slot that knows of it, an item is listed only for a scan that
  runs. `Quiet` adds that a freed slot has no scan, so the next target of the slot cannot
  inherit one.

### Ping

`PingProofs` proves all three safety properties of `Ping`, for any number of pings,
commands and troubles and queues of any length; the one assumption is
`PingAssumption`, the types of the constants.

* `PingAgrees`: `ToolAgrees`. `LendInv` adds the types and `DoneIsOver`: a ping is no
  longer on going once control is told, or the next start could meet a message of the
  ping before.
* `ServerKeepsListening`: `ServerListens`. The server restarts its RX when its counter of
  RXs falls to zero, so what must be known is that the counter is never above the
  RXs that are still to end. `ToCome` counts these, on the modem and as events in the
  queue, with `Number` of `SeqFacts`; `ListenInv` adds `Counted`, that there is one at
  least and that they cover the counter, unless the shell has queued the end.
* `AnswersAreToTheLatest`: `InStep`. The number of a ping is in five places, which
  `Left` collects: retransmissions on the modem or listed, pings and answers at the
  server, answers and NACKs on the way back. `StepInv` adds `Stepping`: there is at most
  one TX the client has not counted yet (`Unsent`, `Uncounted`), all that is left is of
  the latest ping, and while its TX is still on the modem nothing is left. An answer
  is queued behind the completion of its TX (`Ordered`), so that the counter has moved on
  when it is taken, and the listed operation has the next number (`NextListed`).

`Stepping` is about a client that is on going, as `InStep` is. It holds again when a client
starts since nothing of the ping before is left then: its thread has handled its queue,
which is when the shell runs, and the server has sent its answers (guards of `StartPing`).

### Perf

`PerfProofs` proves the four safety properties of `Perf`, for any number of HARQ
processes, handles, commands and troubles and queues of any length; the assumptions
are `PerfAssumption`, the types of the constants, and for `TxApart` alone `HandlesReach`
(below). The invariant `PerfInv` (`PerfHolds`) was
checked with TLC first.

* `PerfToolAgrees`: `ToolAgrees`. `LendInv` adds the types and that a perf whose end is
  being told is no longer on going, so that the next start cannot meet the message.
* `PerfClientDriven`: `ClientDriven`. `ClientRun` adds that only operations and events of a
  client are about while a client runs (a server's could end it or clear what drives
  it), and that one that has requested results awaits them (`Awaited`). A round ends with the TX that drives the next one, or with the timer
  (`RoundDrives`).
* `PerfServerListens`: `ServerListens`. Two threads start RXs and one counter says when the
  server restarts. `ToCome` counts, with `Number` of `SeqFacts`, the RXs on the
  modem and their ends in the queue; `ServerRun` says that they cover the counter and
  that there is one, or that results are on their way (`Sending`), unless the
  shell has queued the end (`Ended`).

`ClientRun` and `ServerRun` hold of a perf that starts since nothing of the one before is left then: its thread
has handled its queue, which is when the shell runs, and control has cancelled what
the modem performed (`Shell`, `StartClient`).

* `TxsStayApart`: `TxApart`, from `PerfInv` and a second invariant, `ApartInv`, checked with TLC
  first, too. A TX is told by its age, the number of handles given since and its own
  (`Back`): the TXs on the modem have the ages from some m down to 1 (`InOrder`), and different
  ages up to the number of handles are different handles (`BackApart`).
  - A TX or a feedback in the queue that has a process has one of its own that is in
    use (`Reserved`), in both modes; with HARQ every TX has one. A round takes only processes
    that are not in use, so that there are never more TXs than processes
    (`HarqRoundKeeps`, an injection into the processes).
  - Without HARQ what keeps the ages small is which TX sends the next round (`Paces`): the
    first one of the last round. A client without HARQ has processes too, so the timer
    that the run before left may send a round of TXs with HARQ processes in between. From then
    on the middle handle of that round, which nothing resets, drives the client as well,
    and it may once be that of an older round. There is at most one such timer and its round comes
    once (`OneTimer`, `TimerTaken`, `ClientTimes`), so the outstanding TXs never reach back
    over three windows and the processes (`Most`, `PacesOn`, `PlainRoundKeeps`).
  - All other steps send nothing (`Calm`, `ServerCalm`) or end the oldest TX (`TxEndsKeeps`).
    A client has no operation or event of a server, nor a server a TX of a
    client (`ClientAlone`, `NoneSent`), on going or not.

`HandlesReach` says that three windows and the processes have at most one handle more than
there are. The code has 50 handles (`DECT_PHY_PERF_TX_HANDLE_START` to `..._END`), a
window of 7 and 8 processes, for which it asks for 28. It is sufficient, not necessary: for a
window and processes of two it asks for seven, where TLC finds `TxApart` to hold with five
or more and to fail with four or fewer. The run takes five.

### RF tool

`RfToolProofs` proves all three safety properties of `RfTool` for any numbers of frames,
intervals, commands and failures and queues of any length; the one assumption is
`RfAssumption`, the types of the constants.

* `ToolAlwaysAgrees`: `ToolAgrees`. A run ends only in the step that tells control, and a
  start that fails tells control at once (`LaunchTakes`). With its type invariant
  (`Typed`) the property is inductive.
* `RunsAreDriven`: `Driven`. `Going` is its inductive form and names what drives a run:
  an operation that its interval goes by, which is listed, with the modem or just over
  (`OnTheWay`), or while the run waits for a header the RX to synchronise, the header
  itself or the end of the RX (`Synching`). Each turn passes an operation on to one of these
  places (`TurnGoesOn`) and each event the thread takes starts something, ends the run
  or was not what drives it. What is listed for earlier runs plays no part, so the
  theorem needs no condition on `astray`.
* `IntervalsInTurn`: `OneInterval`. Counting drivers is not inductive. `Steady` counts what may
  become one: operations that count (`OnWay`), RXs to synchronise (`Radio`) and headers,
  each at most once; nothing is listed while the run waits for a header or the last turn
  of its operation is under way (`OnTheMove`), which of an RX_TX interval holds since RX and TX
  take turns and TX comes last (`TakesTurns`); and the events of an interval are queued in
  the order header, end of the RX, end of the operation (`Sorted`), so what is behind the
  one that ends or restarts the run does nothing to it. Once the end of the run is queued
  only such inert events are before it (`Reaches`). `OneInv` (`GoingStays` and the `...Single`
  lemmas, one per part of the system) is the invariant, checked with TLC before it was
  proved.

About `RfFrame` it proves, for every value of the 8-bit frame options: each operation ends
within its frame (`TurnsApart`), so that its turns cannot overlap; the length of a
frame fits its 16 bits (`FrameFits`); the default offset keeps RX and TX apart
(`DefaultsApart`, with the condition the code lacks); and the duty cycle is at most
100 % for any number of completions (`DutyCycleBounded`). No assumption is made:
`Params` is the type of the options.

### PHY control and beacon

`ControlProofs` proves all five safety properties of the runs `ctrl` and `beacon`, for any
number of channels, commands and troubles and any sets of commands, tools, refusals and
parts of a start that may fail. The assumptions are `PhyCtrlAssumption` and
`BeaconAssumption`, the types of the constants; what users do (`Alone`, `Reclaimed`) is part
of the model, as above.

| theorem | states | further hypotheses |
|---|---|---|
| `CtrlTyped` | `TypeOK` | none |
| `ToolIsHeard` | `ToolHeard` | none |
| `VerdictsHaveData` | `VerdictHasData` | none |
| `ScanHasOneStep` | `OneStep` | `"queue" \notin Exhausts` |
| `BeaconStaysOnAir` | `BeaconOnAir` | none |
| `BeaconIsHeard` | `BeaconHeard` | `~Mixes` |

PHY control runs twice: alone (`Spec`) and under the beacon (`BeaconSpec`), whose work
queue waits for its scans. What a step of it does is shown once for both: it keeps the
types (`Typed`), and it neither moves the work queue, nor lets it wait for a scan that is
over, nor gives the modem away under an external command (`Spares`). Each invariant below
was checked with TLC first.

* `AirInv`, for `BeaconOnAir`. `Starting` takes three stretches of the work queue, between
  which the shell, control and the scan act; `Choosing` says that a start finds nothing
  under way until its scan begins (`Still`) and waits only while that scan goes on, and what
  the work queue may hold. `OnAir` adds to the property that a beacon which starts does not run and
  has nothing listed: otherwise an LMS report, which may unlist the TX at any time,
  would leave it without the stop that it asks for. What the scheduler drops, it
  drops at any time (`DroppedAir`); only a TX it dropped itself is excused.
* `HearInv`, for `BeaconHeard`: from the moment a start is asked for to its stop, the external
  command is the beacon's and control has the handler (`Held`). `~Mixes` is the run's
  condition: a client operation that fails or ends clears the callbacks of all.
* `Lending`, for `ToolHeard`. While a tool starts, runs or is reclaimed (`ToolAbout`)
  nothing else is under way and control has nothing to take but the end of that tool
  (`Lent`); a tool that starts while the one before is reclaimed stands behind the control
  thread, or the handler it gets would be taken away again.
* `ScanInv`, for `OneStep` and `VerdictHasData`. `Count` sums the messages to control,
  requests, operations and waits that are a step of a scan; it is at most one, also after
  a stop, when nothing but it tells that a scan was there. A timer runs only between
  rounds, a reception excludes scans and their repetition, a measurement in the modem that
  was taken was stored. That a scan on going has its step needs room in the RX thread's queue:
  a request that is lost there leaves its command on going for ever (under "hazards").

### RX ring, HS-DECT sessions

`ControlProofs` proves `ChannelsRight` (`RightChannel`, `InTable`) for a table of any size,
any handles but 0 and any channels: a lookup, also between two assignments of a store, finds the channel of
the latest RX with its handle or none. The invariant `RxInv` needs that a handle has
one place (`OnePlace`, or a lookup could find an older entry first) and what a store
under way knows (`StoreOK`). Assumed is that stores do not overlap; the code has no
lock. TLC checked both on three handles and a table of two places.

`HsSessionProofs` proves `SessionsAlwaysExclude` and `AnswersAreOwn` (`SessionsExclude`,
`OwnCompletion`) for any refused calls, failed requests and number of starts. What is
assumed is `Regular`: no file comparison, and no thread created while it runs. Nothing in
the code is a lock here, so the argument is the library's: its "init" fails while it is
initialised, and it is initialised as long as a thread is in a session (`InLib`).
`HsInv` adds that a pending call is the one its thread waits at (`PendingOwn`) and that a
given semaphore has a waiting thread whose call was answered (`GivenOwn`). As only one
thread is in a session, at most one call is pending or one semaphore given, which is what
each step uses (`NothingUnderWay`, `SessionGoesOn`).

### Model-checked only

Liveness (under fairness: out of the prover's reach). The violations are, by nature,
shown by their runs alone.

## 5. Abstractions

* Payloads, headers and HARQ buffers of an item, and their updates in place.
* Heap exhaustion in the scheduler and MAC (in `PhyCtrl` it is modelled).
* The scheduler's mutex has a 1 s timeout after which `list_item_add` goes on
  without it; the walk is assumed shorter.
* `cb_pdc_received` of the scheduler is never set by a caller and left out.
* Modem time is counted in frames; offsets inside a frame are small numbers.
* Re-initialising a pending work item (`k_work_init_delayable`) is taken as a
  restart of the timeout; what the kernel's list then holds is not modelled.
* RSSI values and verdict thresholds; of a frame's symbols, three representatives.
* Statistics, RSSI, power control and PDU layout of ping and perf.
* Perf: packets are apart (a header comes when the queue is empty), an RX that
  overlaps another operation is lost at once, one client asks for the results at a
  time, the queue's limit of 10 is not reached, a HARQ process ages (2 s) only when its
  TX and feedback are settled; only servers run without an end.
* RF tool: completions of other turns than the last, data and CRC errors only feed
  the metrics; the modem has at most one last turn of a kind, reports them in order but
  for those that overlap a long RX, and refuses or fails what overlaps at once; the
  operations of an interval take turns one after the other; `rf_tool_data` is
  forgotten when control has the modem back; frame times are not modelled, their
  arithmetic is `RfFrame`.
* Encoding and SFN update of the beacon, association responses of the FT.

## 6. Plan

Built: all the modules of section 2. Every safety property of the passing runs has a theorem;
`RfFrame` is proved for every input. Next:

1. `RadioRequests`: the semaphores of activate, configure, radio mode and the get
   requests. Each wait has a timeout of 5 s and its answer gives the one
   semaphore whenever it comes, so a late answer ends the next wait early; there is
   no property of it that the code keeps, other than with answers in time.

## 7. Not modelled

* FT association table, fixed uplink schedule: not called (see the divergences).
* MAC receive path, PDU encodings: data the properties do not tell apart; what the
  receive path calls is in `MacClient`.
* Performance counters, shell option parsing, settings, startup commands, printing:
  no behaviour beyond a call or an output. The shell commands that change state are
  actions of the components they call.
* The file comparison of HS-DECT (`fping.c`) is in `HsSession`, but its jobs are in no
  run: it uses the modem without a session, and with it no property there holds.
