------------------------------- MODULE Scheduler -------------------------------
(***************************************************************************)
(* The DECT PHY API scheduler (common/dect_phy_api_scheduler.c).           *)
(*                                                                         *)
(* Users put operations in to_be_sheduled_list under its mutex. A thread   *)
(* takes events from a message queue. On NEXT_FRAME it walks the list with *)
(* the mutex held: each step of the walk is an action here, since time and *)
(* the modem go on meanwhile, but no user touches the list. An operation   *)
(* given to the modem is copied to the done list, where it stays until its *)
(* completion is taken from the queue.                                     *)
(***************************************************************************)
EXTENDS SchedList

CONSTANTS
  Ops,           \* list items (heap blocks); each is allocated at most once
  NoOp,          \* the NULL pointer
  Conf,          \* what the user writes in each item
  Frames,        \* frame times users ask for
  Window,        \* DECT_PHY_API_SCHEDULER_OP_TIME_WINDOW_MS
  MaxTrials,     \* DECT_PHY_API_SCHEDULER_OP_MAX_COUNT
  QCap,          \* capacity of the event queue
  MayFail,       \* operations the modem may refuse
  BgScans,       \* operations that are unlinked without being freed, also by
                 \* their own cb_op_completed (dect_phy_mac_nbr_bg_scan.c)
  Shifts,        \* frame_time corrections users may apply
  MaxTime,       \* bound: modem time
  MaxCalls,      \* bound: suspend, resume, purge, remove and shift calls
  KeepsUp        \* TRUE: no listed frame passes before the thread gets to it

HandlesOf(op) == IF Conf[op].range THEN Conf[op].lo .. Conf[op].hi
                 ELSE {Conf[op].handle}
Handles == UNION {HandlesOf(op) : op \in Ops}

Item == [frame : Int, start : Nat, len : Nat, prio : Priorities,
         handle : Nat, range : BOOLEAN, lo : Nat, hi : Nat,
         ival : Nat, left : Nat \cup {-1}, done : BOOLEAN, cnt : BOOLEAN]

ASSUME SchedulerAssumption ==
  /\ NoOp \notin Ops
  /\ Conf \in [Ops -> Item]
  /\ \A op \in Ops : Conf[op].range => Conf[op].handle \in Conf[op].lo .. Conf[op].hi
  /\ Frames \subseteq Nat
  /\ Shifts \subseteq Int
  /\ Window \in Nat /\ MaxTrials \in Nat \ {0} /\ QCap \in Nat \ {0}
  /\ MaxTime \in Nat /\ MaxCalls \in Nat
  /\ MayFail \subseteq Ops /\ BgScans \subseteq Ops
  /\ KeepsUp \in BOOLEAN

VARIABLES
  list,      \* to_be_sheduled_list
  item,      \* the items' memory
  alloc,     \* the items that are allocated
  done,      \* done_sheduled_list: copies of items given to the modem
  queue,     \* the event queue
  timer,     \* scheduler_timer is running
  state,     \* scheduler_data.state
  now,       \* dect_app_modem_time_now()
  modem,     \* the operations the modem has accepted and not completed
  pc,        \* "wait": in k_msgq_get(), "tick": walking the list
  cur, nxt,  \* iterator and safe of the walk
  keep,      \* ~remove_from_list (dealloc_list_item always equals it)
  addDone,   \* add_item_to_done_list
  trials,    \* op_count_trials_to_mdm
  \* history
  fresh,     \* items never allocated so far
  cancelled, \* items a user took out of the list, or purged later
  asked,     \* the frame_time of the first turn, with all corrections
  turns,     \* how often the walk has handled an item
  ended,     \* how often an item's cb_op_completed has been called
  dropped,   \* kinds of events lost to a full queue
  calls      \* control calls made

listVars == <<list, item, alloc>>
walkVars == <<pc, cur, nxt, keep, addDone, trials>>
histVars == <<fresh, cancelled, asked, turns, ended, calls>>
vars == <<list, item, alloc, done, queue, timer, state, now, modem, pc, cur,
          nxt, keep, addDone, trials, fresh, cancelled, asked, turns, ended,
          dropped, calls>>

EventIds == {"NEXT_FRAME", "OP_COMPLETED", "OP_SUSPEND", "OP_RESUME",
             "OP_LIST_PURGE", "OP_LIST_ITEM_RM_DEALLOC"}
Events == [id : EventIds, handle : Nat]
Event(id, h) == [id |-> id, handle |-> h]
NextFrame == Event("NEXT_FRAME", 0)

Listed(op) == \E i \in DOMAIN list : list[i] = op

\* k_msgq_put(K_NO_WAIT) of each of evs in turn; callers ignore -ENOBUFS.
Put(q, evs) ==
  LET n == IF Len(q) + Len(evs) <= QCap THEN Len(evs) ELSE QCap - Len(q) IN
  /\ queue' = q \o SubSeq(evs, 1, n)
  /\ dropped' = dropped \cup {evs[i].id : i \in n + 1 .. Len(evs)}

\* Mutant of WakeEvents: an add to an empty list wakes nobody.
WakeEvents_Silent(r) == <<>>
\* The event list_item_add() raises itself, if it does.
WakeEvents(r) == IF r.wake = "event" THEN <<NextFrame>> ELSE <<>>

\* How often cb_op_completed of op runs in one done_list_mdm_op_complete(), or
\* in the two calls of the last counted turn of a delayed item.
Completions(op, twice) == IF ~Conf[op].done THEN 0 ELSE IF twice THEN 2 ELSE 1

\* The items with a handle; the SYS_DLIST_FOR_EACH searches find the first.
WithHandle(h) == {i \in DOMAIN list : item[list[i]].handle = h}

--------------------------------------------------------------------------------
Init ==
  /\ list = <<>> /\ item = Conf /\ alloc = {} /\ done = <<>>
  /\ queue = <<>> /\ timer = FALSE /\ state = "NORMAL" /\ now = 0
  /\ modem = <<>> /\ pc = "wait" /\ cur = NoOp /\ nxt = NoOp
  /\ keep = FALSE /\ addDone = FALSE /\ trials = 0
  /\ fresh = Ops /\ cancelled = {} /\ dropped = {} /\ calls = 0
  /\ asked = [op \in Ops |-> 0]
  /\ turns = [op \in Ops |-> 0]
  /\ ended = [op \in Ops |-> 0]

--------------------------------------------------------------------------------
(* Users: any thread, but never while the walk holds the mutex.            *)

\* alloc_*_element(), filling the item in, list_item_add(), and
\* list_item_dealloc() when it is refused.
Add(op, f) ==
  /\ pc = "wait" /\ op \in fresh
  /\ KeepsUp => f >= now
  /\ LET c == [Conf[op] EXCEPT !.frame = f]
         r == AddTo(list, item, op, c)
     IN /\ item' = [item EXCEPT ![op] = c]
        /\ list' = r.list
        /\ alloc' = IF r.ok THEN alloc \cup {op} ELSE alloc
        /\ timer' = (timer \/ r.wake = "timer")
        /\ Put(queue, WakeEvents(r))
  /\ fresh' = fresh \ {op} /\ asked' = [asked EXCEPT ![op] = f]
  /\ UNCHANGED <<done, state, now, modem, cancelled, turns, ended, calls>>
  /\ UNCHANGED walkVars

\* Mutant of Unlink: the item is found and not removed.
Unlink_Keeps(h) ==
  /\ UNCHANGED list
  /\ cancelled' = IF WithHandle(h) = {} THEN cancelled
                  ELSE cancelled \cup {list[Min(WithHandle(h))]}

\* list_item_remove_by_phy_op_handle(): the first item with the handle.
Unlink(h) ==
  IF WithHandle(h) = {} THEN UNCHANGED <<list, cancelled>>
  ELSE LET op == list[Min(WithHandle(h))] IN
       /\ list' = Without(list, op)
       /\ cancelled' = cancelled \cup {op}

\* What the remover frees. A background scan ignores the item it gets back.
FreeUnlinked(h) ==
  IF WithHandle(h) = {} THEN UNCHANGED alloc
  ELSE alloc' = alloc \ ({list[Min(WithHandle(h))]} \ BgScans)

UserCall == calls < MaxCalls /\ calls' = calls + 1

\* list_item_remove_dealloc_by_phy_op_handle(), dect_phy_mac_nbr_bg_scan_stop()
RemoveByHandle(h) ==
  /\ pc = "wait" /\ UserCall
  /\ Unlink(h) /\ FreeUnlinked(h)
  /\ UNCHANGED <<item, done, queue, timer, state, now, modem, fresh, asked,
                 turns, ended, dropped>>
  /\ UNCHANGED walkVars

\* sched_config_frame_time_update_by_phy_op_handle(): in place, the list is
\* not sorted again.
ShiftFrame(h, d) ==
  /\ pc = "wait" /\ UserCall
  /\ IF WithHandle(h) = {} THEN UNCHANGED <<item, asked>>
     ELSE LET op == list[Min(WithHandle(h))] IN
          /\ item' = [item EXCEPT ![op].frame = @ + d]
          /\ asked' = [asked EXCEPT ![op] = @ + d]
  /\ UNCHANGED <<list, alloc, done, queue, timer, state, now, modem, fresh,
                 cancelled, turns, ended, dropped>>
  /\ UNCHANGED walkVars

\* suspend(), resume(), list_delete_all_items() and
\* th_list_item_remove_dealloc_by_phy_op_handle(): an event each.
Request(e) ==
  /\ UserCall
  /\ Put(queue, <<e>>)
  /\ UNCHANGED <<done, timer, state, now, modem, fresh, cancelled, asked,
                 turns, ended>>
  /\ UNCHANGED listVars /\ UNCHANGED walkVars

Requests == {Event("OP_SUSPEND", 0), Event("OP_RESUME", 0), Event("OP_LIST_PURGE", 0)}
              \cup {Event("OP_LIST_ITEM_RM_DEALLOC", h) : h \in Handles}

--------------------------------------------------------------------------------
(* The environment of the thread.                                          *)

\* Modem time passes.
Advance ==
  /\ now < MaxTime
  /\ KeepsUp => \A i \in DOMAIN list : item[list[i]].frame > now
  /\ now' = now + 1
  /\ UNCHANGED <<done, queue, timer, state, modem, dropped>>
  /\ UNCHANGED listVars /\ UNCHANGED walkVars /\ UNCHANGED histVars

\* dect_phy_api_scheduler_timer_handler()
TimerFires ==
  /\ timer
  /\ timer' = FALSE
  /\ Put(queue, <<NextFrame>>)
  /\ UNCHANGED <<done, state, now, modem>>
  /\ UNCHANGED listVars /\ UNCHANGED walkVars /\ UNCHANGED histVars

\* The modem completes an operation; mdm_op_completed() queues it.
ModemCompletes(i) ==
  /\ modem' = RemoveAt(modem, i)
  /\ Put(queue, <<Event("OP_COMPLETED", modem[i].handle)>>)
  /\ UNCHANGED <<done, timer, state, now>>
  /\ UNCHANGED listVars /\ UNCHANGED walkVars /\ UNCHANGED histVars

--------------------------------------------------------------------------------
(* The thread: one event at a time.                                        *)

Takes(id) == pc = "wait" /\ queue # <<>> /\ Head(queue).id = id

\* done_list_mdm_op_complete(params, NULL). The cb_op_completed of a
\* background scan that has not heard its neighbour for long unlinks the scan
\* (giveUp).
TakeCompleted(giveUp) ==
  /\ Takes("OP_COMPLETED")
  /\ queue' = Tail(queue)
  /\ LET h == Head(queue).handle
         F == {i \in DOMAIN done : done[i].handle = h}
     IN IF F = {} THEN ~giveUp /\ UNCHANGED <<list, done, cancelled, ended>>
        ELSE LET op == done[Min(F)].op IN
             /\ giveUp => op \in BgScans
             /\ done' = RemoveAt(done, Min(F))
             /\ ended' = [ended EXCEPT ![op] = @ + Completions(op, FALSE)]
             /\ IF giveUp THEN Unlink(h) ELSE UNCHANGED <<list, cancelled>>
  /\ UNCHANGED <<item, alloc, timer, state, now, modem, fresh, asked, turns,
                 dropped, calls>>
  /\ UNCHANGED walkVars

\* list_purge() and done_list_purge()
TakePurge ==
  /\ Takes("OP_LIST_PURGE")
  /\ queue' = Tail(queue)
  /\ list' = <<>> /\ done' = <<>>
  /\ alloc' = {op \in alloc : ~Listed(op)}
  /\ cancelled' = cancelled \cup {op \in Ops : Listed(op)}
                           \cup {done[i].op : i \in DOMAIN done}
  /\ UNCHANGED <<item, timer, state, now, modem, fresh, asked, turns,
                 ended, dropped, calls>>
  /\ UNCHANGED walkVars

TakeRemove ==
  /\ Takes("OP_LIST_ITEM_RM_DEALLOC")
  /\ queue' = Tail(queue)
  /\ Unlink(Head(queue).handle) /\ FreeUnlinked(Head(queue).handle)
  /\ UNCHANGED <<item, done, timer, state, now, modem, fresh, asked, turns,
                 ended, dropped, calls>>
  /\ UNCHANGED walkVars

TakeSuspendOrResume ==
  /\ Takes("OP_SUSPEND") \/ Takes("OP_RESUME")
  /\ queue' = Tail(queue)
  /\ state' = IF Head(queue).id = "OP_SUSPEND" THEN "SUSPENDED" ELSE "NORMAL"
  /\ UNCHANGED <<done, timer, now, modem, dropped>>
  /\ UNCHANGED listVars /\ UNCHANGED walkVars /\ UNCHANGED histVars

\* core_tick_th_schedule_next_frame() is entered: the locals get their
\* initial values and the mutex is taken.
TakeNextFrame ==
  /\ Takes("NEXT_FRAME")
  /\ queue' = Tail(queue)
  /\ pc' = "tick"
  /\ cur' = HeadOr(list, NoOp)
  /\ nxt' = After(list, HeadOr(list, NoOp), NoOp)
  /\ keep' = FALSE /\ addDone' = FALSE /\ trials' = 0
  /\ UNCHANGED <<done, timer, state, now, modem, dropped>>
  /\ UNCHANGED listVars /\ UNCHANGED histVars

--------------------------------------------------------------------------------
(* The walk over the list.                                                 *)

\* The locals lose their meaning with the end of the function.
LeaveWalk ==
  /\ pc' = "wait" /\ cur' = NoOp /\ nxt' = NoOp
  /\ keep' = FALSE /\ addDone' = FALSE /\ trials' = 0

\* The loop continues with safe, and safe with its successor.
StepTo(l) == cur' = nxt /\ nxt' = After(l, nxt, NoOp) /\ UNCHANGED pc

Delayed(op) == item[op].frame < now
TooManyTrials == trials >= MaxTrials
TooEarly(op) == item[op].frame - now > Window

\* Mutants of CountedDown: the last turn does not disable the interval, and the
\* count is not compared with zero.
CountedDown_GoesOn(c) == [c EXCEPT !.left = IF @ > 0 THEN @ - 1 ELSE @]
CountedDown_Unguarded(c) ==
  [c EXCEPT !.left = @ - 1, !.ival = IF c.left = 1 THEN 0 ELSE @]

\* interval_count_left and interval_mdm_ticks after a turn.
CountedDown(c) ==
  [c EXCEPT !.left = IF @ > 0 THEN @ - 1 ELSE @,
            !.ival = IF c.left = 1 THEN 0 ELSE @]

\* The item moved to its next interval: frame_time and, with a handle range,
\* phy_op_handle.
NextTurn(c) ==
  [c EXCEPT !.frame = @ + c.ival,
            !.handle = IF ~c.range THEN @
                       ELSE IF @ + 1 > c.hi THEN c.lo ELSE @ + 1]

\* Mutant of LeftOver: a handled item is freed and not removed.
LeftOver_Stays(l, stays) == l

\* remove_from_list and dealloc_list_item decide what becomes of cur.
LeftOver(l, stays) == IF stays THEN l ELSE Without(l, cur)

\* The end of the turn of cur, c being its memory and l the list its callback
\* left: an interval item is removed and added again, any other one goes,
\* unless keep says that it stays.
TurnOver(l, c, kept) ==
  LET again == c.ival # 0
      r == AddTo(Without(l, cur), item, cur, NextTurn(c))
      taken == again /\ r.ok
      stays == kept \/ taken
  IN [item  |-> IF again THEN NextTurn(c) ELSE c,
      late  |-> again /\ ~r.ok,
      taken |-> taken,
      freed |-> ~stays,
      list  |-> LeftOver(IF again THEN r.list ELSE l, stays),
      timer |-> again /\ r.wake = "timer",
      wake  |-> IF again THEN WakeEvents(r) ELSE <<>>]

\* What both kinds of turn do with their TurnOver t.
Apply(t) ==
  /\ list' = t.list
  /\ item' = [item EXCEPT ![cur] = t.item]
  /\ alloc' = IF t.freed THEN alloc \ {cur} ELSE alloc
  /\ timer' = (timer \/ t.timer)
  /\ turns' = [turns EXCEPT ![cur] = @ + 1]
  /\ StepTo(t.list)

\* The turn that uses up a count and has cb_op_completed_with_count.
LastCounted(op) == item[op].left = 1 /\ Conf[op].cnt

\* The frame of cur has passed: its callbacks run at once. The branch never
\* sets keep back.
TurnDelayed(giveUp) ==
  /\ pc = "tick" /\ cur # NoOp /\ Delayed(cur)
  /\ giveUp => cur \in BgScans
  /\ LET l == IF giveUp THEN Without(list, cur) ELSE list
         t == TurnOver(l, CountedDown(item[cur]), keep)
     IN /\ Apply(t)
        /\ Put(queue, t.wake)
        /\ keep' = (keep \/ t.taken)
  /\ ended' = [ended EXCEPT ![cur] = @ + Completions(cur, LastCounted(cur))]
  /\ cancelled' = IF giveUp THEN cancelled \cup {cur} ELSE cancelled
  /\ UNCHANGED <<done, state, now, modem, addDone, trials, fresh, asked,
                 calls>>

\* Enough for this time: the 10 ms or the 100 ms timer brings the thread back.
TurnPostponed ==
  /\ pc = "tick" /\ cur # NoOp /\ ~Delayed(cur)
  /\ TooManyTrials \/ TooEarly(cur)
  /\ timer' = TRUE
  /\ LeaveWalk
  /\ UNCHANGED <<done, queue, state, now, modem, dropped>>
  /\ UNCHANGED listVars /\ UNCHANGED histVars

\* Mutant of NeedsDone: cb_op_completed is not asked for.
NeedsDone_Forced(op) == addDone \/ IsForce(item[op].prio)

\* add_item_to_done_list, which one item can leave set for the next ones.
NeedsDone(op) ==
  addDone \/ Conf[op].done \/ IsForce(item[op].prio) \/ LastCounted(op)

\* Mutants of FailureEvents: a failed turn is not completed, or every turn is.
FailureEvents_None(failed, h) == <<>>
FailureEvents_Always(failed, h) == <<Event("OP_COMPLETED", h)>>

\* A turn that failed, or could not be repeated, is completed by an event of
\* its own, with the handle the item has by then.
FailureEvents(failed, h) ==
  IF failed THEN <<Event("OP_COMPLETED", h)>> ELSE <<>>

\* core_mdm_phy_op() on cur: the modem may refuse it (err), and a suspended
\* scheduler does not ask.
TurnSent(err) ==
  /\ pc = "tick" /\ cur # NoOp /\ ~Delayed(cur)
  /\ ~TooManyTrials /\ ~TooEarly(cur)
  /\ err => cur \in MayFail
  /\ LET t == TurnOver(list, CountedDown(item[cur]), keep)
         failed == state = "SUSPENDED" \/ err
         entry == [op |-> cur, handle |-> item[cur].handle]
     IN /\ Apply(t)
        /\ modem' = IF failed THEN modem ELSE Append(modem, entry)
        /\ addDone' = NeedsDone(cur)
        /\ done' = IF NeedsDone(cur) THEN Append(done, entry) ELSE done
        /\ Put(queue, t.wake \o FailureEvents(failed \/ t.late, t.item.handle))
        /\ trials' = IF failed \/ t.late THEN MaxTrials ELSE trials + 1
        /\ keep' = FALSE
  /\ UNCHANGED <<state, now, fresh, cancelled, asked, ended, calls>>

WalkEnds ==
  /\ pc = "tick" /\ cur = NoOp
  /\ LeaveWalk
  /\ UNCHANGED <<done, queue, timer, state, now, modem, dropped>>
  /\ UNCHANGED listVars /\ UNCHANGED histVars

--------------------------------------------------------------------------------
Walk ==
  \/ \E giveUp \in BOOLEAN : TurnDelayed(giveUp)
  \/ \E err \in BOOLEAN : TurnSent(err)
  \/ TurnPostponed
  \/ WalkEnds

Thread ==
  \/ \E giveUp \in BOOLEAN : TakeCompleted(giveUp)
  \/ TakePurge \/ TakeRemove \/ TakeSuspendOrResume
  \/ TakeNextFrame \/ Walk

Users ==
  \/ \E op \in Ops, f \in Frames : Add(op, f)
  \/ \E h \in Handles : RemoveByHandle(h)
  \/ \E h \in Handles, d \in Shifts : ShiftFrame(h, d)
  \/ \E e \in Requests : Request(e)

Modem == \E i \in DOMAIN modem : ModemCompletes(i)

Next == Users \/ Modem \/ Thread \/ TimerFires \/ Advance

Spec == Init /\ [][Next]_vars

\* The thread has the highest priority but one, timers expire, time passes
\* and the modem completes what it accepted.
Fairness == WF_vars(Thread) /\ WF_vars(TimerFires) /\ WF_vars(Modem) /\ WF_vars(Advance)
FairSpec == Spec /\ Fairness

--------------------------------------------------------------------------------
(* Properties.                                                             *)

OneShot(op) == Conf[op].ival = 0

CountOf(s, h) == Cardinality({i \in DOMAIN s : s[i].handle = h})
Pending(id) == {i \in DOMAIN queue : queue[i].id = id}

TypeOK ==
  /\ list \in Seq(Ops) /\ item \in [Ops -> Item] /\ alloc \subseteq Ops
  /\ done \in Seq([op : Ops, handle : Nat])
  /\ queue \in Seq(Events)
  /\ timer \in BOOLEAN /\ state \in {"NORMAL", "SUSPENDED"} /\ now \in Nat
  /\ modem \in Seq([op : Ops, handle : Nat])
  /\ pc \in {"wait", "tick"} /\ cur \in Ops \cup {NoOp} /\ nxt \in Ops \cup {NoOp}
  /\ keep \in BOOLEAN /\ addDone \in BOOLEAN /\ trials \in Nat
  /\ fresh \subseteq Ops /\ cancelled \subseteq Ops /\ asked \in [Ops -> Int]
  /\ turns \in [Ops -> Nat] /\ ended \in [Ops -> Nat]
  /\ dropped \subseteq EventIds
  /\ calls \in Nat

\* The heap: the list holds an item once, and an item is allocated exactly as
\* long as it is listed, but for the scans that were unlinked and not freed.
\* Any other leak, a use after free or a double insertion by the re-adding
\* walk, a removal or a purge would break it.
ListOwnsHeap ==
  /\ \A i, j \in DOMAIN list : list[i] = list[j] => i = j
  /\ \A op \in Ops : Listed(op) => op \in alloc
  /\ \A op \in alloc : Listed(op) \/ op \in cancelled \cap BgScans

WakePending ==
  timer \/ Pending("NEXT_FRAME") # {} \/ "NEXT_FRAME" \in dropped

\* Whenever the thread sleeps with work to do, something will wake it: the
\* timer, a NEXT_FRAME event, or such an event was lost to a full queue. No
\* path through the walk, an add, a refused add or a failed re-add forgets it.
NoStall == pc = "wait" /\ list # <<>> => WakePending

\* What NoStall rests on. Between two events the thread owes a visit to every
\* listed item, so as long as nothing will wake it the walk must be at the head
\* of the list, with no turn behind it that left an item in place.
WalkCovers ==
  pc = "tick" /\ ~WakePending =>
    cur = HeadOr(list, NoOp) /\ nxt = After(list, cur, NoOp) /\ ~keep

ListedOnce ==
  /\ \A i, j \in DOMAIN list : list[i] = list[j] => i = j
  /\ \A i \in DOMAIN list : list[i] \notin fresh
  /\ cur \notin fresh /\ nxt \notin fresh

QueueBounded == Len(queue) <= QCap

SchedInv == TypeOK /\ QueueBounded /\ ListedOnce /\ WalkCovers /\ NoStall

\* With operations of one priority the list is ordered by frame time, which
\* the early return of the walk ("frame_time much later. Let's come back
\* later") relies on.
FrameSorted ==
  (Shifts = {} /\ \A a, b \in Ops : Conf[a].prio = Conf[b].prio) =>
    \A i, j \in DOMAIN list : i < j => item[list[i]].frame <= item[list[j]].frame

\* The done list holds "the items that are sent to modem but not completed
\* there yet": each of its items has a completion to come, from the modem or
\* in the queue.
DoneAwaitsCompletion ==
  "OP_COMPLETED" \in dropped \/
    \A h \in Handles :
      CountOf(done, h) <=
        CountOf(modem, h)
          + Cardinality({i \in Pending("OP_COMPLETED") : queue[i].handle = h})

\* A one-shot operation has one turn, completes once, and never while the modem
\* has it.
OneShotsCompletedOnce ==
  \A op \in Ops :
    OneShot(op) => /\ turns[op] <= 1 /\ ended[op] <= 1
                   /\ ended[op] = 1 => \A i \in DOMAIN modem : modem[i].op # op

\* Each turn that the modem was given is completed, and once.
CompletedOnce == DoneAwaitsCompletion /\ OneShotsCompletedOnce

\* An operation with an interval and a count gets exactly its turns, on the
\* grid of its interval (moved by the corrections), and each turn is completed at
\* most once.
IntervalCount ==
  \A op \in Ops : Conf[op].ival # 0 /\ Conf[op].left > 0 =>
    /\ turns[op] + item[op].left = Conf[op].left
    /\ Listed(op) => item[op].frame = asked[op] + turns[op] * Conf[op].ival
    /\ Listed(op) => item[op].left > 0
    /\ ended[op] <= turns[op]

\* A cancelled operation does not come back to the list.
CancelledStaysOut == \A op \in cancelled : ~Listed(op)

\* The abstract life of the one-shot operations, read off the lists and the
\* history; LifeSpec is refined as long as no interval operation runs late.
Shots == {op \in Ops : OneShot(op) /\ Conf[op].done}
StageOf(op) ==
  IF op \in fresh THEN "new"
  ELSE IF ended[op] > 0 THEN "over"
  ELSE IF \E i \in DOMAIN done : done[i].op = op THEN "busy"
  ELSE IF op \in cancelled THEN "cancelled"
  ELSE IF Listed(op) THEN "listed"
  ELSE "refused"

Life == INSTANCE OpLife WITH life <- [op \in Shots |-> StageOf(op)]

\* The detailed scheduler implements the promise.
RefinesOpLife == Life!LifeSpec

\* Every listed one-shot operation that has a completion callback gets it,
\* unless it is cancelled or an event is lost to a full queue.
CompletionComes ==
  \A op \in Ops : OneShot(op) /\ Conf[op].done =>
    (Listed(op) ~> (ended[op] > 0 \/ op \in cancelled \/ dropped # {}))
================================================================================
