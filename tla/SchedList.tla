------------------------------- MODULE SchedList -------------------------------
(***************************************************************************)
(* The placement algorithm of dect_phy_api_scheduler_list_item_add(): where*)
(* in to_be_sheduled_list a new operation goes, or that it is refused.     *)
(*                                                                         *)
(* A list is a sequence of operation names, an item a record with          *)
(*   frame  sched_config.frame_time                                        *)
(*   start  offset of the operation inside its frame (start_slot/_subslot) *)
(*   len    rx.duration if set, else length_slots/_subslots                *)
(*   prio   priority, a smaller number being more urgent                   *)
(* all of them in one time unit.                                           *)
(***************************************************************************)
EXTENDS Integers, Sequences, FiniteSets, SequencesExt

CONSTANTS
  FrameLen,   \* DECT_RADIO_FRAME_DURATION_IN_MODEM_TICKS
  Margin      \* latency margin between operations, asked from the modem

ASSUME TimesAssumption == FrameLen \in Nat \ {0} /\ Margin \in Nat

--------------------------------------------------------------------------------
(* dect_phy_api_scheduling_priority_t and its classes.                     *)

FORCE_TX == 1
FORCE_RX == 2
P1_TX == 3
P1_RX == 4
P1_RX_RSSI == 5
P2_TX == 6
P2_RX == 7
LOWEST_RX == 8

Priorities == 1 .. 8
IsRx(p) == p \in {P1_RX, P2_RX, LOWEST_RX, FORCE_RX}
IsTx(p) == p \in {P1_TX, P2_TX, FORCE_TX}
IsForce(p) == p \in {FORCE_TX, FORCE_RX}

--------------------------------------------------------------------------------
StartTime(c) == c.frame + c.start

\* new_end_time of the item being added.
NewEnd(c) == StartTime(c) + c.len + Margin

\* list_end_time of an item of the list: the code counts it from the frame,
\* not from the start of the operation.
ListEnd(c) == c.frame + c.len + Margin

\* The overlap test of all three branches of the loop.
SeenOverlapping(new, old) ==
  /\ StartTime(old) <= NewEnd(new)
  /\ ListEnd(old) >= StartTime(new)

\* Only RX and forced TX may leave their frame.
FitsInFrame(c) ==
  c.prio = FORCE_TX \/ IsRx(c.prio) \/ NewEnd(c) < c.frame + FrameLen

\* Mutant of StopsAt: only an overlap ends the loop.
StopsAt_OverlapOnly(new, s, items) ==
  {i \in DOMAIN s : SeenOverlapping(new, items[s[i]])}

\* The positions at which the loop over the list stops looking further.
StopsAt(new, s, items) ==
  {i \in DOMAIN s : \/ new.frame <= items[s[i]].frame
                    \/ SeenOverlapping(new, items[s[i]])}

\* The position the new item gets, 0 when it is refused. Only the item the
\* loop stops at is compared with the new one.
Place(new, s, items) ==
  IF StopsAt(new, s, items) = {} THEN Len(s) + 1
  ELSE LET k == Min(StopsAt(new, s, items))
           old == items[s[k]]
       IN IF SeenOverlapping(new, old)
          THEN IF new.prio >= old.prio THEN 0 ELSE k
          ELSE IF new.frame = old.frame /\ StartTime(new) >= StartTime(old)
               THEN k + 1
               ELSE k

\* list_item_add(): the resulting list, whether the item was taken, and how
\* the scheduler thread is woken. A list that was empty gets an immediate
\* NEXT_FRAME event, any other one the 5 ms timer, a refusal included.
AddTo(s, items, op, c) ==
  IF ~FitsInFrame(c) THEN [ok |-> FALSE, list |-> s, wake |-> "none"]
  ELSE LET p == Place(c, s, items) IN
       [ok   |-> p # 0,
        list |-> IF p = 0 THEN s ELSE InsertAt(s, p, op),
        wake |-> IF s = <<>> THEN "event" ELSE "timer"]

\* list_item_remove_by_item()
Without(s, op) == RemoveFirst(s, op)

\* sys_dlist_peek_head() and the successor the SAFE iteration remembers.
HeadOr(s, none) == IF s = <<>> THEN none ELSE s[1]
After(s, op, none) ==
  IF \E i \in DOMAIN s : s[i] = op /\ i < Len(s)
  THEN s[(CHOOSE i \in DOMAIN s : s[i] = op /\ i < Len(s)) + 1]
  ELSE none
================================================================================
