------------------------------- MODULE MacClient -------------------------------
(***************************************************************************)
(* The PT side of the MAC: the neighbour list (mac/dect_phy_mac_nbr.c),    *)
(* the association slots (mac/dect_phy_mac_client.c) and the background    *)
(* scans of the neighbours (mac/dect_phy_mac_nbr_bg_scan.c).               *)
(*                                                                         *)
(* Nothing locks the associations and the scans. Four threads work on      *)
(* them: the shell (associate, dissociate, clearing the list), the control *)
(* thread (beacons and responses received), the work queue (the response   *)
(* timeout) and the scheduler thread (the completed turns of a scan). The  *)
(* last three are cooperative, so each of their handlers is one action; a  *)
(* command of the shell can be preempted and is several. The three arrays  *)
(* have DECT_PHY_MAC_MAX_NEIGBORS places, pointers are indexes, 0 is NULL. *)
(***************************************************************************)
EXTENDS Naturals, FiniteSets, FiniteSetsExt

CONSTANTS
  Fts,         \* long RD IDs of the beacons around
  NoId,        \* the long RD ID 0
  MaxNbrs,     \* DECT_PHY_MAC_MAX_NEIGBORS
  Timely,      \* TRUE: responses come when they are expected
  KeepsUp,     \* TRUE: no late turn finds that its neighbour is unreachable
  Clears,      \* TRUE: the user may clear the neighbour list
  MaxRequests  \* bound: association and release requests of the user

ASSUME MacClientAssumption ==
  /\ NoId \notin Fts /\ MaxNbrs \in Nat \ {0}
  /\ Timely \in BOOLEAN /\ KeepsUp \in BOOLEAN /\ Clears \in BOOLEAN
  /\ MaxRequests \in Nat

VARIABLES
  nbrs,     \* nbrs[]: reserved and long_rd_id
  assoc,    \* client_data.associations[]
  wait,     \* slots whose association_resp_wait_work is pending
  scan,     \* nbr_bg_scan_data[]; heard: last_updated_rcv_time_mdm_ticks # 0
  listed,   \* handles of the scans in the scheduler's list
  flying,   \* handles with a turn in the modem
  asked,    \* FTs that may still answer a request
  user,     \* where the command of the shell is
  requests  \* requests made

vars == <<nbrs, assoc, wait, scan, listed, flying, asked, user, requests>>

Slots == 1 .. MaxNbrs
Null == 0
Ids == Fts \cup {NoId}

\* Mutant of First: a search that fails ends past the array.
First_PastEnd(S) == IF S = {} THEN MaxNbrs + 1 ELSE Min(S)

\* The first place of an array that has what is searched, or NULL.
First(S) == IF S = {} THEN Null ELSE Min(S)

\* Mutant of AssocOf: the first slot in use is taken.
AssocOf_InUse(as, id) == First({a \in Slots : as[a].state # "DISASSOCIATED"})

NbrOf(id) == First({i \in Slots : nbrs[i].reserved /\ nbrs[i].id = id})
AssocOf(as, id) == First({a \in Slots : as[a].id = id})
FreeAssoc == First({a \in Slots : assoc[a].state = "DISASSOCIATED"})
ScanOf(sc, h) == First({i \in Slots : sc[i].running /\ sc[i].handle = h})
ScanOfNbr(id) == First({i \in Slots : scan[i].running /\ scan[i].id = id})
FreeScan(sc) == First({i \in Slots : ~sc[i].running})

--------------------------------------------------------------------------------
(* What the background scans do for their callers. s is the part of the    *)
(* state they work on, a record [assoc, scan, listed].                     *)

Current == [assoc |-> assoc, scan |-> scan, listed |-> listed]
Becomes(s) == assoc' = s.assoc /\ scan' = s.scan /\ listed' = s.listed

\* Mutant of Informed: the slot is not told.
Informed_Not(as, id) == as

\* dect_phy_mac_client_nbr_scan_completed_cb()
Informed(as, id) ==
  LET a == AssocOf(as, id) IN
  IF a = Null THEN as ELSE [as EXCEPT ![a].scanOn = FALSE]

\* dect_phy_mac_nbr_bg_scan_stop(), and the same steps for an unreachable
\* neighbour.
Stop(s, h) ==
  LET i == ScanOf(s.scan, h) IN
  IF i = Null THEN s
  ELSE [assoc  |-> Informed(s.assoc, s.scan[i].id),
        scan   |-> [s.scan EXCEPT ![i].running = FALSE],
        listed |-> s.listed \ {h}]

\* dect_phy_mac_nbr_bg_scan_start() with scheduling; added says whether the
\* scheduler takes the operation.
CanStart(s, h) == ScanOf(s.scan, h) = Null /\ h \notin s.listed /\ FreeScan(s.scan) # Null

Start(s, h, id, added) ==
  IF ~CanStart(s, h) \/ ~added THEN s
  ELSE [assoc  |-> [s.assoc EXCEPT ![h].scanOn = TRUE],
        scan   |-> [s.scan EXCEPT ![FreeScan(s.scan)] =
                      [running |-> TRUE, handle |-> h, id |-> id, heard |-> FALSE]],
        listed |-> s.listed \cup {h}]

--------------------------------------------------------------------------------
\* No command runs.
Idle == [step |-> "idle", slot |-> Null, ft |-> NoId, nbr |-> Null]

Init ==
  /\ nbrs = [i \in Slots |-> [reserved |-> FALSE, id |-> NoId]]
  /\ assoc = [a \in Slots |-> [state |-> "DISASSOCIATED", id |-> NoId,
                               nbr |-> Null, scanOn |-> FALSE]]
  /\ wait = {} /\ listed = {} /\ flying = {} /\ asked = {} /\ requests = 0
  /\ user = Idle
  /\ scan = [i \in Slots |-> [running |-> FALSE, handle |-> Null, id |-> NoId,
                              heard |-> FALSE]]

\* A cluster beacon with a RACH IE: dect_phy_mac_nbr_info_store_n_update() and
\* dect_phy_mac_nbr_bg_scan_rcv_time_shift_update().
Beacon(ft) ==
  /\ IF NbrOf(ft) # Null
     THEN /\ UNCHANGED nbrs
          /\ scan' = IF ScanOfNbr(ft) = Null THEN scan
                     ELSE [scan EXCEPT ![ScanOfNbr(ft)].heard = TRUE]
     ELSE LET free == First({i \in Slots : ~nbrs[i].reserved}) IN
          /\ free # Null
          /\ nbrs' = [nbrs EXCEPT ![free] = [reserved |-> TRUE, id |-> ft]]
          /\ UNCHANGED scan
  /\ UNCHANGED <<assoc, wait, listed, flying, asked, user, requests>>

\* dect_phy_mac_nbr_info_clear_all() of a beacon scan
ClearNbrs ==
  /\ Clears /\ user = Idle
  /\ nbrs' = [i \in Slots |-> [reserved |-> FALSE, id |-> NoId]]
  /\ UNCHANGED <<assoc, wait, scan, listed, flying, asked, user, requests>>

UserRequest == user = Idle /\ requests < MaxRequests /\ requests' = requests + 1

\* Mutant of SlotFor: a slot that has the FT already is not looked for.
SlotFor_Free(ft) == FreeAssoc

\* The slot an association request uses.
SlotFor(ft) == IF AssocOf(assoc, ft) # Null THEN AssocOf(assoc, ft) ELSE FreeAssoc

\* dect_phy_mac_ctrl_associate() of a neighbour that was seen, up to the request
Associate(ft) ==
  /\ UserRequest
  /\ NbrOf(ft) # Null /\ SlotFor(ft) # Null
  /\ user' = [step |-> "send", slot |-> SlotFor(ft), ft |-> ft, nbr |-> NbrOf(ft)]
  /\ assoc' = IF AssocOf(assoc, ft) = Null THEN assoc
              ELSE [assoc EXCEPT ![SlotFor(ft)].nbr = NbrOf(ft)]
  /\ UNCHANGED <<nbrs, wait, scan, listed, flying, asked>>

\* dect_phy_mac_client_associate_msg_send(): the scheduler may refuse it.
SendRequest(sent) ==
  /\ user.step = "send"
  /\ user' = IF sent THEN [user EXCEPT !.step = "commit"] ELSE Idle
  /\ asked' = IF sent THEN asked \cup {user.ft} ELSE asked
  /\ UNCHANGED <<nbrs, assoc, wait, scan, listed, flying, requests>>

\* Mutant of Commit: the target of a slot that has the FT already is not set.
Commit_TargetKept ==
  /\ user.step = "commit"
  /\ assoc' = [assoc EXCEPT ![user.slot] =
                 [@ EXCEPT !.state = "WAITING", !.id = user.ft,
                           !.nbr = IF assoc[user.slot].id = user.ft THEN @ ELSE user.nbr]]
  /\ wait' = wait \cup {user.slot}
  /\ user' = Idle
  /\ UNCHANGED <<nbrs, scan, listed, flying, asked, requests>>

\* The end of dect_phy_mac_client_associate(); the timer starts anew.
Commit ==
  /\ user.step = "commit"
  /\ assoc' = [assoc EXCEPT ![user.slot] =
                 [@ EXCEPT !.state = "WAITING", !.id = user.ft, !.nbr = user.nbr]]
  /\ wait' = wait \cup {user.slot}
  /\ user' = Idle
  /\ UNCHANGED <<nbrs, scan, listed, flying, asked, requests>>

\* Mutant of Cancelled: one timer for all the slots.
Cancelled_All(a) == {}

\* k_work_cancel_delayable() of the response wait
Cancelled(a) == wait \ {a}

\* dect_phy_mac_client_dissociate() up to the cancelled timeout
Dissociate(ft) ==
  /\ UserRequest
  /\ NbrOf(ft) # Null /\ AssocOf(assoc, ft) # Null
  /\ user' = [Idle EXCEPT !.step = "stop", !.slot = AssocOf(assoc, ft)]
  /\ wait' = Cancelled(AssocOf(assoc, ft))
  /\ UNCHANGED <<nbrs, assoc, scan, listed, flying, asked>>

StopForRelease ==
  /\ user.step = "stop"
  /\ user' = [user EXCEPT !.step = "release"]
  /\ Becomes([Stop(Current, user.slot) EXCEPT !.assoc[user.slot].scanOn = FALSE])
  /\ UNCHANGED <<nbrs, wait, flying, asked, requests>>

\* The slot is given back; whether the release is sent does not matter.
Release ==
  /\ user.step = "release"
  /\ user' = Idle
  /\ assoc' = [assoc EXCEPT ![user.slot] =
                 [@ EXCEPT !.state = "DISASSOCIATED", !.id = NoId, !.nbr = Null]]
  /\ UNCHANGED <<nbrs, wait, scan, listed, flying, asked, requests>>

Releasing(a) == user.step \in {"stop", "release"} /\ user.slot = a

\* What the timeout of slot a does; the slot keeps its long RD ID.
TimedOut(a) ==
  IF assoc[a].state # "WAITING" THEN UNCHANGED <<assoc, scan, listed>>
  ELSE Becomes([Stop([Current EXCEPT !.assoc[a] =
                        [@ EXCEPT !.nbr = Null, !.state = "DISASSOCIATED"]], a)
                  EXCEPT !.assoc[a].scanOn = FALSE])

\* dect_phy_mac_client_associate_resp_timeout_worker()
Timeout(a) ==
  /\ a \in wait
  /\ wait' = wait \ {a}
  /\ TimedOut(a)
  /\ UNCHANGED <<nbrs, flying, asked, requests, user>>

\* A scan of the slot that goes on is stopped before it is started again.
Restarted(s, a) == IF s.assoc[a].scanOn THEN Stop(s, a) ELSE s

\* The response is one the client is in a state to take: it waits for it or is
\* associated already, and no command is releasing the slot.
Expected(ft) ==
  LET a == AssocOf(assoc, ft) IN
  a # Null => assoc[a].state # "DISASSOCIATED" /\ ~Releasing(a)

\* dect_phy_mac_client_associate_resp_handle(): the state of the slot is not
\* looked at. With assertions on, a NULL target_nbr ends the program; added
\* says whether the scheduler takes the scan.
Response(ft, added) ==
  /\ ft \in asked
  /\ Timely => Expected(ft)
  /\ asked' = asked \ {ft}
  /\ LET a == AssocOf(assoc, ft) IN
     IF a = Null THEN UNCHANGED <<assoc, wait, scan, listed>>
     ELSE /\ wait' = Cancelled(a)
          /\ LET s == [Current EXCEPT !.assoc[a].state = "ASSOCIATED"] IN
             Becomes(Start(Restarted(s, a), a, ft, added))
  /\ UNCHANGED <<nbrs, flying, requests, user>>

\* A request or its response is lost on the air.
Lost(ft) ==
  /\ ft \in asked
  /\ asked' = asked \ {ft}
  /\ UNCHANGED <<nbrs, assoc, wait, scan, listed, flying, requests, user>>

--------------------------------------------------------------------------------
(* The scheduler.                                                          *)

\* dect_phy_mac_nbr_bg_scan_scheduler_op_completed_cb(): a neighbour that was
\* heard once and not for DECT_PHY_MAC_NBR_BG_SCAN_MAX_UNREACHABLE_TIME_MS is
\* unreachable.
MayBeUnreachable(h) == ScanOf(scan, h) # Null /\ scan[ScanOf(scan, h)].heard
TurnCompleted(h, unreachable) == IF unreachable THEN Stop(Current, h) ELSE Current

\* A turn goes to the modem and is scheduled again.
SendTurn(h) ==
  /\ h \in listed
  /\ flying' = flying \cup {h}
  /\ UNCHANGED <<nbrs, assoc, wait, scan, listed, asked, requests, user>>

\* The modem's completion is taken by the scheduler thread.
CompleteTurn(h, unreachable) ==
  /\ h \in flying
  /\ unreachable => MayBeUnreachable(h)
  /\ flying' = flying \ {h}
  /\ Becomes(TurnCompleted(h, unreachable))
  /\ UNCHANGED <<nbrs, wait, asked, requests, user>>

\* A late turn: the callback runs at once, then the walk adds the operation
\* again whatever the callback did.
LateTurn(h, unreachable) ==
  /\ h \in listed
  /\ unreachable => ~KeepsUp /\ MayBeUnreachable(h)
  /\ Becomes([TurnCompleted(h, unreachable) EXCEPT !.listed = listed])
  /\ UNCHANGED <<nbrs, wait, flying, asked, requests, user>>

\* The scheduler drops an operation: a purge, or a re-add that collides.
Dropped(h) ==
  /\ h \in listed
  /\ listed' = listed \ {h}
  /\ UNCHANGED <<nbrs, assoc, wait, scan, flying, asked, requests, user>>

--------------------------------------------------------------------------------
User ==
  \/ \E ft \in Fts : Associate(ft) \/ Dissociate(ft)
  \/ \E sent \in BOOLEAN : SendRequest(sent)
  \/ Commit \/ StopForRelease \/ Release \/ ClearNbrs

Timers == \E a \in Slots : Timeout(a)

Air ==
  \/ \E ft \in Fts : Beacon(ft) \/ Lost(ft)
  \/ \E ft \in Fts, added \in BOOLEAN : Response(ft, added)

Scheduler ==
  \/ \E h \in Slots : SendTurn(h) \/ Dropped(h)
  \/ \E h \in Slots, unreachable \in BOOLEAN :
       CompleteTurn(h, unreachable) \/ LateTurn(h, unreachable)

Next == User \/ Timers \/ Air \/ Scheduler

Spec == Init /\ [][Next]_vars

--------------------------------------------------------------------------------
(* Properties.                                                             *)

AssocStates == {"DISASSOCIATED", "WAITING", "ASSOCIATED"}
Places == Slots \cup {Null}

TypeOK ==
  /\ nbrs \in [Slots -> [reserved : BOOLEAN, id : Ids]]
  /\ assoc \in [Slots -> [state : AssocStates, id : Ids, nbr : Places, scanOn : BOOLEAN]]
  /\ wait \subseteq Slots /\ listed \subseteq Slots /\ flying \subseteq Slots
  /\ scan \in [Slots -> [running : BOOLEAN, handle : Places, id : Ids, heard : BOOLEAN]]
  /\ asked \subseteq Fts /\ requests \in Nat
  /\ user \in [step : {"idle", "send", "commit", "stop", "release"}, slot : Places,
               ft : Ids, nbr : Places]

\* A device has one association slot: whatever timeouts, releases and repeated
\* requests did, the searches by long RD ID cannot meet a second one.
UniqueTargets ==
  \A a, b \in Slots : assoc[a].id = assoc[b].id /\ assoc[a].id # NoId => a = b

\* The slots know their scans: bg_scan_ongoing is set exactly as long as one
\* scan runs with the handle of the slot, and that scan is of its device. Only a
\* scan that runs is in the scheduler's list: one that was stopped would go on
\* receiving, and keep its handle from being started again. A dissociated slot leaves
\* no scan behind.
ScansAgree ==
  /\ \A i, j \in Slots :
       scan[i].running /\ scan[j].running /\ scan[i].handle = scan[j].handle => i = j
  /\ \A a \in Slots : assoc[a].scanOn <=> ScanOf(scan, a) # Null
  /\ \A a \in Slots : assoc[a].scanOn => scan[ScanOf(scan, a)].id = assoc[a].id
  /\ \A h \in listed : ScanOf(scan, h) # Null
  /\ \A a \in Slots : assoc[a].state = "DISASSOCIATED" => ScanOf(scan, a) = Null


\* The target of a slot in use can be read: dect_phy_mac_handle() reads it for
\* every PDU received.
TargetKnown == \A a \in Slots : assoc[a].state # "DISASSOCIATED" => assoc[a].nbr # Null

\* A request comes to its end: the slot waits as long as its timeout is pending, or
\* a release is under way, whichever of answers, repeated requests and releases of
\* this slot and of others started and cancelled timers.
WaitTimed ==
  \A a \in Slots : assoc[a].state = "WAITING" => a \in wait \/ Releasing(a)

Promise == INSTANCE Association
  WITH Devices <- Fts, Nobody <- NoId,
       stage <- [a \in Slots |-> assoc[a].state],
       partner <- [a \in Slots |-> assoc[a].id],
       releases <- IF user.step = "release" THEN {user.slot} ELSE {}

\* The slots live the life they promise: no timeout takes an association, no
\* answer of one device is taken for another's.
RefinesAssociation == Promise!AssocSpec
================================================================================
