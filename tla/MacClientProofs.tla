---------------------------- MODULE MacClientProofs ----------------------------
(***************************************************************************)
(* What the MAC client keeps for any set of devices and any size of the    *)
(* arrays. The first part holds for responses at any time and a scheduler  *)
(* that is ever so late; that the slots keep their promise (Association)   *)
(* and agree with the background scans needs responses that come when they *)
(* are expected (Timely) and, for the scans, turns that are not so late    *)
(* that they find their neighbour unreachable (KeepsUp).                   *)
(***************************************************************************)
EXTENDS MacClient, SeqFacts

--------------------------------------------------------------------------------
(* Searches, and what the background scans do for their callers.           *)

LEMMA SlotNumbers == Slots \subseteq Nat /\ Null \notin Slots
BY MacClientAssumption DEF Slots, Null

\* A search finds a place that has what is searched, or NULL when there is none.
LEMMA FirstProperties ==
  ASSUME NEW S, S \subseteq Slots
  PROVE  /\ First(S) \in Places
         /\ First(S) = Null <=> S = {}
         /\ First(S) # Null => First(S) \in S
<1>1. CASE S = {}
  BY <1>1 DEF First, Places
<1>2. CASE S # {}
  <2>1. S \subseteq Nat
    BY SlotNumbers
  <2>2. Min(S) \in S
    BY <1>2, <2>1, MinExists
  <2> QED
    BY <1>2, <2>2, SlotNumbers DEF First, Places
<1> QED
  BY <1>1, <1>2

AssocType == [Slots -> [state : AssocStates, id : Ids, nbr : Places, scanOn : BOOLEAN]]
ScanType == [Slots -> [running : BOOLEAN, handle : Places, id : Ids, heard : BOOLEAN]]
Parts == [assoc : AssocType, scan : ScanType, listed : SUBSET Slots]

\* What only a request, an answer, a timeout or a release changes.
SameSlots(as, bs) ==
  \A a \in Slots : as[a].state = bs[a].state /\ as[a].id = bs[a].id /\ as[a].nbr = bs[a].nbr

SameRequests(as, bs) == \A a \in Slots : as[a].state = bs[a].state /\ as[a].id = bs[a].id

\* The places that the searches for a slot and for a scan find.
LEMMA Places1 ==
  ASSUME NEW as, NEW id
  PROVE  /\ AssocOf(as, id) \in Places
         /\ AssocOf(as, id) # Null => AssocOf(as, id) \in Slots /\ as[AssocOf(as, id)].id = id
         /\ AssocOf(as, id) = Null => \A a \in Slots : as[a].id # id
<1> DEFINE S == {a \in Slots : as[a].id = id}
<1>1. S \subseteq Slots
  OBVIOUS
<1>2. First(S) \in Places /\ (First(S) = Null <=> S = {}) /\ (First(S) # Null => First(S) \in S)
  BY <1>1, FirstProperties
<1> QED
  BY <1>2 DEF AssocOf

LEMMA Places2 ==
  ASSUME NEW sc, NEW h
  PROVE  /\ ScanOf(sc, h) # Null => ScanOf(sc, h) \in Slots
         /\ FreeScan(sc) # Null => FreeScan(sc) \in Slots
<1>1. {i \in Slots : sc[i].running /\ sc[i].handle = h} \subseteq Slots
  OBVIOUS
<1>2. {i \in Slots : ~sc[i].running} \subseteq Slots
  OBVIOUS
<1> QED
  BY <1>1, <1>2, FirstProperties DEF ScanOf, FreeScan

LEMMA Places3 ==
  /\ FreeAssoc # Null => FreeAssoc \in Slots
  /\ \A id : /\ NbrOf(id) \in Places
             /\ NbrOf(id) # Null => NbrOf(id) \in Slots
             /\ ScanOfNbr(id) # Null => ScanOfNbr(id) \in Slots
<1>1. {a \in Slots : assoc[a].state = "DISASSOCIATED"} \subseteq Slots
  OBVIOUS
<1>2. ASSUME NEW id
      PROVE  /\ {i \in Slots : nbrs[i].reserved /\ nbrs[i].id = id} \subseteq Slots
             /\ {i \in Slots : scan[i].running /\ scan[i].id = id} \subseteq Slots
  OBVIOUS
<1> QED
  BY <1>1, <1>2, FirstProperties DEF FreeAssoc, NbrOf, ScanOfNbr

\* Setting bg_scan_ongoing of one slot.
LEMMA ScanOnProperties ==
  ASSUME NEW f \in AssocType, NEW a \in Slots, NEW b \in BOOLEAN
  PROVE  /\ [f EXCEPT ![a].scanOn = b] \in AssocType
         /\ SameSlots([f EXCEPT ![a].scanOn = b], f)
<1> DEFINE g == [f EXCEPT ![a].scanOn = b]
<1>1. g = [x \in Slots |-> IF x = a THEN [f[x] EXCEPT !.scanOn = b] ELSE f[x]]
  BY DEF AssocType
<1>2. \A x \in Slots : f[x] \in [state : AssocStates, id : Ids, nbr : Places, scanOn : BOOLEAN]
  BY DEF AssocType
<1>3. g \in AssocType
  BY <1>1, <1>2 DEF AssocType
<1>4. SameSlots(g, f)
  BY <1>1, <1>2 DEF SameSlots
<1> QED
  BY <1>3, <1>4

\* Setting the target of one slot.
LEMMA NbrProperties ==
  ASSUME NEW f \in AssocType, NEW a \in Slots, NEW n \in Places
  PROVE  /\ [f EXCEPT ![a].nbr = n] \in AssocType
         /\ SameRequests([f EXCEPT ![a].nbr = n], f)
<1> DEFINE g == [f EXCEPT ![a].nbr = n]
<1>1. g = [x \in Slots |-> IF x = a THEN [f[x] EXCEPT !.nbr = n] ELSE f[x]]
  BY DEF AssocType
<1>2. \A x \in Slots : f[x] \in [state : AssocStates, id : Ids, nbr : Places, scanOn : BOOLEAN]
  BY DEF AssocType
<1>3. g \in AssocType
  BY <1>1, <1>2 DEF AssocType
<1>4. SameRequests(g, f)
  BY <1>1, <1>2 DEF SameRequests
<1> QED
  BY <1>3, <1>4

\* A beacon heard by a scan.
LEMMA HeardProperties ==
  ASSUME NEW f \in ScanType, NEW i \in Slots
  PROVE  [f EXCEPT ![i].heard = TRUE] \in ScanType
<1>1. [f EXCEPT ![i].heard = TRUE]
        = [x \in Slots |-> IF x = i THEN [f[x] EXCEPT !.heard = TRUE] ELSE f[x]]
  BY DEF ScanType
<1>2. \A x \in Slots : f[x] \in [running : BOOLEAN, handle : Places, id : Ids, heard : BOOLEAN]
  BY DEF ScanType
<1> QED
  BY <1>1, <1>2 DEF ScanType

\* Stopping a scan touches no more of the slots than their bg_scan_ongoing.
LEMMA StopProperties ==
  ASSUME NEW s \in Parts, NEW h
  PROVE  Stop(s, h) \in Parts /\ SameSlots(Stop(s, h).assoc, s.assoc)
<1>1. CASE ScanOf(s.scan, h) = Null
  BY <1>1 DEF Stop, SameSlots
<1>2. CASE ScanOf(s.scan, h) # Null
  <2> DEFINE i == ScanOf(s.scan, h)
             a == AssocOf(s.assoc, s.scan[i].id)
  <2>1. i \in Slots
    BY <1>2, Places2
  <2>2. a # Null => a \in Slots
    BY Places1
  <2> HIDE DEF i, a
  <2>3. Informed(s.assoc, s.scan[i].id) = IF a = Null THEN s.assoc ELSE [s.assoc EXCEPT ![a].scanOn = FALSE]
    BY DEF Informed, a
  <2>4. Informed(s.assoc, s.scan[i].id) \in AssocType /\ SameSlots(Informed(s.assoc, s.scan[i].id), s.assoc)
    <3>1. s.assoc \in AssocType
      BY DEF Parts
    <3>2. CASE a = Null
      BY <2>3, <3>1, <3>2 DEF SameSlots
    <3>3. CASE a # Null
      BY <2>2, <2>3, <3>1, <3>3, ScanOnProperties
    <3> QED
      BY <3>2, <3>3
  <2>5. [s.scan EXCEPT ![i].running = FALSE] \in ScanType
    BY <2>1 DEF Parts, ScanType
  <2>6. Stop(s, h) = [assoc  |-> Informed(s.assoc, s.scan[i].id),
                      scan   |-> [s.scan EXCEPT ![i].running = FALSE],
                      listed |-> s.listed \ {h}]
    BY <1>2 DEF Stop, i
  <2> QED
    BY <2>4, <2>5, <2>6 DEF Parts
<1> QED
  BY <1>1, <1>2

\* So does starting one.
LEMMA StartProperties ==
  ASSUME NEW s \in Parts, NEW h \in Slots, NEW id \in Ids, NEW added
  PROVE  Start(s, h, id, added) \in Parts /\ SameSlots(Start(s, h, id, added).assoc, s.assoc)
<1>1. CASE ~CanStart(s, h) \/ ~added
  BY <1>1 DEF Start, SameSlots
<1>2. CASE CanStart(s, h) /\ added
  <2> DEFINE i == FreeScan(s.scan)
             new == [running |-> TRUE, handle |-> h, id |-> id, heard |-> FALSE]
  <2>1. i \in Slots
    BY <1>2, Places2 DEF CanStart
  <2>2. new \in [running : BOOLEAN, handle : Places, id : Ids, heard : BOOLEAN]
    BY DEF Places
  <2>3. Start(s, h, id, added) = [assoc  |-> [s.assoc EXCEPT ![h].scanOn = TRUE],
                                  scan   |-> [s.scan EXCEPT ![i] = new],
                                  listed |-> s.listed \cup {h}]
    BY <1>2 DEF Start
  <2> HIDE DEF i, new
  <2>4. [s.assoc EXCEPT ![h].scanOn = TRUE] \in AssocType
        /\ SameSlots([s.assoc EXCEPT ![h].scanOn = TRUE], s.assoc)
    BY ScanOnProperties DEF Parts
  <2>5. [s.scan EXCEPT ![i] = new] \in ScanType
    BY <2>1, <2>2 DEF Parts, ScanType
  <2> QED
    BY <2>3, <2>4, <2>5 DEF Parts
<1> QED
  BY <1>1, <1>2

--------------------------------------------------------------------------------
(* The inductive invariant: besides the properties, what the command of    *)
(* the shell carries from one of its steps to the next. Its target is in   *)
(* no slot but the one it took, however the other threads come between.    *)

UserOK ==
  /\ user.step \in {"send", "commit"} =>
       /\ user.slot \in Slots /\ user.ft \in Fts
       /\ \A a \in Slots : assoc[a].id = user.ft => a = user.slot
  /\ user.step \in {"stop", "release"} => user.slot \in Slots

Inv == TypeOK /\ UniqueTargets /\ WaitTimed /\ UserOK

SlotType == [state : AssocStates, id : Ids, nbr : Places, scanOn : BOOLEAN]

\* TypeOK in the terms of the lemmas.
LEMMA PartsType == TypeOK => Current \in Parts /\ assoc \in AssocType
BY DEF TypeOK, Current, Parts, AssocType, ScanType

\* A step of the other threads that changes no slot.
LEMMA OthersKeep ==
  ASSUME Inv, SameSlots(assoc', assoc), UNCHANGED <<user, wait, requests>>,
         assoc' \in AssocType, scan' \in ScanType, listed' \subseteq Slots,
         nbrs' \in [Slots -> [reserved : BOOLEAN, id : Ids]],
         flying' \subseteq Slots, asked' \subseteq Fts
  PROVE  Inv'
<1>1. TypeOK'
  BY DEF Inv, TypeOK, AssocType, ScanType
<1>2. UniqueTargets'
  BY DEF Inv, UniqueTargets, SameSlots
<1>3. WaitTimed'
  BY DEF Inv, WaitTimed, SameSlots, Releasing
<1>4. UserOK'
  BY DEF Inv, UserOK, SameSlots
<1> QED
  BY <1>1, <1>2, <1>3, <1>4 DEF Inv

\* A beacon is heard or the list is cleared.
LEMMA NeighboursKeep ==
  ASSUME Inv, ClearNbrs \/ \E ft \in Fts : Beacon(ft)
  PROVE  Inv'
<1>1. SameSlots(assoc', assoc) /\ UNCHANGED <<user, wait, requests, assoc, listed, flying, asked>>
  BY DEF ClearNbrs, Beacon, SameSlots
<1>2. CASE ClearNbrs
  <2>1. nbrs' \in [Slots -> [reserved : BOOLEAN, id : Ids]] /\ scan' = scan
    BY <1>2 DEF ClearNbrs, Ids
  <2> QED
    BY <1>1, <2>1, OthersKeep DEF Inv, TypeOK, AssocType, ScanType
<1>3. ASSUME NEW ft \in Fts, Beacon(ft) PROVE Inv'
  <2> DEFINE free == First({i \in Slots : ~nbrs[i].reserved})
             sc == ScanOfNbr(ft)
  <2>1. {i \in Slots : ~nbrs[i].reserved} \subseteq Slots
    OBVIOUS
  <2>2. (free # Null => free \in Slots) /\ (sc # Null => sc \in Slots)
    BY <2>1, FirstProperties, Places3
  <2> HIDE DEF free, sc
  <2>3. CASE NbrOf(ft) # Null /\ sc = Null
    <3>1. nbrs' = nbrs /\ scan' = scan
      BY <1>3, <2>3 DEF Beacon, sc
    <3> QED
      BY <1>1, <3>1, OthersKeep DEF Inv, TypeOK, AssocType, ScanType
  <2>4. CASE NbrOf(ft) # Null /\ sc # Null
    <3>1. nbrs' = nbrs /\ scan' = [scan EXCEPT ![sc].heard = TRUE]
      BY <1>3, <2>4 DEF Beacon, sc
    <3>2. scan \in ScanType
      BY DEF Inv, TypeOK, ScanType
    <3>3. scan' \in ScanType
      BY <2>2, <2>4, <3>1, <3>2, HeardProperties
    <3> QED
      BY <1>1, <3>1, <3>3, OthersKeep DEF Inv, TypeOK, AssocType, ScanType
  <2>5. CASE NbrOf(ft) = Null
    <3>1. free # Null /\ nbrs' = [nbrs EXCEPT ![free] = [reserved |-> TRUE, id |-> ft]] /\ scan' = scan
      BY <1>3, <2>5 DEF Beacon, free
    <3>2. nbrs' \in [Slots -> [reserved : BOOLEAN, id : Ids]]
      BY <2>2, <3>1 DEF Inv, TypeOK, Ids
    <3> QED
      BY <1>1, <3>1, <3>2, OthersKeep DEF Inv, TypeOK, AssocType, ScanType
  <2> QED
    BY <2>3, <2>4, <2>5
<1> QED
  BY <1>2, <1>3

\* A request is lost, or the scheduler works on the turns of the scans.
LEMMA SchedulerKeeps ==
  ASSUME Inv, Scheduler \/ \E ft \in Fts : Lost(ft)
  PROVE  Inv'
<1>1. Current \in Parts
  BY PartsType DEF Inv
<1>2. CASE \E ft \in Fts : Lost(ft)
  BY <1>2, OthersKeep DEF Lost, SameSlots, Inv, TypeOK, AssocType, ScanType
<1>3. ASSUME NEW h \in Slots, SendTurn(h) \/ Dropped(h) PROVE Inv'
  BY <1>3, OthersKeep DEF SendTurn, Dropped, SameSlots, Inv, TypeOK, AssocType, ScanType
<1>4. ASSUME NEW h \in Slots, NEW unreachable \in BOOLEAN,
             CompleteTurn(h, unreachable) \/ LateTurn(h, unreachable)
      PROVE  Inv'
  <2> DEFINE t == TurnCompleted(h, unreachable)
  <2>1. t \in Parts /\ SameSlots(t.assoc, assoc)
    BY <1>1, StopProperties DEF TurnCompleted, Current, SameSlots
  <2>2. assoc' = t.assoc /\ scan' = t.scan /\ (listed' = t.listed \/ listed' = listed)
    BY <1>4, <2>1 DEF CompleteTurn, LateTurn, Becomes, Parts
  <2>3. UNCHANGED <<user, wait, requests, nbrs, asked>> /\ (flying' = flying \/ flying' = flying \ {h})
    BY <1>4 DEF CompleteTurn, LateTurn
  <2> HIDE DEF t
  <2> QED
    BY <2>1, <2>2, <2>3, OthersKeep DEF Parts, Inv, TypeOK
<1> QED
  BY <1>2, <1>3, <1>4 DEF Scheduler

--------------------------------------------------------------------------------
(* The commands of the shell.                                              *)

\* An association request starts: the slot it takes is the only one that may
\* have its target.
LEMMA AssociateKeeps ==
  ASSUME Inv, NEW ft \in Fts, Associate(ft)
  PROVE  Inv'
<1> DEFINE a == SlotFor(ft)
           n == NbrOf(ft)
<1>1. n \in Places /\ n # Null /\ a # Null
  BY Places3 DEF Associate
<1>2. a \in Slots /\ \A b \in Slots : assoc[b].id = ft => b = a
  <2>1. CASE AssocOf(assoc, ft) = Null
    BY <1>1, <2>1, Places1, Places3 DEF SlotFor
  <2>2. CASE AssocOf(assoc, ft) # Null
    <3>1. a \in Slots /\ assoc[a].id = ft
      BY <2>2, Places1 DEF SlotFor
    <3>2. ft # NoId
      BY MacClientAssumption
    <3> QED
      BY <3>1, <3>2 DEF Inv, UniqueTargets
  <2> QED
    BY <2>1, <2>2
<1> HIDE DEF a, n
<1>3. user' = [step |-> "send", slot |-> a, ft |-> ft, nbr |-> n]
      /\ UNCHANGED <<nbrs, wait, scan, listed, flying, asked>>
      /\ user = Idle /\ requests' = requests + 1
  BY DEF Associate, UserRequest, a, n
<1>4. assoc \in AssocType
  BY PartsType DEF Inv
<1>5. /\ assoc' \in AssocType
      /\ SameRequests(assoc', assoc)
  <2>1. CASE AssocOf(assoc, ft) = Null
    BY <1>4, <2>1 DEF Associate, SameRequests
  <2>2. CASE AssocOf(assoc, ft) # Null
    <3>1. assoc' = [assoc EXCEPT ![a].nbr = n]
      BY <2>2 DEF Associate, a, n
    <3> QED
      BY <1>1, <1>2, <1>4, <3>1, NbrProperties
  <2> QED
    BY <2>1, <2>2
<1>6. TypeOK'
  BY <1>1, <1>2, <1>3, <1>5 DEF Inv, TypeOK, AssocType, Ids, Places
<1>7. UniqueTargets'
  BY <1>5 DEF Inv, UniqueTargets, SameRequests
<1>8. WaitTimed'
  BY <1>3, <1>5 DEF Inv, WaitTimed, Releasing, Idle, SameRequests
<1>9. UserOK'
  BY <1>2, <1>3, <1>5 DEF UserOK, SameRequests
<1> QED
  BY <1>6, <1>7, <1>8, <1>9 DEF Inv

\* The request is sent and the slot taken.
LEMMA RequestKeeps ==
  ASSUME Inv, Commit \/ \E sent \in BOOLEAN : SendRequest(sent)
  PROVE  Inv'
<1>1. ASSUME NEW sent \in BOOLEAN, SendRequest(sent) PROVE Inv'
  <2>1. user.step = "send" /\ UNCHANGED <<nbrs, assoc, wait, scan, listed, flying, requests>>
    BY <1>1 DEF SendRequest
  <2>2. user.slot \in Slots /\ user.ft \in Fts /\ \A a \in Slots : assoc[a].id = user.ft => a = user.slot
    BY <2>1 DEF Inv, UserOK
  <2>3. user' = Idle \/ user' = [user EXCEPT !.step = "commit"]
    BY <1>1 DEF SendRequest
  <2>4. asked' \subseteq Fts
    BY <1>1, <2>2 DEF SendRequest, Inv, TypeOK
  <2>5. TypeOK'
    BY <2>1, <2>3, <2>4 DEF Inv, TypeOK, Idle, Ids, Places
  <2>6. UniqueTargets'
    BY <2>1 DEF Inv, UniqueTargets
  <2>7. WaitTimed'
    BY <2>1, <2>3 DEF Inv, TypeOK, WaitTimed, Releasing
  <2>8. UserOK'
    BY <2>1, <2>2, <2>3 DEF Inv, TypeOK, UserOK, Idle
  <2> QED
    BY <2>5, <2>6, <2>7, <2>8 DEF Inv
<1>2. CASE Commit
  <2> DEFINE a == user.slot
             r == [assoc[a] EXCEPT !.state = "WAITING", !.id = user.ft, !.nbr = user.nbr]
  <2>1. user.step = "commit" /\ user' = Idle /\ wait' = wait \cup {a}
        /\ UNCHANGED <<nbrs, scan, listed, flying, asked, requests>>
    BY <1>2 DEF Commit
  <2>2. a \in Slots /\ user.ft \in Fts /\ \A b \in Slots : assoc[b].id = user.ft => b = a
    BY <2>1 DEF Inv, UserOK
  <2>3. assoc \in AssocType /\ user.nbr \in Places /\ user.ft \in Ids
    BY PartsType DEF Inv, TypeOK
  <2>4. r \in SlotType /\ r.state = "WAITING" /\ r.id = user.ft
    <3>1. assoc[a] \in SlotType
      BY <2>2, <2>3 DEF AssocType, SlotType
    <3> QED
      BY <2>3, <3>1 DEF SlotType, AssocStates
  <2>5. assoc' = [assoc EXCEPT ![a] = r]
    BY <1>2 DEF Commit
  <2> HIDE DEF a, r
  <2>6. /\ assoc' \in AssocType /\ assoc'[a] = r
        /\ \A b \in Slots : b # a => assoc'[b] = assoc[b]
    BY <2>2, <2>3, <2>4, <2>5 DEF AssocType, SlotType
  <2>7. TypeOK'
    BY <2>1, <2>2, <2>6 DEF Inv, TypeOK, AssocType, Idle, Ids, Places
  <2>8. UniqueTargets'
    BY <2>2, <2>4, <2>6 DEF Inv, UniqueTargets
  <2>9. WaitTimed'
    BY <2>1, <2>4, <2>6 DEF Inv, WaitTimed, Releasing
  <2>10. UserOK'
    BY <2>1 DEF UserOK, Idle
  <2> QED
    BY <2>7, <2>8, <2>9, <2>10 DEF Inv
<1> QED
  BY <1>1, <1>2

\* A release, from its start to the slot given back.
LEMMA ReleaseKeeps ==
  ASSUME Inv, StopForRelease \/ Release \/ \E ft \in Fts : Dissociate(ft)
  PROVE  Inv'
<1>0. assoc \in AssocType /\ Current \in Parts
  BY PartsType DEF Inv
<1>1. ASSUME NEW ft \in Fts, Dissociate(ft) PROVE Inv'
  <2> DEFINE a == AssocOf(assoc, ft)
  <2>1. a \in Slots
    BY <1>1, Places1 DEF Dissociate
  <2>2. user = Idle /\ user' = [Idle EXCEPT !.step = "stop", !.slot = a] /\ wait' = wait \ {a}
        /\ requests' = requests + 1 /\ UNCHANGED <<nbrs, assoc, scan, listed, flying, asked>>
    BY <1>1 DEF Dissociate, UserRequest, Cancelled
  <2> HIDE DEF a
  <2>3. user' = [step |-> "stop", slot |-> a, ft |-> NoId, nbr |-> Null]
    BY <2>2 DEF Idle
  <2>4. TypeOK'
    BY <2>1, <2>2, <2>3 DEF Inv, TypeOK, Ids, Places
  <2>5. UniqueTargets'
    BY <2>2 DEF Inv, UniqueTargets
  <2>6. WaitTimed'
    BY <2>2, <2>3 DEF Inv, WaitTimed, Releasing, Idle
  <2>7. UserOK'
    BY <2>1, <2>3 DEF UserOK
  <2> QED
    BY <2>4, <2>5, <2>6, <2>7 DEF Inv
<1>2. CASE StopForRelease
  <2> DEFINE a == user.slot
             t == Stop(Current, a)
  <2>1. user.step = "stop" /\ user' = [user EXCEPT !.step = "release"]
        /\ UNCHANGED <<nbrs, wait, flying, asked, requests>>
    BY <1>2 DEF StopForRelease
  <2>2. a \in Slots
    BY <2>1 DEF Inv, UserOK
  <2>3. t \in Parts /\ SameSlots(t.assoc, assoc)
    BY <1>0, StopProperties DEF Current
  <2>4. assoc' = [t.assoc EXCEPT ![a].scanOn = FALSE] /\ scan' = t.scan /\ listed' = t.listed
    BY <1>2, <2>3 DEF StopForRelease, Becomes, Parts
  <2> HIDE DEF t
  <2>5. t.assoc \in AssocType /\ scan' \in ScanType /\ listed' \subseteq Slots
    BY <2>3, <2>4 DEF Parts
  <2>6. assoc' \in AssocType /\ SameSlots(assoc', assoc)
    <3>1. assoc' \in AssocType /\ SameSlots(assoc', t.assoc)
      BY <2>2, <2>4, <2>5, ScanOnProperties
    <3> QED
      BY <2>3, <3>1 DEF SameSlots
  <2> HIDE DEF a
  <2>7. TypeOK'
    BY <2>1, <2>5, <2>6 DEF Inv, TypeOK, AssocType, ScanType
  <2>8. UniqueTargets'
    BY <2>6 DEF Inv, UniqueTargets, SameSlots
  <2>9. WaitTimed'
    BY <2>1, <2>6 DEF Inv, TypeOK, WaitTimed, SameSlots, Releasing
  <2>10. UserOK'
    BY <2>1, <2>2 DEF Inv, TypeOK, UserOK, a
  <2> QED
    BY <2>7, <2>8, <2>9, <2>10 DEF Inv
<1>3. CASE Release
  <2> DEFINE a == user.slot
             r == [assoc[a] EXCEPT !.state = "DISASSOCIATED", !.id = NoId, !.nbr = Null]
  <2>1. user.step = "release" /\ user' = Idle
        /\ UNCHANGED <<nbrs, wait, scan, listed, flying, asked, requests>>
    BY <1>3 DEF Release
  <2>2. a \in Slots
    BY <2>1 DEF Inv, UserOK
  <2>3. r \in SlotType /\ r.state = "DISASSOCIATED" /\ r.id = NoId
    <3>1. assoc[a] \in SlotType
      BY <1>0, <2>2 DEF AssocType, SlotType
    <3> QED
      BY <3>1 DEF SlotType, AssocStates, Ids, Places
  <2>4. assoc' = [assoc EXCEPT ![a] = r]
    BY <1>3 DEF Release
  <2> HIDE DEF r
  <2>5. /\ assoc' \in AssocType /\ assoc'[a] = r
        /\ \A b \in Slots : b # a => assoc'[b] = assoc[b]
    BY <1>0, <2>2, <2>3, <2>4 DEF AssocType, SlotType
  <2>6. TypeOK'
    BY <2>1, <2>5 DEF Inv, TypeOK, AssocType, Idle, Ids, Places
  <2>7. UniqueTargets'
    BY <2>2, <2>3, <2>5 DEF Inv, UniqueTargets
  <2>8. WaitTimed'
    BY <2>1, <2>3, <2>5 DEF Inv, WaitTimed, Releasing
  <2>9. UserOK'
    BY <2>1 DEF UserOK, Idle
  <2> QED
    BY <2>6, <2>7, <2>8, <2>9 DEF Inv
<1> QED
  BY <1>1, <1>2, <1>3

--------------------------------------------------------------------------------
(* Timeouts and answers.                                                   *)

\* One slot is given a state, a device and a target; the others keep theirs.
Given(a, s, d, n) ==
  /\ assoc'[a].state = s /\ assoc'[a].id = d /\ assoc'[a].nbr = n
  /\ \A b \in Slots \ {a} : /\ assoc'[b].state = assoc[b].state
                          /\ assoc'[b].id = assoc[b].id /\ assoc'[b].nbr = assoc[b].nbr

ScansTyped == assoc' \in AssocType /\ scan' \in ScanType /\ listed' \subseteq Slots

\* A step that gives one slot a state in which it does not wait.
LEMMA AnsweredKeeps ==
  ASSUME Inv, NEW a \in Slots, NEW s, NEW n, s # "WAITING", Given(a, s, assoc[a].id, n),
         ScansTyped, wait' = wait \ {a}, asked' \subseteq Fts,
         UNCHANGED <<nbrs, flying, requests, user>>
  PROVE  Inv'
<1>1. TypeOK'
  BY DEF Inv, TypeOK, AssocType, ScanType, ScansTyped
<1>2. /\ \A b \in Slots : assoc'[b].id = assoc[b].id
      /\ assoc'[a].state # "WAITING"
      /\ \A b \in Slots : b # a => assoc'[b].state = assoc[b].state
  BY DEF Given
<1>3. UniqueTargets'
  BY <1>2 DEF Inv, UniqueTargets
<1>4. WaitTimed'
  BY <1>2 DEF Inv, WaitTimed, Releasing
<1>5. UserOK'
  BY <1>2 DEF Inv, UserOK
<1> QED
  BY <1>1, <1>3, <1>4, <1>5 DEF Inv

\* The timeout of a slot that waits takes its state and its target.
LEMMA TimeoutGives ==
  ASSUME Inv, NEW a \in Slots, Timeout(a)
  PROVE  IF assoc[a].state = "WAITING"
         THEN Given(a, "DISASSOCIATED", assoc[a].id, Null) /\ ScansTyped
         ELSE UNCHANGED <<assoc, scan, listed>>
<1> DEFINE r == [assoc[a] EXCEPT !.nbr = Null, !.state = "DISASSOCIATED"]
           t == [assoc |-> [assoc EXCEPT ![a] = r], scan |-> scan, listed |-> listed]
           u == Stop(t, a)
<1>1. assoc \in AssocType /\ assoc[a] \in SlotType /\ scan \in ScanType /\ listed \subseteq Slots
  BY DEF Inv, TypeOK, AssocType, SlotType, ScanType
<1>2. CASE assoc[a].state # "WAITING"
  BY <1>2 DEF Timeout, TimedOut
<1>3. CASE assoc[a].state = "WAITING"
  <2>1. r \in SlotType /\ r.id = assoc[a].id /\ r.state = "DISASSOCIATED" /\ r.nbr = Null
    BY <1>1 DEF SlotType, AssocStates, Places
  <2>2. t = [Current EXCEPT !.assoc[a] = [@ EXCEPT !.nbr = Null, !.state = "DISASSOCIATED"]]
    BY DEF Current
  <2> HIDE DEF r
  <2>3. t \in Parts
    BY <1>1, <2>1 DEF Parts, AssocType, SlotType
  <2>4. u \in Parts /\ SameSlots(u.assoc, [assoc EXCEPT ![a] = r])
    BY <2>3, StopProperties
  <2>5. assoc' = [u.assoc EXCEPT ![a].scanOn = FALSE] /\ scan' = u.scan /\ listed' = u.listed
    <3>1. Becomes([u EXCEPT !.assoc[a].scanOn = FALSE])
      BY <1>3, <2>2 DEF Timeout, TimedOut
    <3> QED
      BY <2>4, <3>1 DEF Becomes, Parts
  <2> HIDE DEF u
  <2>6. u.assoc \in AssocType /\ scan' \in ScanType /\ listed' \subseteq Slots
    BY <2>4, <2>5 DEF Parts
  <2>7. assoc' \in AssocType /\ SameSlots(assoc', u.assoc)
    BY <2>5, <2>6, ScanOnProperties
  <2>8. SameSlots(assoc', [assoc EXCEPT ![a] = r])
    BY <2>4, <2>7 DEF SameSlots
  <2>9. Given(a, "DISASSOCIATED", assoc[a].id, Null)
    BY <1>1, <2>1, <2>8 DEF SameSlots, Given, AssocType, SlotType
  <2> QED
    BY <1>3, <2>6, <2>7, <2>9 DEF ScansTyped
<1> QED
  BY <1>2, <1>3

LEMMA TimeoutKeeps ==
  ASSUME Inv, NEW a \in Slots, Timeout(a)
  PROVE  Inv'
<1>1. wait' = wait \ {a} /\ UNCHANGED <<nbrs, flying, asked, requests, user>>
  BY DEF Timeout
<1>2. asked' \subseteq Fts
  BY <1>1 DEF Inv, TypeOK
<1>3. CASE assoc[a].state = "WAITING"
  <2>1. Given(a, "DISASSOCIATED", assoc[a].id, Null) /\ ScansTyped
    BY <1>3, TimeoutGives
  <2> QED
    BY <1>1, <1>2, <2>1, AnsweredKeeps
<1>4. CASE assoc[a].state # "WAITING"
  <2>1. UNCHANGED <<assoc, scan, listed>>
    BY <1>4, TimeoutGives
  <2>2. ScansTyped /\ Given(a, assoc[a].state, assoc[a].id, assoc[a].nbr)
    BY <2>1 DEF ScansTyped, Given, Inv, TypeOK, AssocType, ScanType
  <2> QED
    BY <1>1, <1>2, <1>4, <2>2, AnsweredKeeps
<1> QED
  BY <1>3, <1>4

\* A response associates the slot of its device.
LEMMA ResponseGives ==
  ASSUME Inv, NEW ft \in Fts, NEW added \in BOOLEAN, Response(ft, added)
  PROVE  LET a == AssocOf(assoc, ft) IN
         IF a = Null THEN UNCHANGED <<assoc, wait, scan, listed>>
         ELSE /\ a \in Slots /\ assoc[a].id = ft /\ wait' = wait \ {a}
              /\ Given(a, "ASSOCIATED", assoc[a].id, assoc[a].nbr) /\ ScansTyped
<1> DEFINE a == AssocOf(assoc, ft)
           r == [assoc[a] EXCEPT !.state = "ASSOCIATED"]
           t == [assoc |-> [assoc EXCEPT ![a] = r], scan |-> scan, listed |-> listed]
           u == Restarted(t, a)
           v == Start(u, a, ft, added)
<1>1. assoc \in AssocType /\ scan \in ScanType /\ listed \subseteq Slots /\ Current \in Parts
  BY PartsType DEF Inv, TypeOK, AssocType, ScanType
<1>2. CASE a = Null
  BY <1>2 DEF Response
<1>3. CASE a # Null
  <2>1. a \in Slots /\ assoc[a].id = ft
    BY <1>3, Places1
  <2>2. wait' = wait \ {a} /\ Becomes(Start(Restarted([Current EXCEPT !.assoc[a].state = "ASSOCIATED"], a), a, ft, added))
    BY <1>3 DEF Response, Cancelled
  <2> HIDE DEF a
  <2>3. assoc[a] \in SlotType
    BY <1>1, <2>1 DEF AssocType, SlotType
  <2>4. r \in SlotType /\ r.id = assoc[a].id /\ r.state = "ASSOCIATED" /\ r.nbr = assoc[a].nbr
    BY <2>3 DEF SlotType, AssocStates
  <2>5. t = [Current EXCEPT !.assoc[a].state = "ASSOCIATED"]
    BY <1>1 DEF Current, AssocType
  <2> HIDE DEF r
  <2>6. t \in Parts
    BY <1>1, <2>1, <2>4 DEF Parts, AssocType, SlotType
  <2>7. u \in Parts /\ SameSlots(u.assoc, t.assoc)
    <3> HIDE DEF t
    <3>1. u = t \/ u = Stop(t, a)
      BY DEF Restarted
    <3>2. SameSlots(t.assoc, t.assoc)
      BY DEF SameSlots
    <3> HIDE DEF u
    <3> QED
      BY <2>6, <3>1, <3>2, StopProperties
  <2>8. ft \in Ids
    BY DEF Ids
  <2>9. v \in Parts /\ SameSlots(v.assoc, t.assoc)
    <3> HIDE DEF t, u
    <3>1. v \in Parts /\ SameSlots(v.assoc, u.assoc)
      BY <2>1, <2>7, <2>8, StartProperties
    <3> QED
      BY <2>7, <3>1 DEF SameSlots
  <2>10. assoc' = v.assoc /\ scan' = v.scan /\ listed' = v.listed
    BY <2>2, <2>5 DEF Becomes
  <2> HIDE DEF v
  <2>11. ScansTyped
    BY <2>9, <2>10 DEF Parts, ScansTyped
  <2>12. SameSlots(assoc', [assoc EXCEPT ![a] = r])
    BY <2>9, <2>10 DEF SameSlots
  <2>13. Given(a, "ASSOCIATED", assoc[a].id, assoc[a].nbr)
    BY <1>1, <2>1, <2>4, <2>12 DEF SameSlots, Given, AssocType, SlotType
  <2> QED
    BY <1>3, <2>1, <2>2, <2>11, <2>13 DEF a
<1> QED
  BY <1>2, <1>3

LEMMA ResponseKeeps ==
  ASSUME Inv, NEW ft \in Fts, NEW added \in BOOLEAN, Response(ft, added)
  PROVE  Inv'
<1> DEFINE a == AssocOf(assoc, ft)
<1>1. asked' \subseteq Fts /\ UNCHANGED <<nbrs, flying, requests, user>>
  BY DEF Response, Inv, TypeOK
<1>2. CASE a = Null
  <2>1. UNCHANGED <<assoc, wait, scan, listed>>
    BY <1>2, ResponseGives
  <2> QED
    BY <1>1, <2>1, OthersKeep DEF SameSlots, Inv, TypeOK, AssocType, ScanType
<1>3. CASE a # Null
  <2>1. /\ a \in Slots /\ wait' = wait \ {a}
        /\ Given(a, "ASSOCIATED", assoc[a].id, assoc[a].nbr) /\ ScansTyped
    BY <1>3, ResponseGives
  <2> HIDE DEF a
  <2> QED
    BY <1>1, <2>1, AnsweredKeeps
<1> QED
  BY <1>2, <1>3

--------------------------------------------------------------------------------
LEMMA InitHolds == Init => Inv
<1> SUFFICES ASSUME Init PROVE Inv
  OBVIOUS
<1>1. TypeOK
  BY DEF Init, TypeOK, Idle, AssocStates, Ids, Places
<1>2. UniqueTargets /\ WaitTimed
  BY DEF Init, UniqueTargets, WaitTimed
<1>3. UserOK
  BY DEF Init, UserOK, Idle
<1> QED
  BY <1>1, <1>2, <1>3 DEF Inv

LEMMA NextKeeps == Inv /\ [Next]_vars => Inv'
<1> SUFFICES ASSUME Inv, [Next]_vars PROVE Inv'
  OBVIOUS
<1>1. CASE User
  BY <1>1, AssociateKeeps, RequestKeeps, ReleaseKeeps, NeighboursKeep DEF User
<1>2. CASE Timers
  BY <1>2, TimeoutKeeps DEF Timers
<1>3. CASE Air
  BY <1>3, NeighboursKeep, SchedulerKeeps, ResponseKeeps DEF Air
<1>4. CASE Scheduler
  BY <1>4, SchedulerKeeps
<1>5. CASE UNCHANGED vars
  BY <1>5 DEF vars, Inv, TypeOK, UniqueTargets, WaitTimed, Releasing, UserOK
<1> QED
  BY <1>1, <1>2, <1>3, <1>4, <1>5 DEF Next

\* The inductive invariant holds always.
THEOREM InvHolds == Spec => []Inv
<1>1. Init => Inv
  BY InitHolds
<1>2. Inv /\ [Next]_vars => Inv'
  BY NextKeeps
<1> QED
  BY <1>1, <1>2, PTL DEF Spec

\* The indices of the arrays stay within them, or are NULL.
THEOREM SlotsTyped == Spec => []TypeOK
<1>1. Inv => TypeOK
  BY DEF Inv
<1> QED
  BY <1>1, InvHolds, PTL

\* No device has two association slots, for any number of devices and slots and
\* whatever answers, timeouts and releases come between the steps of a command.
THEOREM OneSlotEach == Spec => []UniqueTargets
<1>1. Inv => UniqueTargets
  BY DEF Inv
<1> QED
  BY <1>1, InvHolds, PTL

\* No slot waits for an answer without a timeout.
THEOREM WaitsAreTimed == Spec => []WaitTimed
<1>1. Inv => WaitTimed
  BY DEF Inv
<1> QED
  BY <1>1, InvHolds, PTL

--------------------------------------------------------------------------------
(* The slots while answers come when they are expected. A slot that is     *)
(* free or given up is nobody's to take but the command's that chose it,   *)
(* which carries the target that makes it readable.                        *)

UserTakes ==
  user.step \in {"send", "commit"} =>
    /\ user.nbr # Null
    /\ assoc[user.slot].state = "DISASSOCIATED" \/ assoc[user.slot].id = user.ft

TimelyInv == Inv /\ UserTakes /\ TargetKnown

\* The command of the shell gives its slot to its target, or gives it back.
LEMMA CommandGives ==
  ASSUME Inv
  PROVE  /\ Commit => user.slot \in Slots /\ Given(user.slot, "WAITING", user.ft, user.nbr)
         /\ Release => user.slot \in Slots /\ Given(user.slot, "DISASSOCIATED", NoId, Null)
<1>1. ASSUME Commit \/ Release
      PROVE  user.slot \in Slots /\ assoc \in AssocType /\ assoc[user.slot] \in SlotType
  BY <1>1 DEF Commit, Release, Inv, UserOK, TypeOK, AssocType, SlotType
<1>2. ASSUME Commit PROVE Given(user.slot, "WAITING", user.ft, user.nbr)
  <2> DEFINE a == user.slot
  <2>1. assoc' = [assoc EXCEPT ![a] = [assoc[a] EXCEPT !.state = "WAITING", !.id = user.ft,
                                                       !.nbr = user.nbr]]
    BY <1>2 DEF Commit
  <2> HIDE DEF a
  <2>2. Given(a, "WAITING", user.ft, user.nbr)
    BY <1>1, <1>2, <2>1 DEF AssocType, SlotType, Given, a
  <2> QED
    BY <2>2 DEF a
<1>3. ASSUME Release PROVE Given(user.slot, "DISASSOCIATED", NoId, Null)
  <2> DEFINE a == user.slot
  <2>1. assoc' = [assoc EXCEPT ![a] = [assoc[a] EXCEPT !.state = "DISASSOCIATED", !.id = NoId,
                                                       !.nbr = Null]]
    BY <1>3 DEF Release
  <2> HIDE DEF a
  <2>2. Given(a, "DISASSOCIATED", NoId, Null)
    BY <1>1, <1>3, <2>1 DEF AssocType, SlotType, Given, a
  <2> QED
    BY <2>2 DEF a
<1> QED
  BY <1>1, <1>2, <1>3

\* The steps that leave the slots alone, but for bg_scan_ongoing.
Aside ==
  \/ ClearNbrs \/ Scheduler \/ StopForRelease
  \/ \E ft \in Fts : Beacon(ft) \/ Lost(ft) \/ Dissociate(ft)
  \/ \E sent \in BOOLEAN : SendRequest(sent)

LEMMA AsideKeepsSlots ==
  ASSUME Inv, Aside
  PROVE  SameSlots(assoc', assoc)
<1>1. assoc \in AssocType /\ Current \in Parts
  BY PartsType DEF Inv
<1>2. CASE assoc' = assoc
  BY <1>2 DEF SameSlots
<1>3. CASE StopForRelease
  <2> DEFINE a == user.slot
             t == Stop(Current, a)
  <2>1. a \in Slots
    BY <1>3 DEF StopForRelease, Inv, UserOK
  <2>2. t \in Parts /\ SameSlots(t.assoc, assoc)
    BY <1>1, StopProperties DEF Current
  <2>3. assoc' = [t.assoc EXCEPT ![a].scanOn = FALSE]
    BY <1>3, <2>2 DEF StopForRelease, Becomes, Parts
  <2> HIDE DEF t, a
  <2>4. SameSlots(assoc', t.assoc)
    BY <2>1, <2>2, <2>3, ScanOnProperties DEF Parts
  <2> QED
    BY <2>2, <2>4 DEF SameSlots
<1>4. ASSUME NEW h \in Slots, NEW unreachable \in BOOLEAN,
             CompleteTurn(h, unreachable) \/ LateTurn(h, unreachable)
      PROVE  SameSlots(assoc', assoc)
  <2> DEFINE t == TurnCompleted(h, unreachable)
  <2>1. t \in Parts /\ SameSlots(t.assoc, assoc)
    BY <1>1, StopProperties DEF TurnCompleted, Current, SameSlots
  <2>2. assoc' = t.assoc
    BY <1>4, <2>1 DEF CompleteTurn, LateTurn, Becomes, Parts
  <2> QED
    BY <2>1, <2>2
<1>5. CASE ~(StopForRelease \/ \E h \in Slots, unreachable \in BOOLEAN :
                                 CompleteTurn(h, unreachable) \/ LateTurn(h, unreachable))
  <2>1. assoc' = assoc
    BY <1>5 DEF Aside, ClearNbrs, Scheduler, Beacon, Lost, Dissociate, SendRequest, SendTurn, Dropped
  <2> QED
    BY <1>2, <2>1
<1> QED
  BY <1>3, <1>4, <1>5

\* A step with no command in its second half, or that leaves the slots and the
\* command's slot alone.
LEMMA AsideTimely ==
  ASSUME TimelyInv, Aside
  PROVE  UserTakes' /\ TargetKnown'
<1>1. SameSlots(assoc', assoc)
  BY AsideKeepsSlots DEF TimelyInv
<1>2. TargetKnown'
  BY <1>1 DEF TimelyInv, TargetKnown, SameSlots
<1>3. CASE user'.step \in {"send", "commit"}
  <2>1. user'.slot = user.slot /\ user'.ft = user.ft /\ user'.nbr = user.nbr
        /\ user.step \in {"send", "commit"}
    <3>1. user = user' \/ \E sent \in BOOLEAN : SendRequest(sent)
      BY <1>3 DEF Aside, ClearNbrs, Scheduler, StopForRelease, Beacon, Lost, Dissociate,
                  SendTurn, Dropped, CompleteTurn, LateTurn, Idle, TimelyInv, Inv, TypeOK
    <3>2. ASSUME NEW sent \in BOOLEAN, SendRequest(sent)
          PROVE  user' = [user EXCEPT !.step = "commit"] /\ user.step = "send"
      BY <1>3, <3>2 DEF SendRequest, Idle
    <3> QED
      BY <1>3, <3>1, <3>2 DEF TimelyInv, Inv, TypeOK
  <2>2. user.slot \in Slots
    BY <2>1 DEF TimelyInv, Inv, UserOK
  <2>3. user.nbr # Null /\ (assoc[user.slot].state = "DISASSOCIATED" \/ assoc[user.slot].id = user.ft)
    BY <2>1 DEF TimelyInv, UserTakes
  <2> QED
    BY <1>1, <1>2, <2>1, <2>2, <2>3 DEF UserTakes, SameSlots
<1>4. CASE user'.step \notin {"send", "commit"}
  BY <1>2, <1>4 DEF UserTakes
<1> QED
  BY <1>3, <1>4

\* An association request chooses a slot that is free, or its target's own, and
\* the target is a neighbour that can be read.
LEMMA AssociateTimely ==
  ASSUME TimelyInv, NEW ft \in Fts, Associate(ft)
  PROVE  UserTakes' /\ TargetKnown' /\ SameRequests(assoc', assoc)
<1> DEFINE a == SlotFor(ft)
           n == NbrOf(ft)
<1>1. n \in Places /\ n # Null /\ a # Null /\ assoc \in AssocType
      /\ user' = [step |-> "send", slot |-> a, ft |-> ft, nbr |-> n]
  BY Places3, PartsType DEF Associate, TimelyInv, Inv
<1>2. CASE AssocOf(assoc, ft) = Null
  <2>1. a = FreeAssoc /\ assoc' = assoc
    BY <1>2 DEF Associate, SlotFor
  <2>2. {b \in Slots : assoc[b].state = "DISASSOCIATED"} \subseteq Slots
    OBVIOUS
  <2>3. assoc[a].state = "DISASSOCIATED"
    BY <1>1, <2>1, <2>2, FirstProperties DEF FreeAssoc
  <2> HIDE DEF a, n
  <2>4. UserTakes'
    BY <1>1, <2>1, <2>3 DEF UserTakes
  <2> QED
    BY <2>1, <2>4 DEF TimelyInv, TargetKnown, SameRequests
<1>3. CASE AssocOf(assoc, ft) # Null
  <2>1. a \in Slots /\ assoc[a].id = ft
    BY <1>3, Places1 DEF SlotFor
  <2>2. assoc' = [assoc EXCEPT ![a].nbr = n]
    BY <1>3 DEF Associate
  <2> HIDE DEF a, n
  <2>3. SameRequests(assoc', assoc)
    BY <1>1, <2>1, <2>2, NbrProperties
  <2>4. /\ assoc'[a].nbr = n
        /\ \A b \in Slots \ {a} : assoc'[b] = assoc[b]
    <3>1. assoc[a] \in SlotType
      BY <1>1, <2>1 DEF AssocType, SlotType
    <3> QED
      BY <1>1, <2>1, <2>2, <3>1 DEF AssocType, SlotType
  <2>5. TargetKnown'
    BY <1>1, <2>3, <2>4 DEF TimelyInv, TargetKnown, SameRequests
  <2>6. UserTakes'
    BY <1>1, <2>1, <2>3 DEF UserTakes, SameRequests
  <2> QED
    BY <2>3, <2>5, <2>6
<1> QED
  BY <1>2, <1>3

\* A timely response meets a slot that waits or is associated.
LEMMA ResponseTimely ==
  ASSUME Timely, Inv, NEW ft \in Fts, NEW added \in BOOLEAN, Response(ft, added),
         AssocOf(assoc, ft) # Null
  PROVE  /\ assoc[AssocOf(assoc, ft)].state # "DISASSOCIATED"
         /\ ~Releasing(AssocOf(assoc, ft))
BY DEF Response, Expected

\* The slot the command chose is given to nobody else meanwhile.
LEMMA GivenTimely ==
  ASSUME TimelyInv, NEW a \in Slots, NEW s, NEW n,
         s \in {"DISASSOCIATED", "ASSOCIATED"}, Given(a, s, assoc[a].id, n),
         s = "ASSOCIATED" => n = assoc[a].nbr /\ assoc[a].state # "DISASSOCIATED",
         user' = user
  PROVE  UserTakes' /\ TargetKnown'
<1>1. user.step \in {"send", "commit"} => user.slot \in Slots
  BY DEF TimelyInv, Inv, UserOK
<1>2. UserTakes'
  BY <1>1 DEF TimelyInv, UserTakes, Given
<1>3. TargetKnown'
  BY DEF TimelyInv, TargetKnown, Given
<1> QED
  BY <1>2, <1>3

LEMMA TimelyKeeps ==
  ASSUME Timely, TimelyInv, [Next]_vars
  PROVE  TimelyInv'
<1>1. Inv /\ Inv'
  BY NextKeeps DEF TimelyInv
<1>2. CASE Aside
  BY <1>1, <1>2, AsideTimely DEF TimelyInv
<1>3. ASSUME NEW ft \in Fts, Associate(ft) PROVE TimelyInv'
  BY <1>1, <1>3, AssociateTimely DEF TimelyInv
<1>4. CASE Commit
  <2>1. user.slot \in Slots /\ Given(user.slot, "WAITING", user.ft, user.nbr)
        /\ user.nbr # Null /\ user' = Idle
    BY <1>1, <1>4, CommandGives DEF Commit, TimelyInv, UserTakes
  <2> QED
    BY <1>1, <2>1 DEF TimelyInv, UserTakes, TargetKnown, Given, Idle
<1>5. CASE Release
  <2>1. user.slot \in Slots /\ Given(user.slot, "DISASSOCIATED", NoId, Null) /\ user' = Idle
    BY <1>1, <1>5, CommandGives DEF Release
  <2> QED
    BY <1>1, <2>1 DEF TimelyInv, UserTakes, TargetKnown, Given, Idle
<1>6. ASSUME NEW a \in Slots, Timeout(a) PROVE TimelyInv'
  <2>1. user' = user
    BY <1>6 DEF Timeout
  <2>2. CASE assoc[a].state = "WAITING"
    <3>1. Given(a, "DISASSOCIATED", assoc[a].id, Null)
      BY <1>1, <1>6, <2>2, TimeoutGives
    <3> QED
      BY <1>1, <2>1, <3>1, GivenTimely DEF TimelyInv
  <2>3. CASE assoc[a].state # "WAITING"
    <3>1. assoc' = assoc
      BY <1>1, <1>6, <2>3, TimeoutGives
    <3> QED
      BY <1>1, <2>1, <3>1 DEF TimelyInv, UserTakes, TargetKnown
  <2> QED
    BY <2>2, <2>3
<1>7. ASSUME NEW ft \in Fts, NEW added \in BOOLEAN, Response(ft, added) PROVE TimelyInv'
  <2> DEFINE a == AssocOf(assoc, ft)
  <2>1. user' = user
    BY <1>7 DEF Response
  <2>2. CASE a = Null
    <3>1. assoc' = assoc
      BY <1>1, <1>7, <2>2, ResponseGives
    <3> QED
      BY <1>1, <2>1, <3>1 DEF TimelyInv, UserTakes, TargetKnown
  <2>3. CASE a # Null
    <3>1. a \in Slots /\ Given(a, "ASSOCIATED", assoc[a].id, assoc[a].nbr)
      BY <1>1, <1>7, <2>3, ResponseGives
    <3>2. assoc[a].state # "DISASSOCIATED"
      BY <1>1, <1>7, <2>3, ResponseTimely
    <3> HIDE DEF a
    <3> QED
      BY <1>1, <2>1, <3>1, <3>2, GivenTimely DEF TimelyInv
  <2> QED
    BY <2>2, <2>3
<1>8. CASE UNCHANGED vars
  BY <1>1, <1>8 DEF vars, TimelyInv, UserTakes, TargetKnown
<1> QED
  BY <1>2, <1>3, <1>4, <1>5, <1>6, <1>7, <1>8 DEF Next, User, Timers, Air, Scheduler, Aside

\* With answers that come when they are expected, the inductive invariant of the
\* slots holds always.
THEOREM TimelyHolds == ASSUME Timely PROVE Spec => []TimelyInv
<1>1. Init => TimelyInv
  BY InitHolds DEF Init, TimelyInv, UserTakes, TargetKnown, Idle
<1>2. TimelyInv /\ [Next]_vars => TimelyInv'
  BY TimelyKeeps
<1> QED
  BY <1>1, <1>2, PTL DEF Spec

\* The target of a slot in use can be read: dect_phy_mac_handle() never meets a
\* NULL target_nbr, as long as no response comes to a slot that was given up.
THEOREM TargetsAreKnown == ASSUME Timely PROVE Spec => []TargetKnown
<1>1. TimelyInv => TargetKnown
  BY DEF TimelyInv
<1> QED
  BY <1>1, TimelyHolds, PTL

--------------------------------------------------------------------------------
(* The slots implement what the client promises: step by step, what the    *)
(* threads do maps to a step of Association or to none.                    *)

stages == [a \in Slots |-> assoc[a].state]
partners == [a \in Slots |-> assoc[a].id]

LEMMA GivenMapped ==
  ASSUME NEW a \in Slots, NEW s, NEW d, NEW n, Given(a, s, d, n)
  PROVE  stages' = [stages EXCEPT ![a] = s] /\ partners' = [partners EXCEPT ![a] = d]
BY DEF stages, partners, Given

LEMMA SlotsMapped ==
  ASSUME SameRequests(assoc', assoc)
  PROVE  stages' = stages /\ partners' = partners
BY DEF SameRequests, stages, partners

LEMMA MappedValues ==
  \A a \in Slots : stages[a] = assoc[a].state /\ partners[a] = assoc[a].id
BY DEF stages, partners

\* An association request maps to Ask when its slot is taken: no other slot has
\* its target, and its own is free or has it already.
LEMMA CommitMapped ==
  ASSUME TimelyInv, Commit
  PROVE  Promise!AssocNext
<1>1. PICK a \in Slots, d \in Fts : a = user.slot /\ d = user.ft
  BY DEF TimelyInv, Inv, UserOK, Commit
<1>2. /\ Given(a, "WAITING", d, user.nbr) /\ asked' = asked
      /\ \A b \in Slots : assoc[b].id = d => b = a
      /\ assoc[a].state = "DISASSOCIATED" \/ assoc[a].id = d
  BY <1>1, CommandGives DEF TimelyInv, UserTakes, Inv, UserOK, Commit
<1>3. stages' = [stages EXCEPT ![a] = "WAITING"] /\ partners' = [partners EXCEPT ![a] = d]
  BY <1>2, GivenMapped
<1>4. stages[a] = "DISASSOCIATED" \/ partners[a] = d
  BY <1>2, MappedValues
<1>5. \A b \in Slots \ {a} : partners[b] # d
  BY <1>2, MappedValues
<1>6. Promise!Ask(a, d)
  BY <1>2, <1>3, <1>4, <1>5 DEF Promise!Ask, Promise!Becomes, stages, partners
<1> QED
  BY <1>6 DEF Promise!AssocNext

\* A release ends in a slot that the user is releasing.
LEMMA ReleaseMapped ==
  ASSUME Inv, Release
  PROVE  Promise!AssocNext
<1>1. PICK a \in Slots : a = user.slot
  BY DEF Inv, UserOK, Release
<1>2. Given(a, "DISASSOCIATED", NoId, Null) /\ asked' = asked /\ user.step = "release"
  BY <1>1, CommandGives DEF Release
<1>3. stages' = [stages EXCEPT ![a] = "DISASSOCIATED"] /\ partners' = [partners EXCEPT ![a] = NoId]
  BY <1>2, GivenMapped
<1>4. Promise!Release(a)
  BY <1>1, <1>2, <1>3 DEF Promise!Release, Promise!Becomes, stages, partners
<1> QED
  BY <1>4 DEF Promise!AssocNext

\* A timeout gives up, or does nothing to a slot that does not wait any more.
LEMMA TimeoutMapped ==
  ASSUME Inv, NEW a \in Slots, Timeout(a)
  PROVE  [Promise!AssocNext]_(Promise!answers)
<1>1. asked' = asked
  BY DEF Timeout
<1>2. CASE assoc[a].state = "WAITING"
  <2>1. Given(a, "DISASSOCIATED", assoc[a].id, Null)
    BY <1>2, TimeoutGives
  <2>2. /\ stages' = [stages EXCEPT ![a] = "DISASSOCIATED"]
        /\ partners' = [partners EXCEPT ![a] = partners[a]]
    BY <2>1, GivenMapped, MappedValues
  <2>3. Promise!GiveUp(a)
    BY <1>1, <1>2, <2>2 DEF Promise!GiveUp, Promise!Becomes, stages, partners
  <2> QED
    BY <2>3 DEF Promise!AssocNext
<1>3. CASE assoc[a].state # "WAITING"
  <2>1. assoc' = assoc
    BY <1>3, TimeoutGives
  <2> QED
    BY <1>1, <2>1 DEF Promise!answers
<1> QED
  BY <1>2, <1>3

\* A response answers for its own device, or is lost on a client that has no slot
\* for it any more.
LEMMA ResponseMapped ==
  ASSUME Timely, Inv, NEW ft \in Fts, NEW added \in BOOLEAN, Response(ft, added)
  PROVE  Promise!AssocNext
<1> DEFINE a == AssocOf(assoc, ft)
<1>1. ft \in asked /\ asked' = asked \ {ft}
  BY DEF Response
<1>2. CASE a = Null
  <2>1. assoc' = assoc
    BY <1>2, ResponseGives
  <2>2. Promise!Lose(ft)
    BY <1>1, <2>1 DEF Promise!Lose
  <2> QED
    BY <2>2 DEF Promise!AssocNext
<1>3. CASE a # Null
  <2>1. PICK b \in Slots : b = a
    BY <1>3, ResponseGives
  <2>2. assoc[b].id = ft /\ Given(b, "ASSOCIATED", ft, assoc[b].nbr)
    BY <1>3, <2>1, ResponseGives
  <2>3. assoc[b].state # "DISASSOCIATED"
    BY <1>3, <2>1, ResponseTimely
  <2> HIDE DEF a
  <2>4. /\ stages' = [stages EXCEPT ![b] = "ASSOCIATED"]
        /\ partners' = [partners EXCEPT ![b] = ft]
    BY <2>2, GivenMapped
  <2>5. stages[b] # "DISASSOCIATED" /\ partners[b] = ft
    BY <2>2, <2>3, MappedValues
  <2>6. Promise!Answered(b)
    BY <1>1, <2>4, <2>5 DEF Promise!Answered, Promise!Becomes, stages, partners
  <2> QED
    BY <2>6 DEF Promise!AssocNext
<1> QED
  BY <1>2, <1>3

\* A request that is sent or lost on the air; all else does not show.
LEMMA AsideMapped ==
  ASSUME Inv, Aside
  PROVE  [Promise!AssocNext]_(Promise!answers)
<1>1. stages' = stages /\ partners' = partners
  BY AsideKeepsSlots, SlotsMapped DEF SameSlots, SameRequests
<1>2. CASE asked' = asked
  BY <1>1, <1>2 DEF Promise!answers, stages, partners
<1>3. CASE asked' # asked
  <2>1. \/ \E ft \in Fts : asked' = asked \ {ft}
        \/ user.ft \in Fts /\ asked' = asked \cup {user.ft}
    BY <1>3 DEF Aside, ClearNbrs, Scheduler, StopForRelease, Beacon, Lost, Dissociate, SendRequest,
                SendTurn, Dropped, CompleteTurn, LateTurn, Inv, UserOK
  <2>2. \E ft \in Fts : Promise!Lose(ft) \/ Promise!Send(ft)
    BY <1>1, <2>1 DEF Promise!Lose, Promise!Send, stages, partners
  <2> QED
    BY <2>2 DEF Promise!AssocNext
<1> QED
  BY <1>2, <1>3

LEMMA NextMapped ==
  ASSUME Timely, TimelyInv, [Next]_vars
  PROVE  [Promise!AssocNext]_(Promise!answers)
<1>1. Inv
  BY DEF TimelyInv
<1>2. CASE Aside
  BY <1>1, <1>2, AsideMapped
<1>3. ASSUME NEW ft \in Fts, Associate(ft) PROVE [Promise!AssocNext]_(Promise!answers)
  <2>1. stages' = stages /\ partners' = partners
    BY <1>3, AssociateTimely, SlotsMapped
  <2>2. asked' = asked
    BY <1>3 DEF Associate
  <2> QED
    BY <2>1, <2>2 DEF Promise!answers, stages, partners
<1>4. CASE Commit
  BY <1>4, CommitMapped
<1>5. CASE Release
  BY <1>1, <1>5, ReleaseMapped
<1>6. CASE Timers
  BY <1>1, <1>6, TimeoutMapped DEF Timers
<1>7. CASE \E ft \in Fts, added \in BOOLEAN : Response(ft, added)
  BY <1>1, <1>7, ResponseMapped
<1>8. CASE UNCHANGED vars
  BY <1>8 DEF vars, Promise!answers
<1> QED
  BY <1>2, <1>3, <1>4, <1>5, <1>6, <1>7, <1>8 DEF Next, User, Air, Aside

\* The client keeps its promise for any number of devices and slots: no timeout
\* takes an association, no answer of one device is taken for another's, and only
\* a release takes an association back, as long as no response comes to a slot
\* that was given up.
THEOREM AssociationRefined == ASSUME Timely PROVE Spec => RefinesAssociation
<1>1. Init => Promise!AssocInit
  BY DEF Init, Promise!AssocInit
<1>2. TimelyInv /\ [Next]_vars => [Promise!AssocNext]_(Promise!answers)
  BY NextMapped
<1> QED
  BY <1>1, <1>2, TimelyHolds, PTL DEF Spec, RefinesAssociation, Promise!AssocSpec

--------------------------------------------------------------------------------
(* The slots and their scans. s is the part of the state the background    *)
(* scans work on: the slots, the scans, and the scheduler's list.          *)

Runs(sc, h) == \E i \in Slots : sc[i].running /\ sc[i].handle = h

\* The scans that run and the slots that have one belong together, one to one.
Owned(s) ==
  /\ \A i, j \in Slots :
       s.scan[i].running /\ s.scan[j].running /\ s.scan[i].handle = s.scan[j].handle => i = j
  /\ \A i \in Slots : s.scan[i].running =>
       /\ s.scan[i].handle \in Slots /\ s.scan[i].id \in Fts
       /\ s.assoc[s.scan[i].handle].scanOn /\ s.assoc[s.scan[i].handle].id = s.scan[i].id
  /\ \A a \in Slots : s.assoc[a].scanOn => Runs(s.scan, a)
  /\ \A h \in s.listed : Runs(s.scan, h)

\* No two slots have the same device.
OneEach(as) == \A a, b \in Slots : as[a].id = as[b].id /\ as[a].id # NoId => a = b

LEMMA ScanOfRuns ==
  ASSUME NEW sc, NEW h
  PROVE  /\ ScanOf(sc, h) # Null <=> Runs(sc, h)
         /\ ScanOf(sc, h) # Null => /\ ScanOf(sc, h) \in Slots
                                    /\ sc[ScanOf(sc, h)].running /\ sc[ScanOf(sc, h)].handle = h
<1> DEFINE S == {i \in Slots : sc[i].running /\ sc[i].handle = h}
<1>1. S \subseteq Slots
  OBVIOUS
<1>2. (First(S) = Null <=> S = {}) /\ (First(S) # Null => First(S) \in S)
  BY <1>1, FirstProperties
<1>3. S # {} <=> Runs(sc, h)
  BY DEF Runs
<1> QED
  BY <1>2, <1>3 DEF ScanOf

LEMMA FreeScanStops ==
  ASSUME NEW sc, FreeScan(sc) # Null
  PROVE  FreeScan(sc) \in Slots /\ ~sc[FreeScan(sc)].running
<1>1. {i \in Slots : ~sc[i].running} \subseteq Slots
  OBVIOUS
<1> QED
  BY <1>1, FirstProperties DEF FreeScan

\* What keeps them together: no scan starts or stops, and no slot that has one
\* gets another device.
LEMMA OwnedKept ==
  ASSUME NEW s \in Parts, Owned(s), NEW t \in Parts, t.listed \subseteq s.listed,
         \A i \in Slots : /\ t.scan[i].running = s.scan[i].running
                          /\ t.scan[i].handle = s.scan[i].handle /\ t.scan[i].id = s.scan[i].id,
         \A a \in Slots : /\ t.assoc[a].scanOn = s.assoc[a].scanOn
                          /\ t.assoc[a].id = s.assoc[a].id \/ ~Runs(s.scan, a)
  PROVE  Owned(t) /\ \A h : Runs(t.scan, h) <=> Runs(s.scan, h)
<1>1. \A h : Runs(t.scan, h) <=> Runs(s.scan, h)
  BY DEF Runs
<1>2. \A i, j \in Slots :
        t.scan[i].running /\ t.scan[j].running /\ t.scan[i].handle = t.scan[j].handle => i = j
  BY DEF Owned
<1>3. ASSUME NEW i \in Slots, t.scan[i].running
      PROVE  /\ t.scan[i].handle \in Slots /\ t.scan[i].id \in Fts
             /\ t.assoc[t.scan[i].handle].scanOn /\ t.assoc[t.scan[i].handle].id = t.scan[i].id
  <2>1. /\ s.scan[i].running /\ s.scan[i].handle \in Slots /\ s.scan[i].id \in Fts
        /\ s.assoc[s.scan[i].handle].scanOn /\ s.assoc[s.scan[i].handle].id = s.scan[i].id
    BY <1>3 DEF Owned
  <2>2. Runs(s.scan, s.scan[i].handle)
    BY <2>1 DEF Runs
  <2> QED
    BY <2>1, <2>2
<1>4. ASSUME NEW a \in Slots, t.assoc[a].scanOn PROVE Runs(t.scan, a)
  BY <1>1, <1>4 DEF Owned
<1>5. \A h \in t.listed : Runs(t.scan, h)
  BY <1>1 DEF Owned
<1> QED
  BY <1>1, <1>2, <1>3, <1>4, <1>5 DEF Owned

\* Stopping a scan tells its own slot, and no other, that it ended; it leaves no
\* scan and nothing in the scheduler's list.
LEMMA StopOwned ==
  ASSUME NEW s \in Parts, Owned(s), OneEach(s.assoc), NEW h \in Slots
  PROVE  /\ Stop(s, h) \in Parts /\ Owned(Stop(s, h))
         /\ Stop(s, h).assoc = [s.assoc EXCEPT ![h].scanOn = FALSE]
         /\ ~Runs(Stop(s, h).scan, h)
         /\ \A a : Runs(Stop(s, h).scan, a) => Runs(s.scan, a)
<1>1. s.assoc \in AssocType /\ s.scan \in ScanType /\ Stop(s, h) \in Parts
  BY StopProperties DEF Parts
<1>2. CASE ScanOf(s.scan, h) = Null
  <2>1. Stop(s, h) = s /\ ~Runs(s.scan, h)
    BY <1>2, ScanOfRuns DEF Stop
  <2>2. s.assoc[h].scanOn = FALSE
    BY <1>1, <2>1 DEF Owned, AssocType
  <2>3. s.assoc = [s.assoc EXCEPT ![h].scanOn = FALSE]
    BY <1>1, <2>2 DEF AssocType
  <2> QED
    BY <1>1, <2>1, <2>3
<1>3. CASE ScanOf(s.scan, h) # Null
  <2> DEFINE i == ScanOf(s.scan, h)
             t == Stop(s, h)
  <2>1. i \in Slots /\ s.scan[i].running /\ s.scan[i].handle = h
    BY <1>3, ScanOfRuns
  <2>2. s.scan[i].id \in Fts /\ s.assoc[h].scanOn /\ s.assoc[h].id = s.scan[i].id
    BY <2>1 DEF Owned
  <2>3. AssocOf(s.assoc, s.scan[i].id) = h
    <3> DEFINE d == s.scan[i].id
    <3>1. d \in Fts /\ d # NoId /\ s.assoc[h].id = d
      BY <2>2, MacClientAssumption
    <3> HIDE DEF d, i
    <3>2. AssocOf(s.assoc, d) # Null
      BY <3>1, Places1
    <3>3. AssocOf(s.assoc, d) \in Slots /\ s.assoc[AssocOf(s.assoc, d)].id = d
      BY <3>2, Places1
    <3>4. AssocOf(s.assoc, d) = h
      BY <3>1, <3>3 DEF OneEach
    <3> QED
      BY <3>4 DEF d
  <2>4. /\ t.assoc = [s.assoc EXCEPT ![h].scanOn = FALSE]
        /\ t.scan = [s.scan EXCEPT ![i].running = FALSE] /\ t.listed = s.listed \ {h}
    <3>1. h # Null
      BY SlotNumbers
    <3> QED
      BY <1>3, <2>3, <3>1 DEF Stop, Informed
  <2> HIDE DEF i, t
  <2>5. /\ t.scan[i].running = FALSE
        /\ \A j \in Slots : j # i => t.scan[j] = s.scan[j]
        /\ t.assoc[h].scanOn = FALSE /\ \A a \in Slots : t.assoc[a].id = s.assoc[a].id
        /\ \A a \in Slots : a # h => t.assoc[a] = s.assoc[a]
    BY <1>1, <2>1, <2>4 DEF AssocType, ScanType
  <2>6. \A j \in Slots : s.scan[j].running /\ j # i => s.scan[j].handle # h
    BY <2>1 DEF Owned
  <2>7. ~Runs(t.scan, h) /\ \A a : Runs(t.scan, a) => Runs(s.scan, a)
    BY <2>5, <2>6 DEF Runs
  <2>8. ASSUME NEW a, a # h, Runs(s.scan, a) PROVE Runs(t.scan, a)
    <3>1. PICK j \in Slots : s.scan[j].running /\ s.scan[j].handle = a
      BY <2>8 DEF Runs
    <3>2. j # i
      BY <2>1, <2>8, <3>1
    <3> QED
      BY <2>5, <3>1, <3>2 DEF Runs
  <2>9. Owned(t)
    <3>1. \A j, k \in Slots :
            t.scan[j].running /\ t.scan[k].running /\ t.scan[j].handle = t.scan[k].handle => j = k
      BY <2>5 DEF Owned
    <3>2. ASSUME NEW j \in Slots, t.scan[j].running
          PROVE  /\ t.scan[j].handle \in Slots /\ t.scan[j].id \in Fts
                 /\ t.assoc[t.scan[j].handle].scanOn /\ t.assoc[t.scan[j].handle].id = t.scan[j].id
      <4>1. j # i /\ s.scan[j].running /\ t.scan[j] = s.scan[j] /\ s.scan[j].handle # h
        BY <2>5, <2>6, <3>2
      <4>2. /\ s.scan[j].handle \in Slots /\ s.scan[j].id \in Fts
            /\ s.assoc[s.scan[j].handle].scanOn /\ s.assoc[s.scan[j].handle].id = s.scan[j].id
        BY <4>1 DEF Owned
      <4> QED
        BY <2>5, <4>1, <4>2
    <3>3. ASSUME NEW a \in Slots, t.assoc[a].scanOn PROVE Runs(t.scan, a)
      <4>1. a # h /\ s.assoc[a].scanOn
        BY <2>5, <3>3
      <4> QED
        BY <2>8, <4>1 DEF Owned
    <3>4. \A a \in t.listed : Runs(t.scan, a)
      BY <2>4, <2>8 DEF Owned
    <3> QED
      BY <3>1, <3>2, <3>3, <3>4 DEF Owned
  <2> QED
    BY <1>1, <2>4, <2>7, <2>9 DEF t
<1> QED
  BY <1>2, <1>3

\* Starting one for a slot that has none, with the device of the slot.
LEMMA StartOwned ==
  ASSUME NEW s \in Parts, Owned(s), NEW h \in Slots, NEW id \in Fts, s.assoc[h].id = id,
         NEW added \in BOOLEAN
  PROVE  /\ Start(s, h, id, added) \in Parts /\ Owned(Start(s, h, id, added))
         /\ \A a : a # h /\ Runs(Start(s, h, id, added).scan, a) => Runs(s.scan, a)
<1>1. s.assoc \in AssocType /\ s.scan \in ScanType /\ Start(s, h, id, added) \in Parts
  BY StartProperties DEF Parts, Ids
<1>2. CASE ~CanStart(s, h) \/ ~added
  BY <1>1, <1>2 DEF Start
<1>3. CASE CanStart(s, h) /\ added
  <2> DEFINE i == FreeScan(s.scan)
             new == [running |-> TRUE, handle |-> h, id |-> id, heard |-> FALSE]
             t == Start(s, h, id, added)
  <2>1. i \in Slots /\ ~s.scan[i].running /\ ~Runs(s.scan, h)
    BY <1>3, FreeScanStops, ScanOfRuns DEF CanStart
  <2>2. /\ t.assoc = [s.assoc EXCEPT ![h].scanOn = TRUE]
        /\ t.scan = [s.scan EXCEPT ![i] = new] /\ t.listed = s.listed \cup {h}
    BY <1>3 DEF Start
  <2>3. new.running = TRUE /\ new.handle = h /\ new.id = id
    OBVIOUS
  <2> HIDE DEF i, new, t
  <2>4. /\ t.scan[i] = new /\ \A j \in Slots : j # i => t.scan[j] = s.scan[j]
        /\ t.assoc[h].scanOn = TRUE /\ \A a \in Slots : t.assoc[a].id = s.assoc[a].id
        /\ \A a \in Slots : a # h => t.assoc[a] = s.assoc[a]
    BY <1>1, <2>1, <2>2 DEF AssocType, ScanType
  <2>5. \A a : Runs(t.scan, a) <=> Runs(s.scan, a) \/ a = h
    <3>1. ASSUME NEW a, Runs(t.scan, a) PROVE Runs(s.scan, a) \/ a = h
      BY <2>3, <2>4, <3>1 DEF Runs
    <3>2. ASSUME NEW a, Runs(s.scan, a) PROVE Runs(t.scan, a)
      <4>1. PICK j \in Slots : s.scan[j].running /\ s.scan[j].handle = a
        BY <3>2 DEF Runs
      <4>2. j # i
        BY <2>1, <4>1
      <4> QED
        BY <2>4, <4>1, <4>2 DEF Runs
    <3>3. Runs(t.scan, h)
      BY <2>1, <2>3, <2>4 DEF Runs
    <3> QED
      BY <3>1, <3>2, <3>3
  <2>6. Owned(t)
    <3>0. \A j \in Slots : j # i /\ t.scan[j].running => s.scan[j].running /\ s.scan[j].handle # h
      BY <2>1, <2>4 DEF Runs
    <3>1. ASSUME NEW j \in Slots, NEW k \in Slots, t.scan[j].running, t.scan[k].running,
                 t.scan[j].handle = t.scan[k].handle
          PROVE  j = k
      BY <2>3, <2>4, <3>0, <3>1 DEF Owned
    <3>2. ASSUME NEW j \in Slots, t.scan[j].running
          PROVE  /\ t.scan[j].handle \in Slots /\ t.scan[j].id \in Fts
                 /\ t.assoc[t.scan[j].handle].scanOn /\ t.assoc[t.scan[j].handle].id = t.scan[j].id
      <4>1. CASE j = i
        BY <2>3, <2>4, <4>1
      <4>2. CASE j # i
        <5>1. s.scan[j].running /\ s.scan[j].handle # h /\ t.scan[j] = s.scan[j]
          BY <2>4, <3>0, <3>2, <4>2
        <5>2. /\ s.scan[j].handle \in Slots /\ s.scan[j].id \in Fts
              /\ s.assoc[s.scan[j].handle].scanOn /\ s.assoc[s.scan[j].handle].id = s.scan[j].id
          BY <5>1 DEF Owned
        <5> QED
          BY <2>4, <5>1, <5>2
      <4> QED
        BY <4>1, <4>2
    <3>3. ASSUME NEW a \in Slots, t.assoc[a].scanOn PROVE Runs(t.scan, a)
      BY <2>4, <2>5, <3>3 DEF Owned
    <3>4. \A a \in t.listed : Runs(t.scan, a)
      BY <2>2, <2>5 DEF Owned
    <3> QED
      BY <3>1, <3>2, <3>3, <3>4 DEF Owned
  <2> QED
    BY <1>1, <2>5, <2>6 DEF t
<1> QED
  BY <1>2, <1>3

--------------------------------------------------------------------------------
(* What keeps slots and scans together besides: a slot that was given up or*)
(* is about to be given back has no scan, so that the next device of the   *)
(* slot cannot inherit one.                                                *)

Quiet ==
  /\ \A a \in Slots : assoc[a].state = "DISASSOCIATED" => ~Runs(scan, a)
  /\ user.step = "release" => ~Runs(scan, user.slot)

ScansInv == TimelyInv /\ Owned(Current) /\ Quiet

LEMMA ScansFacts ==
  ASSUME ScansInv
  PROVE  /\ Current \in Parts /\ OneEach(assoc) /\ Owned(Current)
         /\ Current.assoc = assoc /\ Current.scan = scan /\ Current.listed = listed
BY PartsType DEF ScansInv, TimelyInv, Inv, UniqueTargets, OneEach, Current

\* The parts of the next state.
LEMMA NextParts ==
  ASSUME Inv'
  PROVE  /\ Current' \in Parts /\ Current'.assoc = assoc'
         /\ Current'.scan = scan' /\ Current'.listed = listed'
BY DEF Inv, TypeOK, Current, Parts, AssocType, ScanType

\* A step that neither starts nor stops a scan.
LEMMA StillOwned ==
  ASSUME ScansInv, Inv', listed' \subseteq listed,
         \A i \in Slots : /\ scan'[i].running = scan[i].running
                          /\ scan'[i].handle = scan[i].handle /\ scan'[i].id = scan[i].id,
         \A a \in Slots : /\ assoc'[a].scanOn = assoc[a].scanOn
                          /\ assoc'[a].id = assoc[a].id \/ ~Runs(scan, a)
  PROVE  Owned(Current)' /\ \A h : Runs(scan', h) <=> Runs(scan, h)
<1> DEFINE s == Current
           t == [assoc |-> assoc', scan |-> scan', listed |-> listed']
<1>1. /\ s \in Parts /\ Owned(s)
      /\ s.assoc = assoc /\ s.scan = scan /\ s.listed = listed
  BY ScansFacts
<1>2. t \in Parts /\ t.assoc = assoc' /\ t.scan = scan' /\ t.listed = listed' /\ t = Current'
  BY NextParts DEF Current
<1> HIDE DEF s, t
<1>3. Owned(t) /\ \A h : Runs(t.scan, h) <=> Runs(s.scan, h)
  BY <1>1, <1>2, OwnedKept
<1>4. Owned([assoc |-> assoc', scan |-> scan', listed |-> listed'])
  BY <1>3 DEF t
<1> QED
  BY <1>1, <1>2, <1>3, <1>4 DEF Current

\* The command takes its slot, frees it, or makes its target readable.
LEMMA CommandScans ==
  ASSUME ScansInv, TimelyInv', Commit \/ Release \/ \E ft \in Fts : Associate(ft)
  PROVE  ScansInv'
<1>1. /\ UNCHANGED <<scan, listed>> /\ assoc \in AssocType /\ Inv /\ Inv' /\ user'.step # "release"
  BY PartsType DEF Commit, Release, Associate, Idle, ScansInv, TimelyInv, Inv
<1>2. CASE Commit
  <2> DEFINE a == user.slot
  <2>1. /\ a \in Slots /\ Given(a, "WAITING", user.ft, user.nbr)
        /\ assoc' = [assoc EXCEPT ![a] = [assoc[a] EXCEPT !.state = "WAITING", !.id = user.ft,
                                                          !.nbr = user.nbr]]
        /\ assoc[a].state = "DISASSOCIATED" \/ assoc[a].id = user.ft
    BY <1>1, <1>2, CommandGives DEF Commit, ScansInv, TimelyInv, UserTakes
  <2> HIDE DEF a
  <2>2. \A b \in Slots : assoc'[b].scanOn = assoc[b].scanOn
    BY <1>1, <2>1 DEF AssocType
  <2>3. \A b \in Slots : assoc'[b].id = assoc[b].id \/ ~Runs(scan, b)
    BY <2>1 DEF Given, ScansInv, Quiet
  <2>4. Owned(Current)' /\ \A h : Runs(scan', h) <=> Runs(scan, h)
    BY <1>1, <2>2, <2>3, StillOwned
  <2> QED
    BY <1>1, <2>1, <2>4 DEF ScansInv, Quiet, Given
<1>3. CASE Release
  <2> DEFINE a == user.slot
  <2>1. /\ a \in Slots /\ Given(a, "DISASSOCIATED", NoId, Null)
        /\ assoc' = [assoc EXCEPT ![a] = [assoc[a] EXCEPT !.state = "DISASSOCIATED", !.id = NoId,
                                                          !.nbr = Null]]
        /\ ~Runs(scan, a)
    BY <1>1, <1>3, CommandGives DEF Release, ScansInv, Quiet
  <2> HIDE DEF a
  <2>2. \A b \in Slots : assoc'[b].scanOn = assoc[b].scanOn
    BY <1>1, <2>1 DEF AssocType
  <2>3. \A b \in Slots : assoc'[b].id = assoc[b].id \/ ~Runs(scan, b)
    BY <2>1 DEF Given
  <2>4. Owned(Current)' /\ \A h : Runs(scan', h) <=> Runs(scan, h)
    BY <1>1, <2>2, <2>3, StillOwned
  <2> QED
    BY <1>1, <2>1, <2>4 DEF ScansInv, Quiet, Given
<1>4. ASSUME NEW ft \in Fts, Associate(ft) PROVE ScansInv'
  <2>1. SameRequests(assoc', assoc)
    BY <1>4, AssociateTimely DEF ScansInv
  <2>2. assoc' = assoc \/ assoc' = [assoc EXCEPT ![SlotFor(ft)].nbr = NbrOf(ft)]
    BY <1>4 DEF Associate
  <2>3. \A b \in Slots : assoc'[b].scanOn = assoc[b].scanOn
    BY <1>1, <2>2 DEF AssocType
  <2>4. Owned(Current)' /\ \A h : Runs(scan', h) <=> Runs(scan, h)
    BY <1>1, <2>1, <2>3, StillOwned DEF SameRequests
  <2> QED
    BY <1>1, <2>1, <2>4 DEF ScansInv, Quiet, SameRequests
<1> QED
  BY <1>2, <1>3, <1>4

\* A scan is stopped, and its slot is told.
LEMMA StopScans ==
  ASSUME ScansInv, TimelyInv', NEW h \in Slots, NEW t \in Parts, t.scan = scan, t.listed = listed,
         \A a \in Slots : t.assoc[a].scanOn = assoc[a].scanOn /\ t.assoc[a].id = assoc[a].id,
         assoc' = Stop(t, h).assoc \/ assoc' = [Stop(t, h).assoc EXCEPT ![h].scanOn = FALSE],
         scan' = Stop(t, h).scan, listed' = Stop(t, h).listed
  PROVE  /\ Owned(Current)' /\ ~Runs(scan', h)
         /\ \A a : Runs(scan', a) => Runs(scan, a)
<1>1. /\ Current \in Parts /\ OneEach(assoc) /\ Owned(Current)
      /\ Current.assoc = assoc /\ Current.scan = scan /\ Current.listed = listed
  BY ScansFacts
<1> DEFINE s == Current
<1> HIDE DEF s
<1>2. Owned(t)
  <2>1. s \in Parts /\ Owned(s) /\ s.assoc = assoc /\ s.scan = scan /\ s.listed = listed
    BY <1>1 DEF s
  <2> QED
    BY <2>1, OwnedKept
<1>3. OneEach(t.assoc)
  BY <1>1 DEF OneEach
<1> DEFINE u == Stop(t, h)
<1>4. /\ u \in Parts /\ Owned(u) /\ u.assoc = [t.assoc EXCEPT ![h].scanOn = FALSE]
      /\ ~Runs(u.scan, h) /\ \A a : Runs(u.scan, a) => Runs(t.scan, a)
  BY <1>2, <1>3, StopOwned
<1> HIDE DEF u
<1>5. [u.assoc EXCEPT ![h].scanOn = FALSE] = u.assoc
  <2>1. t.assoc \in AssocType
    BY DEF Parts
  <2> QED
    BY <1>4, <2>1 DEF AssocType
<1>6. assoc' = u.assoc /\ scan' = u.scan /\ listed' = u.listed
  BY <1>5 DEF u
<1>7. [assoc |-> assoc', scan |-> scan', listed |-> listed'] = u
  BY <1>4, <1>6 DEF Parts
<1>8. Owned([assoc |-> assoc', scan |-> scan', listed |-> listed'])
  BY <1>4, <1>7
<1> QED
  BY <1>4, <1>6, <1>8 DEF Current

\* A timeout stops the scan of the slot it gives up.
LEMMA TimeoutScans ==
  ASSUME ScansInv, TimelyInv', NEW a \in Slots, Timeout(a)
  PROVE  ScansInv'
<1>1. assoc \in AssocType /\ assoc[a] \in SlotType /\ scan \in ScanType /\ listed \subseteq Slots
      /\ Inv /\ Inv' /\ user' = user
  BY DEF ScansInv, TimelyInv, Inv, TypeOK, AssocType, SlotType, ScanType, Timeout
<1>2. CASE assoc[a].state # "WAITING"
  <2>1. UNCHANGED <<assoc, scan, listed>>
    BY <1>1, <1>2, TimeoutGives
  <2>2. Owned(Current)'
    BY <1>1, <2>1, StillOwned
  <2> QED
    BY <1>1, <2>1, <2>2 DEF ScansInv, Quiet
<1>3. CASE assoc[a].state = "WAITING"
  <2> DEFINE r == [assoc[a] EXCEPT !.nbr = Null, !.state = "DISASSOCIATED"]
             t == [assoc |-> [assoc EXCEPT ![a] = r], scan |-> scan, listed |-> listed]
             u == Stop(t, a)
  <2>1. r \in SlotType /\ r.id = assoc[a].id /\ r.scanOn = assoc[a].scanOn
    BY <1>1 DEF SlotType, AssocStates, Places
  <2>2. t = [Current EXCEPT !.assoc[a] = [@ EXCEPT !.nbr = Null, !.state = "DISASSOCIATED"]]
    BY DEF Current
  <2> HIDE DEF r
  <2>3. t \in Parts /\ t.scan = scan /\ t.listed = listed
        /\ \A b \in Slots : t.assoc[b].scanOn = assoc[b].scanOn /\ t.assoc[b].id = assoc[b].id
    BY <1>1, <2>1 DEF Parts, AssocType, SlotType
  <2>4. u \in Parts
    BY <2>3, StopProperties
  <2>5. assoc' = [u.assoc EXCEPT ![a].scanOn = FALSE] /\ scan' = u.scan /\ listed' = u.listed
    <3>1. Becomes([u EXCEPT !.assoc[a].scanOn = FALSE])
      BY <1>3, <2>2 DEF Timeout, TimedOut
    <3> QED
      BY <2>4, <3>1 DEF Becomes, Parts
  <2> HIDE DEF t
  <2>6. /\ Owned(Current)' /\ ~Runs(scan', a) /\ \A b : Runs(scan', b) => Runs(scan, b)
    BY <2>3, <2>5, StopScans
  <2>7. \A b \in Slots : assoc'[b].state = "DISASSOCIATED" => b = a \/ assoc[b].state = "DISASSOCIATED"
    BY <1>1, <1>3, TimeoutGives DEF Given
  <2> QED
    BY <1>1, <2>6, <2>7 DEF ScansInv, Quiet
<1> QED
  BY <1>2, <1>3

\* A response stops the scan of its slot, if one goes on, and starts another.
LEMMA ResponseScans ==
  ASSUME Timely, ScansInv, TimelyInv', NEW ft \in Fts, NEW added \in BOOLEAN, Response(ft, added)
  PROVE  ScansInv'
<1> DEFINE a == AssocOf(assoc, ft)
           r == [assoc[a] EXCEPT !.state = "ASSOCIATED"]
           t == [assoc |-> [assoc EXCEPT ![a] = r], scan |-> scan, listed |-> listed]
           u == Restarted(t, a)
           v == Start(u, a, ft, added)
<1>1. assoc \in AssocType /\ scan \in ScanType /\ listed \subseteq Slots /\ Current \in Parts
      /\ Inv /\ Inv' /\ user' = user
  BY PartsType DEF ScansInv, TimelyInv, Inv, TypeOK, AssocType, ScanType, Response
<1>2. CASE a = Null
  <2>1. UNCHANGED <<assoc, scan, listed>>
    BY <1>1, <1>2, ResponseGives
  <2>2. Owned(Current)'
    BY <1>1, <2>1, StillOwned
  <2> QED
    BY <1>1, <2>1, <2>2 DEF ScansInv, Quiet
<1>3. CASE a # Null
  <2>1. a \in Slots /\ assoc[a].id = ft
    BY <1>3, Places1
  <2>2. Becomes(Start(Restarted([Current EXCEPT !.assoc[a].state = "ASSOCIATED"], a), a, ft, added))
    BY <1>3 DEF Response
  <2>3. Given(a, "ASSOCIATED", assoc[a].id, assoc[a].nbr)
    BY <1>1, <1>3, ResponseGives
  <2>4. ~Releasing(a)
    BY <1>1, <1>3, ResponseTimely
  <2> HIDE DEF a
  <2>5. assoc[a] \in SlotType
    BY <1>1, <2>1 DEF AssocType, SlotType
  <2>6. r \in SlotType /\ r.id = assoc[a].id /\ r.scanOn = assoc[a].scanOn
    BY <2>5 DEF SlotType, AssocStates
  <2>7. t = [Current EXCEPT !.assoc[a].state = "ASSOCIATED"]
    BY <1>1 DEF Current, AssocType
  <2> HIDE DEF r
  <2>8. t \in Parts /\ t.scan = scan /\ t.listed = listed
        /\ \A b \in Slots : t.assoc[b].scanOn = assoc[b].scanOn /\ t.assoc[b].id = assoc[b].id
    BY <1>1, <2>1, <2>6 DEF Parts, AssocType, SlotType
  <2> HIDE DEF t
  <2>9. Owned(t) /\ OneEach(t.assoc)
    <3> DEFINE s == Current
    <3>1. s \in Parts /\ Owned(s) /\ OneEach(assoc) /\ s.assoc = assoc /\ s.scan = scan /\ s.listed = listed
      BY ScansFacts
    <3> HIDE DEF s
    <3> QED
      BY <2>8, <3>1, OwnedKept DEF OneEach
  <2>10. /\ u \in Parts /\ Owned(u) /\ u.assoc[a].id = ft
         /\ \A b : Runs(u.scan, b) => Runs(scan, b)
    <3>1. CASE t.assoc[a].scanOn
      <4> DEFINE w == Stop(t, a)
      <4>1. /\ w \in Parts /\ Owned(w) /\ w.assoc = [t.assoc EXCEPT ![a].scanOn = FALSE]
            /\ \A b : Runs(w.scan, b) => Runs(t.scan, b)
        BY <2>1, <2>8, <2>9, StopOwned
      <4>2. u = w
        BY <3>1 DEF Restarted
      <4> HIDE DEF u, w
      <4>3. w.assoc[a].id = t.assoc[a].id
        BY <2>1, <2>8, <4>1 DEF Parts, AssocType
      <4> QED
        BY <2>1, <2>8, <4>1, <4>2, <4>3
    <3>2. CASE ~t.assoc[a].scanOn
      <4>1. u = t
        BY <3>2 DEF Restarted
      <4> HIDE DEF u
      <4> QED
        BY <2>1, <2>8, <2>9, <4>1
    <3> QED
      BY <3>1, <3>2
  <2> HIDE DEF u
  <2>11. v \in Parts /\ Owned(v) /\ \A b : b # a /\ Runs(v.scan, b) => Runs(u.scan, b)
    BY <2>1, <2>10, StartOwned
  <2>12. assoc' = v.assoc /\ scan' = v.scan /\ listed' = v.listed
    BY <2>2, <2>7 DEF Becomes, u
  <2> HIDE DEF v
  <2>13. [assoc |-> assoc', scan |-> scan', listed |-> listed'] = v
    BY <2>11, <2>12 DEF Parts
  <2>14. Owned([assoc |-> assoc', scan |-> scan', listed |-> listed'])
    BY <2>11, <2>13
  <2>15. Owned(Current)'
    BY <2>14 DEF Current
  <2>16. \A b : b # a /\ Runs(scan', b) => Runs(scan, b)
    BY <2>10, <2>11, <2>12
  <2>17. /\ assoc'[a].state # "DISASSOCIATED"
         /\ \A b \in Slots : b # a => assoc'[b].state = assoc[b].state
    BY <2>3 DEF Given
  <2>18. Quiet'
    BY <1>1, <2>4, <2>16, <2>17 DEF ScansInv, Quiet, Releasing
  <2> QED
    BY <2>15, <2>18 DEF ScansInv
<1> QED
  BY <1>2, <1>3

\* The steps that leave the slots alone.
LEMMA AsideScans ==
  ASSUME KeepsUp, ScansInv, TimelyInv', Aside
  PROVE  ScansInv'
<1>1. SameSlots(assoc', assoc) /\ Inv /\ Inv' /\ scan \in ScanType /\ Current \in Parts
      /\ assoc \in AssocType
  BY AsideKeepsSlots, PartsType DEF ScansInv, TimelyInv, Inv, TypeOK, ScanType
<1>2. /\ Current.assoc = assoc /\ Current.scan = scan /\ Current.listed = listed
  BY ScansFacts
<1>3. CASE StopForRelease
  <2> DEFINE a == user.slot
             t == Stop(Current, a)
  <2>1. a \in Slots /\ user' = [user EXCEPT !.step = "release"] /\ user'.slot = a
    BY <1>1, <1>3 DEF StopForRelease, Inv, UserOK, TypeOK
  <2>2. t \in Parts
    BY <1>1, StopProperties
  <2>3. assoc' = [t.assoc EXCEPT ![a].scanOn = FALSE] /\ scan' = t.scan /\ listed' = t.listed
    BY <1>3, <2>2 DEF StopForRelease, Becomes, Parts
  <2> HIDE DEF a
  <2>4. /\ Owned(Current)' /\ ~Runs(scan', a) /\ \A b : Runs(scan', b) => Runs(scan, b)
    BY <1>1, <1>2, <2>1, <2>3, StopScans
  <2> QED
    BY <1>1, <2>1, <2>4 DEF ScansInv, Quiet, SameSlots
<1>4. ASSUME NEW h \in Slots, CompleteTurn(h, TRUE) PROVE ScansInv'
  <2> DEFINE t == Stop(Current, h)
  <2>1. t \in Parts
    BY <1>1, StopProperties
  <2>2. assoc' = t.assoc /\ scan' = t.scan /\ listed' = t.listed /\ user' = user
    BY <1>4 DEF CompleteTurn, Becomes, TurnCompleted
  <2>3. /\ Owned(Current)' /\ \A b : Runs(scan', b) => Runs(scan, b)
    BY <1>1, <1>2, <2>2, StopScans
  <2> QED
    BY <1>1, <2>2, <2>3 DEF ScansInv, Quiet, SameSlots
<1>5. CASE /\ assoc' = assoc /\ listed' \subseteq listed
           /\ user'.step = "release" => user' = user
           /\ \A i \in Slots : /\ scan'[i].running = scan[i].running
                               /\ scan'[i].handle = scan[i].handle /\ scan'[i].id = scan[i].id
  <2>1. Owned(Current)' /\ \A h : Runs(scan', h) <=> Runs(scan, h)
    BY <1>1, <1>5, StillOwned
  <2> QED
    BY <1>5, <2>1 DEF ScansInv, Quiet
<1>6. ASSUME NEW h \in Slots, CompleteTurn(h, FALSE) \/ LateTurn(h, FALSE) PROVE ScansInv'
  <2>1. assoc' = assoc /\ scan' = scan /\ listed' = listed /\ user' = user
    BY <1>2, <1>6 DEF CompleteTurn, LateTurn, Becomes, TurnCompleted, Current
  <2> QED
    BY <1>5, <2>1
<1>7. \A h \in Slots : ~LateTurn(h, TRUE)
  BY DEF LateTurn
<1>8. ASSUME NEW ft \in Fts, Beacon(ft) PROVE ScansInv'
  <2>1. assoc' = assoc /\ listed' = listed /\ user' = user
        /\ (scan' = scan \/ scan' = [scan EXCEPT ![ScanOfNbr(ft)].heard = TRUE])
    BY <1>8 DEF Beacon
  <2>2. \A i \in Slots : /\ scan'[i].running = scan[i].running
                         /\ scan'[i].handle = scan[i].handle /\ scan'[i].id = scan[i].id
    BY <1>1, <2>1 DEF ScanType
  <2> QED
    BY <1>5, <2>1, <2>2
<1>9. CASE \/ ClearNbrs \/ \E ft \in Fts : Lost(ft) \/ Dissociate(ft)
           \/ \E sent \in BOOLEAN : SendRequest(sent)
           \/ \E h \in Slots : SendTurn(h) \/ Dropped(h)
  <2>1. assoc' = assoc /\ scan' = scan /\ listed' \subseteq listed
    BY <1>9 DEF ClearNbrs, Lost, Dissociate, SendRequest, SendTurn, Dropped
  <2>2. ASSUME NEW ft \in Fts, Dissociate(ft) PROVE user'.step # "release"
    BY <2>2 DEF Dissociate, Idle
  <2>3. ASSUME NEW sent \in BOOLEAN, SendRequest(sent) PROVE user'.step # "release"
    BY <1>1, <2>3 DEF SendRequest, Idle, Inv, TypeOK
  <2>4. user'.step = "release" => user' = user
    BY <1>9, <2>2, <2>3 DEF ClearNbrs, Lost, SendTurn, Dropped
  <2> QED
    BY <1>5, <2>1, <2>4
<1> QED
  <2>1. CASE \E h \in Slots, unreachable \in BOOLEAN :
               CompleteTurn(h, unreachable) \/ LateTurn(h, unreachable)
    BY <1>4, <1>6, <1>7, <2>1
  <2> QED
    BY <1>3, <1>8, <1>9, <2>1 DEF Aside, Scheduler

LEMMA ScansKeep ==
  ASSUME Timely, KeepsUp, ScansInv, [Next]_vars
  PROVE  ScansInv'
<1>1. TimelyInv'
  BY TimelyKeeps DEF ScansInv
<1>2. CASE Aside
  BY <1>1, <1>2, AsideScans
<1>3. CASE Commit \/ Release \/ \E ft \in Fts : Associate(ft)
  BY <1>1, <1>3, CommandScans
<1>4. CASE Timers
  BY <1>1, <1>4, TimeoutScans DEF Timers
<1>5. CASE \E ft \in Fts, added \in BOOLEAN : Response(ft, added)
  BY <1>1, <1>5, ResponseScans
<1>6. CASE UNCHANGED vars
  <2>1. UNCHANGED <<assoc, scan, listed, user>> /\ Inv'
    BY <1>1, <1>6 DEF vars, TimelyInv
  <2>2. Owned(Current)'
    BY <2>1, StillOwned
  <2> QED
    BY <1>1, <2>1, <2>2 DEF ScansInv, Quiet
<1> QED
  BY <1>2, <1>3, <1>4, <1>5, <1>6 DEF Next, User, Air, Aside

\* The slots and the scans of the code's arrays, from those that belong together.
LEMMA ScansAgreeFollows == ScansInv => ScansAgree
<1> SUFFICES ASSUME ScansInv PROVE ScansAgree
  OBVIOUS
<1>1. Owned(Current) /\ Current.assoc = assoc /\ Current.scan = scan /\ Current.listed = listed
  BY ScansFacts
<1>2. \A i, j \in Slots :
        scan[i].running /\ scan[j].running /\ scan[i].handle = scan[j].handle => i = j
  BY <1>1 DEF Owned
<1>3. ASSUME NEW a \in Slots PROVE assoc[a].scanOn <=> ScanOf(scan, a) # Null
  <2>1. ASSUME Runs(scan, a) PROVE assoc[a].scanOn
    <3>1. PICK i \in Slots : scan[i].running /\ scan[i].handle = a
      BY <2>1 DEF Runs
    <3> QED
      BY <1>1, <3>1 DEF Owned
  <2>2. assoc[a].scanOn => Runs(scan, a)
    BY <1>1 DEF Owned
  <2> QED
    BY <2>1, <2>2, ScanOfRuns
<1>4. ASSUME NEW a \in Slots, assoc[a].scanOn PROVE scan[ScanOf(scan, a)].id = assoc[a].id
  <2>1. /\ ScanOf(scan, a) \in Slots
        /\ scan[ScanOf(scan, a)].running /\ scan[ScanOf(scan, a)].handle = a
    BY <1>3, <1>4, ScanOfRuns
  <2> QED
    BY <1>1, <2>1 DEF Owned
<1>5. \A h \in listed : ScanOf(scan, h) # Null
  BY <1>1, ScanOfRuns DEF Owned
<1>6. \A a \in Slots : assoc[a].state = "DISASSOCIATED" => ScanOf(scan, a) = Null
  BY ScanOfRuns DEF ScansInv, Quiet
<1> QED
  BY <1>2, <1>3, <1>4, <1>5, <1>6 DEF ScansAgree

\* The slots and the background scans agree for any number of devices and slots:
\* no scan runs without its slot knowing, none goes on for a slot that was given
\* back, and the scheduler's list holds only scans that run. Responses come when
\* they are expected, and no late turn finds its neighbour unreachable.
THEOREM ScansAlwaysAgree == ASSUME Timely, KeepsUp PROVE Spec => []ScansAgree
<1>1. Init => ScansInv
  <2> SUFFICES ASSUME Init PROVE ScansInv
    OBVIOUS
  <2>1. TimelyInv
    BY InitHolds DEF Init, TimelyInv, UserTakes, TargetKnown, Idle
  <2>2. \A i \in Slots : ~scan[i].running
    BY DEF Init
  <2>3. \A h : ~Runs(scan, h)
    BY <2>2 DEF Runs
  <2>4. Owned(Current)
    BY <2>2, <2>3 DEF Init, Owned, Current
  <2> QED
    BY <2>1, <2>3, <2>4 DEF ScansInv, Quiet
<1>2. ScansInv /\ [Next]_vars => ScansInv'
  BY ScansKeep
<1>3. ScansInv => ScansAgree
  BY ScansAgreeFollows
<1> QED
  BY <1>1, <1>2, <1>3, PTL DEF Spec
================================================================================
