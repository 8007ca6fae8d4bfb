------------------------------ MODULE Association ------------------------------
(***************************************************************************)
(* What the MAC client promises about its association slots: a slot has    *)
(* one device and no device has two; a slot becomes associated only by the *)
(* answer of its own device to a request it waits on or was granted; a     *)
(* request ends by an answer, by the timeout or by a release, and only a   *)
(* release takes an association back or gives a slot a new device.         *)
(***************************************************************************)
CONSTANTS Slots, Devices, Nobody

VARIABLES
  stage,    \* of each slot
  partner,  \* the device of each slot
  asked,    \* devices that may still answer
  releases  \* slots the user is releasing (an input)

answers == <<stage, partner, asked>>

AssocInit ==
  /\ stage = [a \in Slots |-> "DISASSOCIATED"]
  /\ partner = [a \in Slots |-> Nobody]
  /\ asked = {}

Becomes(a, s, d) ==
  /\ stage' = [stage EXCEPT ![a] = s]
  /\ partner' = [partner EXCEPT ![a] = d]

Send(d) == asked' = asked \cup {d} /\ UNCHANGED <<stage, partner>>
Lose(d) == asked' = asked \ {d} /\ UNCHANGED <<stage, partner>>

Ask(a, d) ==
  /\ stage[a] = "DISASSOCIATED" \/ partner[a] = d
  /\ \A b \in Slots \ {a} : partner[b] # d
  /\ Becomes(a, "WAITING", d) /\ UNCHANGED asked

Answered(a) ==
  /\ stage[a] # "DISASSOCIATED" /\ partner[a] \in asked
  /\ Becomes(a, "ASSOCIATED", partner[a]) /\ asked' = asked \ {partner[a]}

GiveUp(a) ==
  /\ stage[a] = "WAITING"
  /\ Becomes(a, "DISASSOCIATED", partner[a]) /\ UNCHANGED asked

Release(a) ==
  /\ a \in releases
  /\ Becomes(a, "DISASSOCIATED", Nobody) /\ UNCHANGED asked

AssocNext ==
  \/ \E d \in Devices : Send(d) \/ Lose(d)
  \/ \E a \in Slots, d \in Devices : Ask(a, d)
  \/ \E a \in Slots : Answered(a) \/ GiveUp(a) \/ Release(a)

AssocSpec == AssocInit /\ [][AssocNext]_answers
================================================================================
