----------------------------- MODULE MCGuestApi -----------------------------
(***************************************************************************)
(* A small instance of the API: a branch with one barber, and another one. *)
(***************************************************************************)
EXTENDS GuestApi, FiniteSets, TLC

CONSTANTS g1, g2, boss, k1, anna, boris, here, there

MCBranchOf == [b \in {anna, boris} |-> IF b = anna THEN here ELSE there]
MCDuration == <<1>>
MCOffered == {<<anna, 1>>}
MCShifts == [b \in {anna, boris} |-> {<<0, 20>>}]
MCScopes == {<<"MASTER", here>>, <<"ADMIN", there>>}

Create(start) == [op |-> "CREATE_BOOKING", key |-> k1, barber |-> anna,
                  service |-> 1, start |-> start]
Move(start) == [op |-> "RESCHEDULE_BOOKING", key |-> k1, booking |-> 1,
                expected |-> 1, start |-> start]
Complete == [op |-> "COMPLETE_BOOKING", key |-> k1, booking |-> 1, expected |-> 1]

MCCommands == {Create(3), Create(2), Move(4), Complete}

\* Two browsers want the same slot, with the same key; one asks with another
\* payload; the booking is looked at, moved, completed.
MCCalls ==
  {[who |-> g, cmd |-> Create(3)] : g \in {g1, g2}}
  \cup {[who |-> g1, cmd |-> c] : c \in {Create(2), Move(4)}}
  \cup {[who |-> g2, cmd |-> [op |-> "GET_BOOKING", booking |-> 1]],
        [who |-> g2, cmd |-> Complete], [who |-> boss, cmd |-> Complete]}

\* At first the user of the staff works in one of the branches.
MCInit == Init /\ \A user \in Users : Cardinality(scopes[user]) = 1
MCSpec == MCInit /\ [][Next]_vars

Symmetry == Permutations(Requests)
=============================================================================
