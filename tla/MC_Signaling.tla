----------------------------- MODULE MC_Signaling -----------------------------
(* Instances of Signaling for TLC: connections are interchangeable.        *)
EXTENDS Signaling, TLC

ConnSymmetry == Permutations(Conns)

\* Enabledness and the safety properties depend on how many messages a buffer
\* holds, not on which, nor on the history of lost ones.
SafetyView ==
    <<status, aged, stuck, peers, pc, room, second, snap, [h \in Conns |-> Len(send[h])],
      closed, writer, alive>>

\* The refuted panic needs no room to be deleted.
NoRetirement == \A r \in Rooms : status[r] # "gone"

\* Departures do not depend on the age of the room.
NoAging == \A r \in Rooms : ~aged[r]
===============================================================================
