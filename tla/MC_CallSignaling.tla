--------------------------- MODULE MC_CallSignaling ---------------------------
(* Instances of CallSignaling for TLC: connections are interchangeable.    *)
EXTENDS CallSignaling, TLC

ConnSymmetry == Permutations(Conns)

\* Bounds of the search.  One signal at a time, and not to its sender: what a
\* signal meets is everything else that waits for the page.
NoSelfSignal == \A h \in Conns : pc[h] = "forwarding" => h \notin snap[h]

SignalAt(h) == {i \in DOMAIN send[h] : send[h][i].type = "signal"}

OneSignal ==
    \A g, h \in Conns :
        /\ pc[g] = "forwarding" /\ pc[h] = "forwarding" => g = h
        /\ pc[g] = "forwarding" => SignalAt(h) = {}
        /\ \A i \in SignalAt(g), j \in SignalAt(h) : g = h /\ i = j

\* Nobody deletes the room.
NoRetirement == \A r \in Rooms : status[r] # "gone"

\* Pages that stop reading, and the age of the room, change nothing here.
NoMutePage == \A h \in Conns : writer[h] = "exit" => closed[h] \/ ~alive[h]
NoAging == \A r \in Rooms : ~aged[r]
===============================================================================
