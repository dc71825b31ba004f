------------------------------ MODULE MC_Lifecycle ------------------------------
(* Instances of Lifecycle for TLC.                                         *)
EXTENDS Lifecycle

\* Every mode with every address and name there is or is not; one address given
\* twice, a secret or a realm that TURN does not need tell nothing more apart.
SmallEdits ==
    {c \in Config :
        /\ c.realm \in {"", "name"} /\ c.hosts \in {{}, {"bcrypt"}, {"plain", "bcrypt"}}
        /\ c.externalIP # "" => c.externalIP = "public" /\ c.publicIP = ""
        /\ ~c.turn => c.secret = "" /\ c.realm = ""}
===============================================================================
