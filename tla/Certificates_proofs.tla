--------------------------- MODULE Certificates_proofs ---------------------------
(***************************************************************************)
(* For any addresses, any number of tries, key pairs and faults: what is   *)
(* served belongs together, a matching pair in the cache is the one that   *)
(* is served, the CA is kept as long as its leaf will do, and nothing is   *)
(* ordered without need.                                                   *)
(*                                                                         *)
(* The argument: the files do not say where they come from, but where the  *)
(* process stands says what they can be.  A pair that was just generated   *)
(* is in no file yet (Fresh); on the way to a new CA the cached leaf will  *)
(* not do (CreateNeeded); on the way to a new certificate a matching pair  *)
(* is due, and between the two writes there is none (OrderNeeded).         *)
(***************************************************************************)
EXTENDS Certificates, TLAPS

CertFiles == Files \ {"acme-account.key"}
Creating == {"create", "write-ca", "write-leaf", "write-leaf-key"}
Ordering == {"account", "order", "write-cert", "write-key"}

\* No file is of a pair that is yet to come.
Fresh ==
    /\ \A f \in CertFiles : disk[f] <= made
    /\ pc \in {"write-ca", "write-leaf", "write-leaf-key", "write-cert", "write-key"} =>
           made \in Pairs
    /\ pc = "write-ca" => \A f \in SelfSignedFiles : disk[f] < made
    /\ pc = "write-cert" => disk["acme-ip.crt"] < made
    /\ pc \in {"write-cert", "write-key"} => disk["acme-ip.key"] < made

\* Where a process of one mode can be, and what it has in memory there.
Places ==
    /\ pc \in Creating => mode = "selfsigned" /\ ~Serving
    /\ pc \in Ordering => mode = "letsencrypt-ip"
    /\ pc \in {"down", "load"} => ~Serving
    /\ pc = "serving" => Serving
    /\ pc \in {"write-ca", "write-leaf", "write-leaf-key"} => want \subseteq names[made]

Served == Serving => served.leaf \in Pairs

\* Why a CA is being replaced.
CreateNeeded == pc \in {"create", "write-ca"} => ~CachedLeafUsable

\* What a matching pair in the cache is to a Let's Encrypt server.
OrderNeeded ==
    LET cert == disk["acme-ip.crt"]
    IN  mode = "letsencrypt-ip" /\ cert \in Pairs /\ disk["acme-ip.key"] = cert =>
            /\ Serving => served.leaf = cert
            /\ pc \in Ordering => life[cert] # "good"
            /\ pc # "write-key"

IInv ==
    TypeOK /\ Fresh /\ Places /\ Served /\ ServedBelongsTogether /\ CreateNeeded /\ OrderNeeded

-------------------------------------------------------------------------------
(* Types                                                                   *)

USE DEF Pairs, Missing, Torn, AcmeFiles, SelfSignedFiles, Files, CertFiles, Creating, Ordering

\* A write, whatever becomes of it, leaves a directory of files.
LEMMA WriteTypes ==
    ASSUME TypeOK, NEW file \in Files, NEW n \in Pairs,
           \/ disk' = [disk EXCEPT ![file] = n] /\ UNCHANGED faults
           \/ /\ \E left \in {Torn, disk[file]} : disk' = [disk EXCEPT ![file] = left]
              /\ faults < MaxFaults /\ faults' = faults + 1
    PROVE  disk' \in [Files -> Pairs \cup {Missing, Torn}] /\ faults' \in 0 .. MaxFaults
<1>1. disk \in [Files -> Pairs \cup {Missing, Torn}] /\ disk[file] \in Pairs \cup {Missing, Torn}
    BY DEF TypeOK
<1>2. ASSUME NEW x \in Pairs \cup {Missing, Torn}
      PROVE  [disk EXCEPT ![file] = x] \in [Files -> Pairs \cup {Missing, Torn}]
    BY <1>1
<1>3. disk' \in [Files -> Pairs \cup {Missing, Torn}]
    BY <1>1, <1>2
<1>4. faults' \in 0 .. MaxFaults
    BY MaxFaultsAssumption DEF TypeOK
<1> QED BY <1>3, <1>4

\* What memory can hold.
MemoryOK ==
    /\ pc \in {"down", "load"} \cup Creating \cup Ordering \cup {"serving"}
    /\ served \in [leaf : Pairs \cup {Missing}, key : Pairs \cup {Missing},
                   ca : Pairs \cup {Missing}]
    /\ tries \in 0 .. ObtainTries

\* The ways in which a step of the process ends.
LEMMA EndTypes ==
    ASSUME TypeOK,
           \/ \E to \in Creating \cup Ordering \cup {"serving"} : Goto(to)
           \/ Exit \/ AttemptFails
           \/ made \in Pairs /\ (ServeLeaf \/ Install)
    PROVE  MemoryOK'
BY ObtainTriesAssumption DEF TypeOK, MemoryOK, Goto, Exit, AttemptFails, ServeLeaf, Install, Nothing

\* A generated pair is one of the bounded number, and has a set of names.
LEMMA GenerateTypes ==
    ASSUME TypeOK, made < MaxPairs, made' = made + 1, names' = [names EXCEPT ![made + 1] = want]
    PROVE  made' \in 0 .. MaxPairs /\ names' \in [Pairs -> SUBSET Addresses]
BY MaxPairsAssumption DEF TypeOK

\* Every step keeps the types.
LEMMA StepTypes == ASSUME IInv, Next PROVE TypeOK'
<1> USE DEF IInv
<1>1. ASSUME NEW m \in {"selfsigned", "letsencrypt-ip"}, NEW hosts \in SUBSET Addresses,
             Start(m, hosts)
      PROVE  TypeOK'
    BY <1>1 DEF Start, pairVars, TypeOK
<1>2. CASE LoadSelfSigned
    BY <1>2 DEF LoadSelfSigned, CachedLeafUsable, Goto, pairVars, configVars, TypeOK
<1>3. CASE CreateSelfSigned
    BY <1>3, GenerateTypes DEF CreateSelfSigned, Generate, Goto, configVars, TypeOK
<1>4. CASE WriteCA
    <2>1. made \in Pairs
        BY <1>4 DEF WriteCA, Fresh
    <2>2. MemoryOK'
        BY <1>4, <2>1, EndTypes DEF WriteCA, WriteFile
    <2>3. disk' \in [Files -> Pairs \cup {Missing, Torn}] /\ faults' \in 0 .. MaxFaults
        BY <1>4, <2>1, WriteTypes DEF WriteCA, WriteFile
    <2> QED BY <1>4, <2>2, <2>3 DEF WriteCA, WriteFile, pairVars, configVars, MemoryOK, TypeOK
<1>5. CASE WriteLeaf
    <2>1. made \in Pairs
        BY <1>5 DEF WriteLeaf, Fresh
    <2>2. MemoryOK'
        BY <1>5, <2>1, EndTypes DEF WriteLeaf, WriteFile
    <2>3. disk' \in [Files -> Pairs \cup {Missing, Torn}] /\ faults' \in 0 .. MaxFaults
        BY <1>5, <2>1, WriteTypes DEF WriteLeaf, WriteFile
    <2> QED BY <1>5, <2>2, <2>3 DEF WriteLeaf, WriteFile, pairVars, configVars, MemoryOK, TypeOK
<1>6. CASE WriteLeafKey
    <2>1. made \in Pairs
        BY <1>6 DEF WriteLeafKey, Fresh
    <2>2. MemoryOK'
        BY <1>6, <2>1, EndTypes DEF WriteLeafKey, WriteFile
    <2>3. disk' \in [Files -> Pairs \cup {Missing, Torn}] /\ faults' \in 0 .. MaxFaults
        BY <1>6, <2>1, WriteTypes DEF WriteLeafKey, WriteFile
    <2> QED BY <1>6, <2>2, <2>3 DEF WriteLeafKey, WriteFile, pairVars, configVars, MemoryOK, TypeOK
<1>7. CASE WriteCert
    <2>1. made \in Pairs
        BY <1>7 DEF WriteCert, Fresh
    <2>2. MemoryOK'
        BY <1>7, <2>1, EndTypes DEF WriteCert, WriteFile
    <2>3. disk' \in [Files -> Pairs \cup {Missing, Torn}] /\ faults' \in 0 .. MaxFaults
        BY <1>7, <2>1, WriteTypes DEF WriteCert, WriteFile
    <2> QED BY <1>7, <2>2, <2>3 DEF WriteCert, WriteFile, pairVars, configVars, MemoryOK, TypeOK
<1>8. CASE WriteKey
    <2>1. made \in Pairs
        BY <1>8 DEF WriteKey, Fresh
    <2>2. MemoryOK'
        BY <1>8, <2>1, EndTypes DEF WriteKey, WriteFile
    <2>3. disk' \in [Files -> Pairs \cup {Missing, Torn}] /\ faults' \in 0 .. MaxFaults
        BY <1>8, <2>1, WriteTypes DEF WriteKey, WriteFile
    <2> QED BY <1>8, <2>2, <2>3 DEF WriteKey, WriteFile, pairVars, configVars, MemoryOK, TypeOK
<1>9. CASE LoadCached
    BY <1>9, ObtainTriesAssumption DEF LoadCached, CachedCertUsable, pairVars, configVars, TypeOK
<1>10. CASE RenewDue
    BY <1>10 DEF RenewDue, Goto, pairVars, configVars, TypeOK
<1>11. CASE AccountKey
    <2>1. MemoryOK'
        BY <1>11, EndTypes DEF AccountKey, WriteFile
    <2>2. disk' \in [Files -> Pairs \cup {Missing, Torn}] /\ faults' \in 0 .. MaxFaults
        <3>1. 1 \in Pairs
            BY MaxPairsAssumption
        <3>2. CASE WriteFile("acme-account.key", 1, Goto("order"), AttemptFails)
            BY <3>1, <3>2, WriteTypes DEF WriteFile
        <3>3. CASE UNCHANGED <<disk, faults>>
            BY <3>3 DEF TypeOK
        <3> QED BY <1>11, <3>2, <3>3 DEF AccountKey
    <2> QED BY <1>11, <2>1, <2>2 DEF AccountKey, WriteFile, pairVars, configVars, MemoryOK, TypeOK
<1>12. CASE Order
    <2>1. MemoryOK'
        BY <1>12, EndTypes DEF Order, Generate
    <2>2. CASE Generate(Goto("write-cert"))
        BY <2>1, <2>2, GenerateTypes DEF Generate, configVars, MemoryOK, TypeOK
    <2>3. CASE faults < MaxFaults /\ faults' = faults + 1 /\ UNCHANGED <<disk, pairVars, configVars>>
        BY <2>1, <2>3, MaxFaultsAssumption DEF pairVars, configVars, MemoryOK, TypeOK
    <2> QED BY <1>12, <2>2, <2>3 DEF Order
<1>13. CASE Stop
    BY <1>13, ObtainTriesAssumption DEF Stop, Exit, Nothing, pairVars, configVars, TypeOK
<1>14. ASSUME NEW n \in Pairs, Age(n) PROVE TypeOK'
    BY <1>14 DEF Age, configVars, TypeOK
<1> QED
    BY <1>1, <1>2, <1>3, <1>4, <1>5, <1>6, <1>7, <1>8, <1>9, <1>10, <1>11, <1>12, <1>13, <1>14
    DEF Next, Process

\* A write of the newest pair, whatever becomes of it, leaves nothing newer.
LEMMA WriteFresh ==
    ASSUME TypeOK, Fresh, NEW file \in Files,
           \/ disk' = [disk EXCEPT ![file] = made]
           \/ \E left \in {Torn, disk[file]} : disk' = [disk EXCEPT ![file] = left]
    PROVE  \A f \in CertFiles : disk'[f] <= made
<1>1. made \in Nat /\ disk \in [Files -> Pairs \cup {Missing, Torn}]
    BY MaxPairsAssumption DEF TypeOK
<1>2. ASSUME NEW f \in CertFiles PROVE disk'[f] \in {disk[f], made, Torn}
    BY <1>1
<1>3. ASSUME NEW f \in CertFiles PROVE disk[f] <= made /\ Torn <= made /\ made <= made
    BY <1>1 DEF Fresh
<1> QED BY <1>2, <1>3

\* A pair that was just generated is in no file.
LEMMA GenerateFresh ==
    ASSUME TypeOK, Fresh, made < MaxPairs, made' = made + 1, disk' = disk
    PROVE  made' \in Pairs /\ \A f \in CertFiles : disk'[f] < made' /\ disk'[f] <= made'
<1>1. made \in 0 .. MaxPairs /\ disk \in [Files -> Pairs \cup {Missing, Torn}]
    BY DEF TypeOK
<1>2. made' \in Pairs
    BY <1>1, MaxPairsAssumption
<1>3. ASSUME NEW f \in CertFiles PROVE disk[f] < made' /\ disk[f] <= made'
    <2>1. disk[f] \in Int /\ disk[f] <= made
        BY <1>1, MaxPairsAssumption DEF Fresh
    <2> QED BY <1>1, <2>1, MaxPairsAssumption
<1> QED BY <1>2, <1>3

\* No step puts a pair into a file before it is generated, or generates one twice.
LEMMA FreshKept == ASSUME IInv, Next, TypeOK' PROVE Fresh'
<1> USE DEF IInv, Serving, Nothing, pairVars, configVars
<1>1. CASE \/ \E m \in {"selfsigned", "letsencrypt-ip"}, hosts \in SUBSET Addresses : Start(m, hosts)
         \/ Stop
    BY <1>1, MaxPairsAssumption DEF Start, Stop, Exit, TypeOK, Fresh, Places
<1>2. CASE LoadSelfSigned \/ CreateSelfSigned
    <2>1. CASE LoadSelfSigned
        BY <2>1 DEF LoadSelfSigned, Goto, Fresh
    <2>2. CASE CreateSelfSigned
        <3>1. pc' = "write-ca" /\ made < MaxPairs /\ made' = made + 1 /\ disk' = disk
            BY <2>2 DEF CreateSelfSigned, Generate, Goto
        <3> QED BY <3>1, GenerateFresh DEF Fresh
    <2> QED BY <1>2, <2>1, <2>2
<1>3. CASE WriteCA \/ WriteLeaf \/ WriteLeafKey
    <2>1. CASE WriteCA
        <3>1. made' = made /\ made \in Pairs /\ pc' \in {"write-leaf", "down"}
            BY <2>1 DEF WriteCA, WriteFile, Goto, Exit, Fresh
        <3>2. \A f \in CertFiles : disk'[f] <= made
            BY <2>1, WriteFresh DEF WriteCA, WriteFile
        <3> QED BY <3>1, <3>2 DEF Fresh
    <2>2. CASE WriteLeaf
        <3>1. made' = made /\ made \in Pairs /\ pc' \in {"write-leaf-key", "down"}
            BY <2>2 DEF WriteLeaf, WriteFile, Goto, Exit, Fresh
        <3>2. \A f \in CertFiles : disk'[f] <= made
            BY <2>2, WriteFresh DEF WriteLeaf, WriteFile
        <3> QED BY <3>1, <3>2 DEF Fresh
    <2>3. CASE WriteLeafKey
        <3>1. made' = made /\ pc' \in {"serving", "down"}
            BY <2>3 DEF WriteLeafKey, WriteFile, ServeLeaf, Exit
        <3>2. \A f \in CertFiles : disk'[f] <= made
            BY <2>3, WriteFresh DEF WriteLeafKey, WriteFile
        <3> QED BY <3>1, <3>2 DEF Fresh
    <2> QED BY <1>3, <2>1, <2>2, <2>3
<1>4. CASE LoadCached \/ RenewDue
    BY <1>4, MaxPairsAssumption DEF LoadCached, CachedCertUsable, RenewDue, Goto, TypeOK, Fresh,
           Places
<1>5. CASE AccountKey \/ Order
    <2>1. CASE AccountKey
        <3>1. made' = made /\ pc' \in {"serving", "account", "order", "down"}
            BY <2>1 DEF AccountKey, WriteFile, AttemptFails, Goto, Exit
        <3>2. \A f \in CertFiles : disk'[f] = disk[f]
            BY <2>1 DEF AccountKey, WriteFile, TypeOK
        <3> QED BY <3>1, <3>2 DEF Fresh
    <2>2. CASE Order
        <3>1. CASE Generate(Goto("write-cert"))
            <4>1. pc' = "write-cert" /\ made < MaxPairs /\ made' = made + 1 /\ disk' = disk
                BY <3>1 DEF Generate, Goto
            <4> QED BY <4>1, GenerateFresh DEF Fresh
        <3>2. CASE ~Generate(Goto("write-cert"))
            <4>1. UNCHANGED <<made, disk>> /\ pc' \in {"serving", "account", "down"}
                BY <2>2, <3>2 DEF Order, AttemptFails, Goto, Exit
            <4> QED BY <4>1 DEF Fresh
        <3> QED BY <3>1, <3>2
    <2> QED BY <1>5, <2>1, <2>2
<1>6. CASE WriteCert \/ WriteKey
    <2>1. CASE WriteCert
        <3>1. made' = made /\ made \in Pairs /\ pc' \in {"write-key", "serving", "account", "down"}
            BY <2>1 DEF WriteCert, WriteFile, AttemptFails, Goto, Exit, Fresh
        <3>2. disk'["acme-ip.key"] < made
            BY <2>1 DEF WriteCert, WriteFile, TypeOK, Fresh
        <3>3. \A f \in CertFiles : disk'[f] <= made
            BY <2>1, WriteFresh DEF WriteCert, WriteFile
        <3> QED BY <3>1, <3>2, <3>3 DEF Fresh
    <2>2. CASE WriteKey
        <3>1. made' = made /\ pc' \in {"serving", "account", "down"}
            BY <2>2 DEF WriteKey, WriteFile, Install, AttemptFails, Goto, Exit
        <3>2. \A f \in CertFiles : disk'[f] <= made
            BY <2>2, WriteFresh DEF WriteKey, WriteFile
        <3> QED BY <3>1, <3>2 DEF Fresh
    <2> QED BY <1>6, <2>1, <2>2
<1>7. CASE \E n \in Pairs : Age(n)
    BY <1>7, MaxPairsAssumption DEF Age, TypeOK, Fresh, Places
<1> QED BY <1>1, <1>2, <1>3, <1>4, <1>5, <1>6, <1>7 DEF Next, Process

\* A process of one mode stays in its part of the code.
LEMMA PlacesKept == ASSUME IInv, Next, TypeOK' PROVE Places'
<1> USE DEF IInv, Serving, Nothing, pairVars, configVars
<1>1. CASE \/ \E m \in {"selfsigned", "letsencrypt-ip"}, hosts \in SUBSET Addresses : Start(m, hosts)
         \/ Stop
    BY <1>1, MaxPairsAssumption DEF Start, Stop, Exit, TypeOK, Places, Served,
           ServedBelongsTogether, Fresh
<1>2. CASE LoadSelfSigned \/ CreateSelfSigned
    BY <1>2, MaxPairsAssumption DEF LoadSelfSigned, CreateSelfSigned, Generate, Goto,
           CachedLeafUsable, TypeOK, Places, Served, ServedBelongsTogether, Fresh
<1>3. CASE WriteCA \/ WriteLeaf \/ WriteLeafKey
    BY <1>3, MaxPairsAssumption DEF WriteCA, WriteLeaf, WriteLeafKey, WriteFile, ServeLeaf, Goto,
           Exit, TypeOK, Places, Served, ServedBelongsTogether, Fresh
<1>4. CASE LoadCached \/ RenewDue
    BY <1>4, MaxPairsAssumption DEF LoadCached, CachedCertUsable, RenewDue, Goto, TypeOK, Places,
           Served, ServedBelongsTogether, Fresh
<1>5. CASE AccountKey \/ Order
    BY <1>5, MaxPairsAssumption DEF AccountKey, Order, Generate, WriteFile, AttemptFails, Goto,
           Exit, TypeOK, Places, Served, ServedBelongsTogether, Fresh
<1>6. CASE WriteCert \/ WriteKey
    BY <1>6, MaxPairsAssumption DEF WriteCert, WriteKey, WriteFile, Install, AttemptFails, Goto,
           Exit, TypeOK, Places, Served, ServedBelongsTogether, Fresh
<1>7. CASE \E n \in Pairs : Age(n)
    BY <1>7, MaxPairsAssumption DEF Age, TypeOK, Places, Served, ServedBelongsTogether, Fresh
<1> QED BY <1>1, <1>2, <1>3, <1>4, <1>5, <1>6, <1>7 DEF Next, Process

\* A process that serves has a certificate.
LEMMA ServedKept == ASSUME IInv, Next, TypeOK' PROVE Served'
<1> USE DEF IInv, Serving, Nothing, pairVars, configVars
<1>1. CASE \/ \E m \in {"selfsigned", "letsencrypt-ip"}, hosts \in SUBSET Addresses : Start(m, hosts)
         \/ Stop
    BY <1>1, MaxPairsAssumption DEF Start, Stop, Exit, TypeOK, Served, Places, Fresh
<1>2. CASE LoadSelfSigned \/ CreateSelfSigned
    BY <1>2, MaxPairsAssumption DEF LoadSelfSigned, CreateSelfSigned, Generate, Goto,
           CachedLeafUsable, TypeOK, Served, Places, Fresh
<1>3. CASE WriteCA \/ WriteLeaf \/ WriteLeafKey
    BY <1>3, MaxPairsAssumption DEF WriteCA, WriteLeaf, WriteLeafKey, WriteFile, ServeLeaf, Goto,
           Exit, TypeOK, Served, Places, Fresh
<1>4. CASE LoadCached \/ RenewDue
    BY <1>4, MaxPairsAssumption DEF LoadCached, CachedCertUsable, RenewDue, Goto, TypeOK, Served,
           Places, Fresh
<1>5. CASE AccountKey \/ Order
    BY <1>5, MaxPairsAssumption DEF AccountKey, Order, Generate, WriteFile, AttemptFails, Goto,
           Exit, TypeOK, Served, Places, Fresh
<1>6. CASE WriteCert \/ WriteKey
    BY <1>6, MaxPairsAssumption DEF WriteCert, WriteKey, WriteFile, Install, AttemptFails, Goto,
           Exit, TypeOK, Served, Places, Fresh
<1>7. CASE \E n \in Pairs : Age(n)
    BY <1>7, MaxPairsAssumption DEF Age, TypeOK, Served, Places, Fresh
<1> QED BY <1>1, <1>2, <1>3, <1>4, <1>5, <1>6, <1>7 DEF Next, Process

\* A certificate comes into memory with its key, and with its CA.
LEMMA ServedBelongsTogetherKept == ASSUME IInv, Next, TypeOK' PROVE ServedBelongsTogether'
<1> USE DEF IInv, Serving, Nothing, pairVars, configVars
<1>1. CASE \/ \E m \in {"selfsigned", "letsencrypt-ip"}, hosts \in SUBSET Addresses : Start(m, hosts)
         \/ Stop
    BY <1>1, MaxPairsAssumption DEF Start, Stop, Exit, TypeOK, ServedBelongsTogether, Served,
           Places, Fresh
<1>2. CASE LoadSelfSigned \/ CreateSelfSigned
    BY <1>2, MaxPairsAssumption DEF LoadSelfSigned, CreateSelfSigned, Generate, Goto,
           CachedLeafUsable, TypeOK, ServedBelongsTogether, Served, Places, Fresh
<1>3. CASE WriteCA \/ WriteLeaf \/ WriteLeafKey
    BY <1>3, MaxPairsAssumption DEF WriteCA, WriteLeaf, WriteLeafKey, WriteFile, ServeLeaf, Goto,
           Exit, TypeOK, ServedBelongsTogether, Served, Places, Fresh
<1>4. CASE LoadCached \/ RenewDue
    BY <1>4, MaxPairsAssumption DEF LoadCached, CachedCertUsable, RenewDue, Goto, TypeOK,
           ServedBelongsTogether, Served, Places, Fresh
<1>5. CASE AccountKey \/ Order
    BY <1>5, MaxPairsAssumption DEF AccountKey, Order, Generate, WriteFile, AttemptFails, Goto,
           Exit, TypeOK, ServedBelongsTogether, Served, Places, Fresh
<1>6. CASE WriteCert \/ WriteKey
    BY <1>6, MaxPairsAssumption DEF WriteCert, WriteKey, WriteFile, Install, AttemptFails, Goto,
           Exit, TypeOK, ServedBelongsTogether, Served, Places, Fresh
<1>7. CASE \E n \in Pairs : Age(n)
    BY <1>7, MaxPairsAssumption DEF Age, TypeOK, ServedBelongsTogether, Served, Places, Fresh
<1> QED BY <1>1, <1>2, <1>3, <1>4, <1>5, <1>6, <1>7 DEF Next, Process

\* While a new CA is on its way, the cached leaf does not get better.
LEMMA CreateNeededKept == ASSUME IInv, Next, TypeOK' PROVE CreateNeeded'
<1> USE DEF IInv, Serving, Nothing, pairVars, configVars
<1>1. CASE \/ \E m \in {"selfsigned", "letsencrypt-ip"}, hosts \in SUBSET Addresses : Start(m, hosts)
         \/ Stop
    BY <1>1, MaxPairsAssumption DEF Start, Stop, Exit, TypeOK, CreateNeeded, Places, Fresh,
           CachedLeafUsable
<1>2. CASE LoadSelfSigned \/ CreateSelfSigned
    BY <1>2, MaxPairsAssumption DEF LoadSelfSigned, CreateSelfSigned, Generate, Goto, TypeOK,
           CreateNeeded, Places, Fresh, CachedLeafUsable
<1>3. CASE WriteCA \/ WriteLeaf \/ WriteLeafKey
    BY <1>3, MaxPairsAssumption DEF WriteCA, WriteLeaf, WriteLeafKey, WriteFile, ServeLeaf, Goto,
           Exit, TypeOK, CreateNeeded, Places, Fresh, CachedLeafUsable
<1>4. CASE LoadCached \/ RenewDue
    BY <1>4, MaxPairsAssumption DEF LoadCached, CachedCertUsable, RenewDue, Goto, TypeOK,
           CreateNeeded, Places, Fresh, CachedLeafUsable
<1>5. CASE AccountKey \/ Order
    BY <1>5, MaxPairsAssumption DEF AccountKey, Order, Generate, WriteFile, AttemptFails, Goto,
           Exit, TypeOK, CreateNeeded, Places, Fresh, CachedLeafUsable
<1>6. CASE WriteCert \/ WriteKey
    BY <1>6, MaxPairsAssumption DEF WriteCert, WriteKey, WriteFile, Install, AttemptFails, Goto,
           Exit, TypeOK, CreateNeeded, Places, Fresh, CachedLeafUsable
<1>7. CASE \E n \in Pairs : Age(n)
    BY <1>7, MaxPairsAssumption DEF Age, TypeOK, CreateNeeded, Places, Fresh, CachedLeafUsable
<1> QED BY <1>1, <1>2, <1>3, <1>4, <1>5, <1>6, <1>7 DEF Next, Process

\* A matching pair in the cache is served, and is due if another one is ordered.
LEMMA OrderNeededKept == ASSUME IInv, Next, TypeOK' PROVE OrderNeeded'
<1> USE DEF IInv, Serving, Nothing, pairVars, configVars
<1>1. CASE \/ \E m \in {"selfsigned", "letsencrypt-ip"}, hosts \in SUBSET Addresses : Start(m, hosts)
         \/ Stop
    BY <1>1, MaxPairsAssumption DEF Start, Stop, Exit, TypeOK, OrderNeeded, Places, Served, Fresh
<1>2. CASE LoadSelfSigned \/ CreateSelfSigned
    BY <1>2, MaxPairsAssumption DEF LoadSelfSigned, CreateSelfSigned, Generate, Goto, TypeOK,
           OrderNeeded, Places, Served, Fresh
<1>3. CASE WriteCA \/ WriteLeaf \/ WriteLeafKey
    BY <1>3, MaxPairsAssumption DEF WriteCA, WriteLeaf, WriteLeafKey, WriteFile, ServeLeaf, Goto,
           Exit, TypeOK, OrderNeeded, Places, Served, Fresh
<1>4. CASE LoadCached \/ RenewDue
    BY <1>4, MaxPairsAssumption DEF LoadCached, CachedCertUsable, RenewDue, Goto, TypeOK,
           OrderNeeded, Places, Served, Fresh
<1>5. CASE AccountKey \/ Order
    <2>1. CASE AccountKey
        <3>1. disk'["acme-ip.crt"] = disk["acme-ip.crt"] /\ disk'["acme-ip.key"] = disk["acme-ip.key"]
            BY <2>1 DEF AccountKey, WriteFile, TypeOK
        <3>2. pc = "account" /\ UNCHANGED <<life, mode>> /\ pc' # "write-key"
            BY <2>1 DEF AccountKey, WriteFile, AttemptFails, Goto, Exit
        <3>3. served' = Nothing \/ served' = served
            BY <2>1 DEF AccountKey, WriteFile, AttemptFails, Goto, Exit
        <3> QED BY <3>1, <3>2, <3>3 DEF OrderNeeded
    <2>2. CASE Order
        BY <2>2, MaxPairsAssumption DEF Order, Generate, WriteFile, AttemptFails, Goto, Exit,
               TypeOK, OrderNeeded, Places, Served, Fresh
    <2> QED BY <1>5, <2>1, <2>2
<1>6. CASE WriteCert \/ WriteKey
    BY <1>6, MaxPairsAssumption DEF WriteCert, WriteKey, WriteFile, Install, AttemptFails, Goto,
           Exit, TypeOK, OrderNeeded, Places, Served, Fresh
<1>7. CASE \E n \in Pairs : Age(n)
    BY <1>7, MaxPairsAssumption DEF Age, TypeOK, OrderNeeded, Places, Served, Fresh
<1> QED BY <1>1, <1>2, <1>3, <1>4, <1>5, <1>6, <1>7 DEF Next, Process

-------------------------------------------------------------------------------
(* Theorems                                                                *)

\* A process that stands still keeps everything.
LEMMA StutterKeeps == ASSUME IInv, UNCHANGED vars PROVE IInv'
<1>1. UNCHANGED <<disk, made, names, life, pc, mode, want, served, tries, faults>>
    BY DEF vars
<1> QED BY <1>1 DEF IInv, TypeOK, Fresh, Places, Served, ServedBelongsTogether, CreateNeeded,
        CachedLeafUsable, OrderNeeded, Serving

\* An empty directory and no process.
LEMMA InitKeeps == Init => IInv
<1> SUFFICES ASSUME Init PROVE IInv
    OBVIOUS
<1>1. TypeOK
    BY ObtainTriesAssumption, MaxPairsAssumption, MaxFaultsAssumption DEF Init, TypeOK, Nothing
<1>2. Fresh /\ Places /\ Served /\ ServedBelongsTogether /\ CreateNeeded /\ OrderNeeded
    BY DEF Init, Fresh, Places, Served, ServedBelongsTogether, CreateNeeded, OrderNeeded, Serving
<1> QED BY <1>1, <1>2 DEF IInv

\* Where the process stands says what the files and its memory can hold.
THEOREM InductiveInvariant == Spec => []IInv
<1>1. IInv /\ [Next]_vars => IInv'
    BY StepTypes, FreshKept, PlacesKept, ServedKept, ServedBelongsTogetherKept, CreateNeededKept,
       OrderNeededKept, StutterKeeps DEF IInv
<1> QED BY <1>1, InitKeeps, PTL DEF Spec

\* The type invariant of the cache, the process and its faults.
THEOREM TypeCorrectness == Spec => []TypeOK
BY InductiveInvariant, PTL DEF IInv

\* A certificate is presented with its own key and offered with its own CA.
THEOREM PairsBelongTogether == Spec => []ServedBelongsTogether
BY InductiveInvariant, PTL DEF IInv

\* A restart neither loses a renewal nor brings back an old certificate.
THEOREM CacheIsWhatIsServed == Spec => []CacheIsServed
<1>1. IInv => CacheIsServed
    BY DEF IInv, CacheIsServed, OrderNeeded, Places
<1> QED BY <1>1, InductiveInvariant, PTL

\* A CA that devices have installed is replaced only if its leaf cannot be used.
THEOREM CAKept == Spec => CAIsKept
<1> DEFINE ca == disk["selfsigned-ca.crt"]
           Reason == \/ {disk["selfsigned-leaf.crt"], disk["selfsigned-leaf.key"]} # {ca}
                     \/ life[ca] # "good" \/ ~(want \subseteq names[ca])
<1>1. ASSUME IInv, Next, disk'["selfsigned-ca.crt"] # ca, ca \in Pairs PROVE Reason
    <2>1. WriteCA
        BY <1>1 DEF IInv, TypeOK, Next, Process, Start, LoadSelfSigned, CreateSelfSigned, WriteLeaf,
               WriteLeafKey, LoadCached, RenewDue, AccountKey, Order, WriteCert, WriteKey, Stop, Age,
               Generate, WriteFile
    <2>2. ~CachedLeafUsable
        BY <1>1, <2>1 DEF WriteCA, IInv, CreateNeeded
    <2> QED BY <1>1, <2>2 DEF CachedLeafUsable
<1>2. IInv /\ [Next]_vars => [disk'["selfsigned-ca.crt"] # ca /\ ca \in Pairs => Reason]_vars
    BY <1>1
<1> QED BY <1>2, InductiveInvariant, PTL DEF Spec, CAIsKept

\* Nothing is ordered while the cache has what is needed.
THEOREM OrdersNeeded == Spec => OrdersAreNeeded
<1> DEFINE Needed == \A n \in Pairs : disk["acme-ip.crt"] = n /\ disk["acme-ip.key"] = n => life[n] # "good"
<1>1. ASSUME IInv, Next, made' # made, mode = "letsencrypt-ip" PROVE Needed
    <2>1. CASE Order
        BY <1>1, <2>1 DEF IInv, OrderNeeded, Order
    <2>2. CASE CreateSelfSigned
        BY <1>1, <2>2 DEF IInv, Places, CreateSelfSigned
    <2>3. Order \/ CreateSelfSigned
        BY <1>1 DEF Next, Process, Start, LoadSelfSigned, WriteCA, WriteLeaf, WriteLeafKey,
               LoadCached,
               RenewDue, AccountKey, WriteCert, WriteKey, Stop, Age, WriteFile, pairVars
    <2> QED BY <2>1, <2>2, <2>3
<1>2. IInv /\ [Next]_vars => [made' # made /\ mode = "letsencrypt-ip" => Needed]_vars
    BY <1>1
<1> QED BY <1>2, InductiveInvariant, PTL DEF Spec, OrdersAreNeeded

===============================================================================
