------------------------------ MODULE Certificates ------------------------------
(***************************************************************************)
(* Where the server's certificate comes from: LoadOrCreateSelfSigned of    *)
(* internal/tlscert/selfsigned.go and ACMEManager of acmeip.go, over the   *)
(* cache directory they share with their former runs.                      *)
(*                                                                         *)
(* The process may die at any step and each file is written by itself,     *)
(* first truncated, then filled: a new run finds whatever mixture the old  *)
(* one left.  Between runs the operator may change the TLS mode and the    *)
(* machine its addresses; while a process runs, certificates grow old.     *)
(***************************************************************************)
EXTENDS Integers

CONSTANTS
    Addresses,    \* addresses and names the server may be reached at
    ObtainTries,  \* obtainTries
    MaxPairs,     \* bound: key pairs generated, self-signed or certified
    MaxFaults     \* bound: failed or cut-off writes and refused orders

ASSUME ObtainTriesAssumption == ObtainTries \in Nat \ {0}
ASSUME MaxPairsAssumption == MaxPairs \in Nat \ {0}
ASSUME MaxFaultsAssumption == MaxFaults \in Nat

VARIABLES
    disk,      \* the cache directory: which pair each file belongs to
    made,      \* key pairs generated so far; pair n is the n-th
    names,     \* the subject alternative names of each pair's certificate
    life,      \* "good", "due" for renewal, or "over" (an hour left, or less)
    pc,        \* where the process stands
    mode,      \* cfg.TLS.Mode
    want,      \* the names this run is to be reached at
    served,    \* the certificate, key and CA in memory; the CA is downloadable
    tries,     \* attempts left to Start
    faults     \* faults so far

configVars == <<mode, want>>
pairVars == <<made, names, life>>
vars == <<disk, made, names, life, pc, mode, want, served, tries, faults>>

-------------------------------------------------------------------------------

Pairs == 1 .. MaxPairs
Missing == 0
Torn == -1

AcmeFiles == {"acme-account.key", "acme-ip.crt", "acme-ip.key"}
SelfSignedFiles == {"selfsigned-ca.crt", "selfsigned-leaf.crt", "selfsigned-leaf.key"}
Files == AcmeFiles \cup SelfSignedFiles

Nothing == [leaf |-> Missing, key |-> Missing, ca |-> Missing]
Serving == served # Nothing

Init ==
    /\ disk = [f \in Files |-> Missing]
    /\ made = 0
    /\ names = [n \in Pairs |-> {}]
    /\ life = [n \in Pairs |-> "good"]
    /\ pc = "down"
    /\ mode = "selfsigned" /\ want = {}
    /\ served = Nothing
    /\ tries = 0
    /\ faults = 0

-------------------------------------------------------------------------------
(* Steps of the process                                                    *)

Goto(to) == pc' = to /\ UNCHANGED <<served, tries>>

\* The process is gone, and what it had in memory with it.
Exit == pc' = "down" /\ served' = Nothing /\ tries' = 0

\* Mutant: Start goes on trying.
MutantAttemptFails ==
    \/ Serving /\ Goto("serving")
    \/ ~Serving /\ pc' = "account" /\ tries' = tries - 1 /\ UNCHANGED served

\* An attempt to obtain a certificate failed.  Start tries again, then gives
\* up; the renewal loop comes back in an hour.
AttemptFails ==
    \/ Serving /\ Goto("serving")
    \/ ~Serving /\ tries > 1 /\ pc' = "account" /\ tries' = tries - 1 /\ UNCHANGED served
    \/ ~Serving /\ tries <= 1 /\ Exit

\* os.WriteFile: complete, or failed, or cut short by the end of the process.
WriteFile(file, n, next, failed) ==
    /\ UNCHANGED <<pairVars, configVars>>
    /\ \/ /\ disk' = [disk EXCEPT ![file] = n]
          /\ next
          /\ UNCHANGED faults
       \/ /\ faults < MaxFaults
          /\ \E left \in {Torn, disk[file]} : disk' = [disk EXCEPT ![file] = left]
          /\ failed \/ Exit
          /\ faults' = faults + 1

\* A new key pair, with a certificate for the names of this run.
Generate(next) ==
    /\ made < MaxPairs
    /\ made' = made + 1
    /\ names' = [names EXCEPT ![made + 1] = want]
    /\ next
    /\ UNCHANGED <<disk, life, configVars, faults>>

Start(m, hosts) ==
    /\ pc = "down"
    /\ m = "letsencrypt-ip" => \E a \in Addresses : hosts = {a}
    /\ mode' = m /\ want' = hosts
    /\ pc' = "load"
    /\ UNCHANGED <<disk, pairVars, served, tries, faults>>

\* A signal, a crash or a power cut between two steps.
Stop ==
    /\ pc # "down"
    /\ Exit
    /\ UNCHANGED <<disk, pairVars, configVars, faults>>

-------------------------------------------------------------------------------
(* Self-signed                                                             *)

\* Mutant: the cached CA is handed out unseen.
MutantCachedLeafUsable ==
    LET leaf == disk["selfsigned-leaf.crt"]
    IN  /\ leaf \in Pairs /\ disk["selfsigned-leaf.key"] = leaf
        /\ life[leaf] = "good" /\ want \subseteq names[leaf]
        /\ disk["selfsigned-ca.crt"] \in Pairs

\* Mutant: the leaf has to name exactly what this run wants.
MutantStrictLeafUsable ==
    LET leaf == disk["selfsigned-leaf.crt"]
    IN  /\ leaf \in Pairs /\ disk["selfsigned-leaf.key"] = leaf
        /\ life[leaf] = "good" /\ want = names[leaf]
        /\ disk["selfsigned-ca.crt"] = leaf

\* Key and certificate match, the leaf is not near expiry, covers the names,
\* and is signed by the cached CA.
CachedLeafUsable ==
    LET leaf == disk["selfsigned-leaf.crt"]
    IN  /\ leaf \in Pairs /\ disk["selfsigned-leaf.key"] = leaf
        /\ life[leaf] = "good" /\ want \subseteq names[leaf]
        /\ disk["selfsigned-ca.crt"] = leaf

LoadSelfSigned ==
    /\ pc = "load" /\ mode = "selfsigned"
    /\ \/ /\ CachedLeafUsable
          /\ served' = [leaf |-> disk["selfsigned-leaf.crt"],
                        key |-> disk["selfsigned-leaf.key"],
                        ca |-> disk["selfsigned-ca.crt"]]
          /\ pc' = "serving" /\ UNCHANGED tries
       \/ ~CachedLeafUsable /\ Goto("create")
    /\ UNCHANGED <<disk, pairVars, configVars, faults>>

CreateSelfSigned == pc = "create" /\ Generate(Goto("write-ca"))

WriteCA ==
    /\ pc = "write-ca"
    /\ WriteFile("selfsigned-ca.crt", made, Goto("write-leaf"), Exit)

WriteLeaf ==
    /\ pc = "write-leaf"
    /\ WriteFile("selfsigned-leaf.crt", made, Goto("write-leaf-key"), Exit)

ServeLeaf ==
    /\ pc' = "serving" /\ UNCHANGED tries
    /\ served' = [leaf |-> made, key |-> made, ca |-> made]

WriteLeafKey ==
    /\ pc = "write-leaf-key"
    /\ WriteFile("selfsigned-leaf.key", made, ServeLeaf, Exit)

-------------------------------------------------------------------------------
(* Let's Encrypt                                                           *)

\* Mutant: any certificate and any key will do.
MutantCachedCertUsable ==
    /\ {disk["acme-ip.crt"], disk["acme-ip.key"]} \subseteq Pairs
    /\ life[disk["acme-ip.crt"]] # "over"

\* The two files belong together and the certificate has some time left.
CachedCertUsable ==
    LET cert == disk["acme-ip.crt"]
    IN  cert \in Pairs /\ disk["acme-ip.key"] = cert /\ life[cert] # "over"

\* Mutant: the cache is read only to tell whether the server is new.
MutantLoadCached ==
    /\ pc = "load" /\ mode = "letsencrypt-ip"
    /\ pc' = "account" /\ tries' = ObtainTries
    /\ UNCHANGED <<disk, pairVars, configVars, served, faults>>

LoadCached ==
    /\ pc = "load" /\ mode = "letsencrypt-ip"
    /\ \/ /\ CachedCertUsable
          /\ served' = [leaf |-> disk["acme-ip.crt"], key |-> disk["acme-ip.key"],
                        ca |-> Missing]
          /\ pc' = "serving" /\ UNCHANGED tries
       \/ /\ ~CachedCertUsable
          /\ pc' = "account" /\ tries' = ObtainTries
          /\ UNCHANGED served
    /\ UNCHANGED <<disk, pairVars, configVars, faults>>

\* Mutant: the loop waits until the certificate has expired.
MutantRenewDue ==
    /\ pc = "serving" /\ mode = "letsencrypt-ip"
    /\ life[served.leaf] = "over"
    /\ Goto("account")
    /\ UNCHANGED <<disk, pairVars, configVars, faults>>

\* The wait of renewLoop is over: 48 hours are left of the certificate.
RenewDue ==
    /\ pc = "serving" /\ mode = "letsencrypt-ip"
    /\ life[served.leaf] # "good"
    /\ Goto("account")
    /\ UNCHANGED <<disk, pairVars, configVars, faults>>

\* loadOrCreateAccountKey: a file that is there is never replaced.
AccountKey ==
    /\ pc = "account"
    /\ \/ /\ disk["acme-account.key"] = Missing
          /\ WriteFile("acme-account.key", 1, Goto("order"), AttemptFails)
       \/ /\ disk["acme-account.key"] = 1
          /\ Goto("order")
          /\ UNCHANGED <<disk, pairVars, configVars, faults>>
       \/ /\ disk["acme-account.key"] = Torn
          /\ AttemptFails
          /\ UNCHANGED <<disk, pairVars, configVars, faults>>

\* Registration and order, challenge included; the authority may refuse.
Order ==
    /\ pc = "order"
    /\ \/ Generate(Goto("write-cert"))
       \/ /\ faults < MaxFaults
          /\ AttemptFails
          /\ faults' = faults + 1
          /\ UNCHANGED <<disk, pairVars, configVars>>

WriteCert ==
    /\ pc = "write-cert"
    /\ WriteFile("acme-ip.crt", made, Goto("write-key"), AttemptFails)

\* setCert, then the renewal loop waits for the new certificate.
Install ==
    /\ pc' = "serving" /\ tries' = 0
    /\ served' = [leaf |-> made, key |-> made, ca |-> Missing]

\* Mutant: a renewed certificate goes to the disk only.
MutantWriteKey ==
    /\ pc = "write-key"
    /\ WriteFile("acme-ip.key", made, IF Serving THEN Goto("serving") ELSE Install,
                 AttemptFails)

WriteKey ==
    /\ pc = "write-key"
    /\ WriteFile("acme-ip.key", made, Install, AttemptFails)

-------------------------------------------------------------------------------
(* Time                                                                    *)

\* Somebody still has the certificate; the age of others does not matter.
Kept(n) == n \in {served.leaf, disk["acme-ip.crt"], disk["selfsigned-leaf.crt"]}

Age(n) ==
    /\ Kept(n) /\ life[n] # "over"
    /\ life' = [life EXCEPT ![n] = IF @ = "good" THEN "due" ELSE "over"]
    /\ UNCHANGED <<disk, made, names, pc, configVars, served, tries, faults>>

-------------------------------------------------------------------------------

Process ==
    \/ LoadSelfSigned \/ CreateSelfSigned \/ WriteCA \/ WriteLeaf \/ WriteLeafKey
    \/ LoadCached \/ RenewDue \/ AccountKey \/ Order \/ WriteCert \/ WriteKey

Next ==
    \/ \E m \in {"selfsigned", "letsencrypt-ip"}, hosts \in SUBSET Addresses :
          Start(m, hosts)
    \/ Process \/ Stop
    \/ \E n \in Pairs : Age(n)

Spec == Init /\ [][Next]_vars

\* The process goes on; faults are finitely many, and nobody has to restart it.
FairSpec == Spec /\ WF_vars(Process)

-------------------------------------------------------------------------------
(* Properties                                                              *)

TypeOK ==
    /\ disk \in [Files -> Pairs \cup {Missing, Torn}]
    /\ made \in 0 .. MaxPairs
    /\ names \in [Pairs -> SUBSET Addresses]
    /\ life \in [Pairs -> {"good", "due", "over"}]
    /\ pc \in {"down", "load", "create", "write-ca", "write-leaf", "write-leaf-key",
               "account", "order", "write-cert", "write-key", "serving"}
    /\ mode \in {"selfsigned", "letsencrypt-ip"} /\ want \subseteq Addresses
    /\ served \in [leaf : Pairs \cup {Missing}, key : Pairs \cup {Missing},
                   ca : Pairs \cup {Missing}]
    /\ tries \in 0 .. ObtainTries
    /\ faults \in 0 .. MaxFaults

\* Whatever mixture of files a crash has left behind, the server never presents
\* a certificate with another one's key, and in self-signed mode the CA that it
\* offers for download is the one that signed its leaf, which names every
\* address this run is reached at.
ServedBelongsTogether ==
    Serving =>
        /\ served.leaf = served.key
        /\ mode = "selfsigned" => served.ca = served.leaf /\ want \subseteq names[served.leaf]

\* A matching pair in the cache of an idle Let's Encrypt server is the one it
\* serves: restarting it neither loses a renewal nor brings back an old one.
CacheIsServed ==
    (pc = "serving" /\ mode = "letsencrypt-ip"
     /\ disk["acme-ip.crt"] \in Pairs /\ disk["acme-ip.key"] = disk["acme-ip.crt"])
        => served.leaf = disk["acme-ip.crt"]

\* Devices install the CA once: a run replaces it only if the cached leaf cannot
\* be used, never because the server was merely started again.
CAIsKept ==
    [][LET ca == disk["selfsigned-ca.crt"]
       IN  disk'["selfsigned-ca.crt"] # ca /\ ca \in Pairs =>
              \/ {disk["selfsigned-leaf.crt"], disk["selfsigned-leaf.key"]} # {ca}
              \/ life[ca] # "good" \/ ~(want \subseteq names[ca])]_vars

\* Orders are rationed by the authority: none is placed while the cache holds a
\* certificate and its key that are not due for renewal.
OrdersAreNeeded ==
    [][made' # made /\ mode = "letsencrypt-ip" =>
          \A n \in Pairs : disk["acme-ip.crt"] = n /\ disk["acme-ip.key"] = n =>
              life[n] # "good"]_vars

\* A running server replaces a certificate that is due, despite refused orders
\* and failed writes, unless the process ends.
DueIsRenewed ==
    (mode = "letsencrypt-ip" /\ Serving /\ life[served.leaf] # "good")
        ~> (~Serving \/ life[served.leaf] = "good" \/ made = MaxPairs)

\* acmeip.go:85: "Start ensures a usable certificate is available".  A usable
\* certificate is one for the address the server was configured with.
StartEnsuresUsable ==
    (mode = "letsencrypt-ip" /\ Serving) => want \subseteq names[served.leaf]

===============================================================================
