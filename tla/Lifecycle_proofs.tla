---------------------------- MODULE Lifecycle_proofs -----------------------------
(***************************************************************************)
(* For any files an operator may write: a process runs with all it         *)
(* promised, stops for a reason, and shows what it cut off; what validate  *)
(* lets pass can be served, and what the wizard writes says what Load      *)
(* makes of it.                                                            *)
(*                                                                         *)
(* The argument: where main stands says which servers there can be, which  *)
(* of them still accept, and whose requests can be left (Stages).          *)
(***************************************************************************)
EXTENDS Lifecycle, TLAPS

\* The servers of a mode.
Mine == IF conf.mode = "dev" THEN {"dev"} ELSE {"https", "http"}

\* What there can be of listeners and requests, stage by stage.
Stages ==
    /\ pc # "down" => conf.mode \in Modes \cup {"dev"}
    /\ todo \cup (open \cap Servers) \cup lost \cup busy \subseteq Mine
    /\ pc \in TurnListeners \cup {"down", "prepare"} =>
           todo = {} /\ open \cap Servers = {} /\ lost = {} /\ busy = {}
    /\ pc = "obtain" => /\ conf.mode = "letsencrypt-ip" /\ todo = {}
                        /\ (open \cap Servers) \cup lost \cup busy \subseteq {"http"}
    /\ pc \in {"drain app", "drain http", "done"} => App \notin open
    /\ pc \in {"drain http", "done"} /\ App \in busy => err
    /\ pc = "drain http" => conf.mode # "dev"
    /\ pc \in {"drain http", "done"} => open \cap Servers = {}
    /\ pc = "done" /\ busy # {} => err

\* TURN listens as soon as main has come past it, and until the end.
Relay ==
    /\ pc = "turn tcp" => "turn udp" \in open
    /\ pc \notin TurnListeners /\ conf.turn => TurnListeners \subseteq open
    /\ pc = "down" => ~conf.turn

\* The wizard's file is one it can write.
Wizardry ==
    author = "wizard" => \E mode \in Modes, domain \in Domains, ip \in Addresses :
                             Writable(mode, domain, ip) /\ file = Written(mode, domain, ip)

IInv == TypeOK /\ Stages /\ Relay /\ Wizardry /\ StopsForAReason /\ RunsWhole

-------------------------------------------------------------------------------
(* Files                                                                   *)

\* What the flags and answers lead to are names and addresses, or nothing.
LEMMA ChoicesAreSettings ==
    ASSUME NEW domain \in Domains, NEW ip \in Addresses, NEW mode \in Modes \cup {""},
           NEW interactive \in BOOLEAN, NEW choice \in Choices(domain, ip, mode, interactive),
           Writable(choice[1], choice[2], choice[3])
    PROVE  choice[1] \in Modes /\ choice[2] \in Domains /\ choice[3] \in Addresses
<1>1. \/ choice \in Answers(ip)
      \/ choice = <<mode, domain, ip>>
      \/ choice = <<"letsencrypt-domain", domain, ip>>
      \/ choice = <<"letsencrypt-ip", "", ip>> \/ choice = <<"selfsigned", "", ip>>
    BY Zenon DEF Choices
<1>2. CASE choice \in Answers(ip)
    <2>1. choice \in Modes \X Domains \X Addresses
        BY <1>2 DEF Answers, Domains, Addresses, Modes
    <2> QED BY <2>1
<1>3. CASE choice = <<mode, domain, ip>>
    <2>1. mode \in Modes
        BY <1>3 DEF Writable
    <2> QED BY <2>1, <1>3
<1>4. CASE choice = <<"letsencrypt-domain", domain, ip>>
    BY <1>4 DEF Modes
<1>5. CASE choice = <<"letsencrypt-ip", "", ip>>
    BY <1>5 DEF Modes, Domains
<1>6. CASE choice = <<"selfsigned", "", ip>>
    BY <1>6 DEF Modes, Domains
<1> QED BY <1>1, <1>2, <1>3, <1>4, <1>5, <1>6

\* What the wizard writes is a file.
LEMMA WrittenIsConfig ==
    ASSUME NEW mode \in Modes, NEW domain \in Domains, NEW ip \in Addresses
    PROVE  Written(mode, domain, ip) \in Config
<1>1. RealmFor(domain, ip) \in {"", "pintalk"} \cup Domains \cup Addresses
    BY DEF RealmFor
<1>2. {"bcrypt"} \in SUBSET {"unnamed", "plain", "bcrypt"} /\ (mode # "selfsigned") \in BOOLEAN
    OBVIOUS
<1> QED BY <1>1, <1>2 DEF Written, Config

\* No file at all counts as one without accounts.
LEMMA NoFileIsConfig == NoFile \in Config
BY DEF NoFile, Written, Config, RealmFor, Domains, Addresses, Modes

\* validate has found a mode that cmdServe knows.
LEMMA AcceptedMode ==
    ASSUME NEW c \in Config, Accepted(c)
    PROVE  Loaded(c).mode \in Modes /\ Loaded(c).turn \in BOOLEAN
BY DEF Config, Accepted, ModeAccepted, Loaded, Modes

\* Loading a file twice is loading it once, and what was accepted can be served.
LEMMA LoadedOnce ==
    ASSUME NEW c \in Config, Accepted(c)
    PROVE  /\ Loaded(c).mode \in Modes /\ Loaded(Loaded(c)) = Loaded(c) /\ Accepted(Loaded(c))
           /\ Loaded(c).mode = "letsencrypt-domain" => Loaded(c).domain # ""
           /\ Loaded(c).mode = "letsencrypt-ip" => CertIP(Loaded(c)) = "public"
           /\ Loaded(c).turn => Loaded(c).realm # ""
<1> DEFINE realm == IF c.turn /\ c.realm = "" THEN DefaultRealm(c) ELSE c.realm
           l == Loaded(c)
<1>1. l = [c EXCEPT !.mode = ResolvedMode(c), !.realm = realm]
    BY DEF Loaded
<1>2. /\ l.mode = ResolvedMode(c) /\ l.realm = realm /\ l.domain = c.domain /\ l.turn = c.turn
      /\ l.publicIP = c.publicIP /\ l.externalIP = c.externalIP /\ l.secret = c.secret
      /\ l.hosts = c.hosts /\ DOMAIN l = DOMAIN c
    BY <1>1 DEF Config
<1>3. ResolvedMode(c) \in Modes /\ c.turn => realm # ""
    BY DEF Accepted, ModeAccepted, Modes, DefaultRealm
<1>4. ResolvedMode(l) = ResolvedMode(c) /\ CertIP(l) = CertIP(c)
    BY <1>2, <1>3 DEF ResolvedMode, CertIP, Modes, Accepted, ModeAccepted
<1>5. l.mode \in Modes
    BY <1>2 DEF Accepted, ModeAccepted, Modes
<1>6. Accepted(l)
    BY <1>2, <1>4 DEF Accepted, ModeAccepted
<1>7. Loaded(l) = l
    BY <1>1, <1>2, <1>3, <1>4, <1>5 DEF Loaded, Config
<1>8. /\ l.mode = "letsencrypt-domain" => l.domain # ""
      /\ l.mode = "letsencrypt-ip" => CertIP(l) = "public"
    BY <1>2, <1>4 DEF Accepted, ModeAccepted
<1> HIDE DEF l
<1> QED BY <1>2, <1>3, <1>5, <1>6, <1>7, <1>8 DEF l

\* The wizard and Load agree.
LEMMA WrittenLoads ==
    ASSUME NEW mode \in Modes, NEW domain \in Domains, NEW ip \in Addresses,
           Writable(mode, domain, ip)
    PROVE  LET c == Written(mode, domain, ip)
           IN  /\ Accepted(c) <=> (c.mode = "letsencrypt-ip" => c.publicIP = "public")
               /\ Loaded(c) = c /\ c.realm = DefaultRealm(c)
<1> DEFINE c == Written(mode, domain, ip)
<1>1. ResolvedMode(c) = mode /\ CertIP(c) = ip /\ c.realm = DefaultRealm(c)
    BY DEF Written, ResolvedMode, CertIP, RealmFor, DefaultRealm, Modes
<1>2. c.realm # ""
    BY DEF Written, RealmFor
<1>3. Accepted(c) <=> (c.mode = "letsencrypt-ip" => c.publicIP = "public")
    BY <1>1 DEF Written, Accepted, ModeAccepted, Writable, Modes
<1>4. Loaded(c) = [c EXCEPT !.mode = c.mode, !.realm = c.realm]
    <2>1. c.mode = mode
        BY DEF Written
    <2> QED BY <1>1, <1>2, <2>1 DEF Loaded
<1>5. Loaded(c) = c
    <2> HIDE DEF c
    <2>1. c \in Config
        BY WrittenIsConfig DEF c
    <2> QED BY <1>4, <2>1 DEF Config
<1> QED BY <1>1, <1>3, <1>5

-------------------------------------------------------------------------------
(* Steps                                                                   *)

\* The end of a process, whatever ends it.
Ends == StartRefused \/ TurnFails \/ Kill \/ PrepareFails \/ ObtainFails \/ Finish

\* It leaves nothing behind.
LEMMA EndKeeps == ASSUME IInv, Ends PROVE IInv'
<1>1. PICK how \in {"ok", "failed", "killed"} : Exit(how)
    BY DEF Ends, StartRefused, TurnFails, Kill, PrepareFails, ObtainFails, Finish
<1>2. FileTypes' /\ Wizardry'
    BY <1>1 DEF IInv, TypeOK, FileTypes, Wizardry, Exit, fileVars
<1>3. ProcessTypes'
    BY <1>1 DEF ProcessTypes, Exit, NoConf
<1>4. Flags'
    BY <1>1 DEF Flags, Exit
<1>5. Stages' /\ Relay' /\ StopsForAReason' /\ RunsWhole'
    BY <1>1 DEF Stages, Relay, StopsForAReason, RunsWhole, Exit, NoConf, TurnListeners
<1> QED BY <1>2, <1>3, <1>4, <1>5 DEF IInv, TypeOK

\* The files that there can be.
LEMMA FileTypesKept == ASSUME IInv, [Next]_vars PROVE FileTypes'
<1> USE DEF IInv, fileVars, history, traffic
<1>1. CASE \E c \in Edits : Edit(c)
    BY <1>1, EditsAssumption DEF Edit, FileTypes, TypeOK
<1>2. CASE \E domain \in Domains, ip \in Addresses, mode \in Modes \cup {""}, i \in BOOLEAN :
             Wizard(domain, ip, mode, i)
    <2>1. PICK domain \in Domains, ip \in Addresses, mode \in Modes \cup {""}, i \in BOOLEAN :
              Wizard(domain, ip, mode, i)
        BY <1>2
    <2>2. PICK choice \in Choices(domain, ip, mode, i) :
              /\ Writable(choice[1], choice[2], choice[3])
              /\ file' = Written(choice[1], choice[2], choice[3])
        BY <2>1 DEF Wizard
    <2>3. choice[1] \in Modes /\ choice[2] \in Domains /\ choice[3] \in Addresses
        BY <2>2, ChoicesAreSettings
    <2>4. file' \in Config
        BY <2>2, <2>3, WrittenIsConfig
    <2> QED BY <2>1, <2>4 DEF Wizard, FileTypes
<1>3. CASE (\E dev \in BOOLEAN : Start(dev)) \/ TurnBinds \/ Signal \/ Prepare \/ Obtained
    BY <1>3 DEF Start, TurnBinds, Goto, Signal, Prepare, Spawn, Obtained, FileTypes, TypeOK
<1>4. CASE (\E s \in Servers : Bind(s)) \/ (\E s \in Servers : ListenerFails(s))
             \/ (\E s \in Servers : Serve(s) \/ Answer(s)) \/ Hijack \/ Hangup \/ Expire
    BY <1>4 DEF Bind, Closing, ListenerFails, Serve, Answer, Hijack, Hangup, Expire, FileTypes,
           TypeOK
<1>5. CASE Shutdown \/ DrainApp \/ DrainHTTP
    BY <1>5 DEF Shutdown, CloseListener, Goto, DrainApp, Shut, DrainHTTP, FileTypes, TypeOK
<1>6. CASE UNCHANGED vars
    BY <1>6 DEF vars, FileTypes, TypeOK
<1>7. CASE Ends
    BY <1>7, EndKeeps DEF TypeOK
<1> QED
    BY <1>1, <1>2, <1>3, <1>4, <1>5, <1>6, <1>7
    DEF Next, MainStep, Ends

\* The types of what a process has.
LEMMA ProcessTypesKept == ASSUME IInv, [Next]_vars PROVE ProcessTypes'
<1> USE DEF IInv, fileVars, history, traffic
<1>1. CASE \E c \in Edits : Edit(c)
    BY <1>1 DEF Edit, ProcessTypes, TypeOK, App, Servers, TurnListeners, Modes
<1>2. CASE \E domain \in Domains, ip \in Addresses, mode \in Modes \cup {""}, i \in BOOLEAN :
             Wizard(domain, ip, mode, i)
    BY <1>2 DEF Wizard, ProcessTypes, TypeOK, App, Servers, TurnListeners, Modes
<1>3. CASE \E dev \in BOOLEAN : Start(dev)
    <2>1. PICK dev \in BOOLEAN : Start(dev)
        BY <1>3
    <2>2. /\ pc = "down" /\ conf' \in [mode : Modes \cup {"dev"}, turn : BOOLEAN]
          /\ pc' = IF conf'.turn THEN "turn udp" ELSE "prepare"
          /\ UNCHANGED <<todo, open, lost, busy, cancelled, signalled, deadline>>
        <3>1. Loaded(file).mode \in Modes /\ Loaded(file).turn \in BOOLEAN
            BY <2>1, AcceptedMode DEF Start, TypeOK, FileTypes
        <3>2. (~dev /\ Loaded(file).turn) \in BOOLEAN
            OBVIOUS
        <3>3. (IF dev THEN "dev" ELSE Loaded(file).mode) \in Modes \cup {"dev"}
            BY <3>1
        <3> QED BY <2>1, <3>2, <3>3 DEF Start
    <2>3. status' = "none"
        BY <2>1 DEF Start
    <2> QED BY <2>2, <2>3 DEF ProcessTypes, TypeOK, TurnListeners
<1>4. CASE TurnBinds
    BY <1>4 DEF TurnBinds, Goto, ProcessTypes, TypeOK, App, Servers, TurnListeners, Modes
<1>5. CASE Signal
    BY <1>5 DEF Signal, ProcessTypes, TypeOK, App, Servers, TurnListeners, Modes
<1>6. CASE Prepare
    BY <1>6 DEF Prepare, Spawn, Goto, ProcessTypes, TypeOK, App, Servers, TurnListeners, Modes
<1>7. CASE Obtained
    BY <1>7 DEF Obtained, Spawn, Goto, ProcessTypes, TypeOK, App, Servers, TurnListeners, Modes
<1>8. CASE \E s \in Servers : Bind(s)
    BY <1>8 DEF Bind, Closing, ProcessTypes, TypeOK, App, Servers, TurnListeners, Modes
<1>9. CASE \E s \in Servers : ListenerFails(s)
    <2>1. PICK s \in Servers : ListenerFails(s)
        BY <1>9
    <2>2. /\ UNCHANGED <<conf, pc, busy, deadline, status>>
          /\ todo' = todo \ {s} /\ open' = open \ {s}
          /\ lost' = lost \cup {s} /\ s \in todo \cup open
        BY <2>1 DEF ListenerFails
    <2> QED BY <2>2 DEF ProcessTypes, TypeOK
<1>10. CASE \E s \in Servers : Serve(s) \/ Answer(s)
    <2>1. busy' \subseteq busy \cup Servers
        BY <1>10 DEF Serve, Answer
    <2>2. UNCHANGED <<conf, pc, todo, open, lost, deadline, status>>
        BY <1>10 DEF Serve, Answer
    <2> QED BY <2>1, <2>2 DEF ProcessTypes, TypeOK
<1>11. CASE Hijack \/ Hangup \/ Expire
    BY <1>11 DEF Hijack, Hangup, Expire, ProcessTypes, TypeOK, App, Servers, TurnListeners, Modes
<1>12. CASE Shutdown
    BY <1>12 DEF Shutdown, CloseListener, Goto, ProcessTypes, TypeOK, App, Servers,
           TurnListeners, Modes
<1>13. CASE DrainApp
    BY <1>13 DEF DrainApp, Shut, CloseListener, Goto, ProcessTypes, TypeOK, App, Servers,
           TurnListeners, Modes
<1>14. CASE DrainHTTP
    BY <1>14 DEF DrainHTTP, Shut, Goto, ProcessTypes, TypeOK, App, Servers, TurnListeners, Modes
<1>15. CASE UNCHANGED vars
    BY <1>15 DEF vars, ProcessTypes, TypeOK, App, Servers, TurnListeners, Modes
<1>16. CASE Ends
    BY <1>16, EndKeeps DEF TypeOK
<1> QED
    BY <1>1, <1>2, <1>3, <1>4, <1>5, <1>6, <1>7, <1>8, <1>9, <1>10, <1>11, <1>12, <1>13, <1>14,
           <1>15, <1>16
    DEF Next, MainStep, Ends

\* The switches are switches.
LEMMA FlagsKept == ASSUME IInv, [Next]_vars PROVE Flags'
<1> USE DEF IInv, fileVars, history, traffic
<1>1. CASE \E c \in Edits : Edit(c)
    BY <1>1 DEF Edit, Flags, TypeOK
<1>2. CASE \E domain \in Domains, ip \in Addresses, mode \in Modes \cup {""}, i \in BOOLEAN :
             Wizard(domain, ip, mode, i)
    BY <1>2 DEF Wizard, Flags, TypeOK
<1>3. CASE (\E dev \in BOOLEAN : Start(dev)) \/ TurnBinds \/ Signal \/ Prepare \/ Obtained
    BY <1>3 DEF Start, TurnBinds, Goto, Signal, Prepare, Spawn, Obtained, Flags, TypeOK
<1>4. CASE (\E s \in Servers : Bind(s)) \/ (\E s \in Servers : ListenerFails(s))
             \/ (\E s \in Servers : Serve(s) \/ Answer(s)) \/ Hijack \/ Hangup \/ Expire
    BY <1>4 DEF Bind, Closing, ListenerFails, Serve, Answer, Hijack, Hangup, Expire, Flags, TypeOK
<1>5. CASE Shutdown \/ DrainApp \/ DrainHTTP
    BY <1>5 DEF Shutdown, CloseListener, Goto, DrainApp, Shut, DrainHTTP, Flags, TypeOK
<1>6. CASE UNCHANGED vars
    BY <1>6 DEF vars, Flags, TypeOK
<1>7. CASE Ends
    BY <1>7, EndKeeps DEF TypeOK
<1> QED
    BY <1>1, <1>2, <1>3, <1>4, <1>5, <1>6, <1>7
    DEF Next, MainStep, Ends

\* Where main stands says what there can be.
LEMMA StagesKept == ASSUME IInv, [Next]_vars PROVE Stages'
<1> USE DEF IInv, fileVars, history, traffic
<1>1. CASE \E c \in Edits : Edit(c)
    BY <1>1 DEF Edit, Stages, TypeOK, ProcessTypes, Mine, App, Servers, TurnListeners, Modes
<1>2. CASE \E domain \in Domains, ip \in Addresses, mode \in Modes \cup {""}, i \in BOOLEAN :
             Wizard(domain, ip, mode, i)
    BY <1>2 DEF Wizard, Stages, TypeOK, ProcessTypes, Mine, App, Servers, TurnListeners, Modes
<1>3. CASE \E dev \in BOOLEAN : Start(dev)
    <2>1. PICK dev \in BOOLEAN : Start(dev)
        BY <1>3
    <2>2. /\ pc = "down" /\ conf' \in [mode : Modes \cup {"dev"}, turn : BOOLEAN]
          /\ pc' = IF conf'.turn THEN "turn udp" ELSE "prepare"
          /\ UNCHANGED <<todo, open, lost, busy, cancelled, signalled, deadline>>
        <3>1. Loaded(file).mode \in Modes /\ Loaded(file).turn \in BOOLEAN
            BY <2>1, AcceptedMode DEF Start, TypeOK, FileTypes
        <3>2. (~dev /\ Loaded(file).turn) \in BOOLEAN
            OBVIOUS
        <3>3. (IF dev THEN "dev" ELSE Loaded(file).mode) \in Modes \cup {"dev"}
            BY <3>1
        <3> QED BY <2>1, <3>2, <3>3 DEF Start
    <2> QED BY <2>2 DEF Stages, TurnListeners
<1>4. CASE TurnBinds
    BY <1>4 DEF TurnBinds, Goto, Stages, TypeOK, ProcessTypes, Mine, App, Servers,
           TurnListeners, Modes
<1>5. CASE Signal
    BY <1>5 DEF Signal, Stages, TypeOK, ProcessTypes, Mine, App, Servers, TurnListeners, Modes
<1>6. CASE Prepare
    BY <1>6 DEF Prepare, Spawn, Goto, Stages, TypeOK, ProcessTypes, Mine, App, Servers,
           TurnListeners, Modes
<1>7. CASE Obtained
    BY <1>7 DEF Obtained, Spawn, Goto, Stages, TypeOK, ProcessTypes, Mine, App, Servers,
           TurnListeners, Modes
<1>8. CASE \E s \in Servers : Bind(s)
    <2>1. PICK s \in Servers : Bind(s)
        BY <1>8
    <2>2. /\ UNCHANGED <<conf, pc, busy, lost, err>> /\ s \in todo /\ todo' = todo \ {s}
          /\ open' = IF Closing(s) THEN open ELSE open \cup {s}
        BY <2>1 DEF Bind
    <2>3. pc \in {"serving", "drain app", "drain http", "done"}
        BY <2>2 DEF Stages, TypeOK, ProcessTypes
    <2>4. pc = "drain app" /\ s = App => open' = open
        BY <2>2 DEF Closing
    <2>5. pc \in {"drain http", "done"} => open' = open
        BY <2>2 DEF Closing
    <2>6. todo' \subseteq todo /\ open' \subseteq open \cup todo /\ App' = App /\ Mine' = Mine
        BY <2>2 DEF App, Mine
    <2>7. CASE pc = "serving"
        BY <2>2, <2>6, <2>7 DEF Stages, TurnListeners
    <2>8. CASE pc = "drain app"
        <3>1. App \notin open'
            BY <2>2, <2>4, <2>8 DEF Stages
        <3> QED BY <2>2, <2>6, <2>8, <3>1 DEF Stages, TurnListeners
    <2>9. CASE pc \in {"drain http", "done"}
        BY <2>2, <2>5, <2>6, <2>9 DEF Stages, TurnListeners
    <2> QED BY <2>3, <2>7, <2>8, <2>9
<1>9. CASE \E s \in Servers : ListenerFails(s)
    <2>1. PICK s \in Servers : ListenerFails(s)
        BY <1>9
    <2>2. /\ UNCHANGED <<conf, pc, busy, err>> /\ todo' = todo \ {s} /\ open' = open \ {s}
          /\ lost' = lost \cup {s} /\ s \in todo \cup open
        BY <2>1 DEF ListenerFails
    <2>3. todo' \subseteq todo /\ open' \subseteq open /\ App' = App /\ Mine' = Mine
        BY <2>2 DEF App, Mine
    <2>4. lost' \subseteq lost \cup todo \cup (open \cap Servers)
        BY <2>2
    <2> QED BY <2>2, <2>3, <2>4 DEF Stages
<1>10. CASE \E s \in Servers : Serve(s) \/ Answer(s)
    <2>1. PICK s \in Servers : Serve(s) \/ Answer(s)
        BY <1>10
    <2>2. UNCHANGED <<conf, pc, todo, open, lost, err>>
        BY <2>1 DEF Serve, Answer
    <2>3. CASE Serve(s)
        <3>1. s \in open \cap Servers /\ busy' = busy \cup {s}
            BY <2>3 DEF Serve
        <3> QED BY <2>2, <3>1 DEF Stages, Mine, App, TurnListeners, Servers
    <2>4. CASE Answer(s)
        <3>1. busy' = busy \ {s}
            BY <2>4 DEF Answer
        <3> QED BY <2>2, <3>1 DEF Stages, Mine, App, TurnListeners
    <2> QED BY <2>1, <2>3, <2>4
<1>11. CASE Hijack \/ Hangup \/ Expire
    BY <1>11 DEF Hijack, Hangup, Expire, Stages, TypeOK, ProcessTypes, Mine, App, Servers,
           TurnListeners, Modes
<1>12. CASE Shutdown
    BY <1>12 DEF Shutdown, CloseListener, Goto, Stages, TypeOK, ProcessTypes, Mine, App,
           Servers, TurnListeners, Modes
<1>13. CASE DrainApp
    <2>1. pc = "drain app" /\ UNCHANGED <<conf, todo, lost, busy>>
        BY <1>13 DEF DrainApp, Goto
    <2>5. (App \notin busy /\ UNCHANGED err) \/ (App \in busy /\ err' = TRUE)
        BY <1>13, Zenon DEF DrainApp, Shut
    <2>2. conf.mode \in Modes \cup {"dev"} /\ App \notin open
        BY <2>1 DEF Stages
    <2>3. CASE App = "dev"
        <3>1. pc' = "done" /\ open' = open /\ conf.mode = "dev"
            BY <1>13, <2>3 DEF DrainApp, Goto, App
        <3> QED BY <2>1, <2>2, <2>3, <2>5, <3>1 DEF Stages, Mine, App, TurnListeners, Servers
    <2>4. CASE App # "dev"
        <3>1. pc' = "drain http" /\ open' = open \ {"http"} /\ conf.mode # "dev" /\ App = "https"
            BY <1>13, <2>4 DEF DrainApp, Goto, App, CloseListener
        <3> QED BY <2>1, <2>2, <2>5, <3>1 DEF Stages, Mine, App, TurnListeners, Servers
    <2> QED BY <2>3, <2>4
<1>14. CASE DrainHTTP
    <2>1. pc = "drain http" /\ pc' = "done" /\ UNCHANGED <<conf, todo, open, lost, busy>>
        BY <1>14 DEF DrainHTTP, Goto
    <2>3. ("http" \notin busy /\ UNCHANGED err) \/ ("http" \in busy /\ err' = TRUE)
        BY <1>14, Zenon DEF DrainHTTP, Shut
    <2>2. busy' \subseteq {"http", App}
        BY <2>1 DEF Stages, Mine, App
    <2> QED BY <2>1, <2>2, <2>3 DEF Stages, Mine, App, TurnListeners, Servers
<1>15. CASE UNCHANGED vars
    BY <1>15 DEF vars, Stages, TypeOK, ProcessTypes, Mine, App, Servers, TurnListeners, Modes
<1>16. CASE Ends
    BY <1>16, EndKeeps DEF TypeOK
<1> QED
    BY <1>1, <1>2, <1>3, <1>4, <1>5, <1>6, <1>7, <1>8, <1>9, <1>10, <1>11, <1>12, <1>13, <1>14,
           <1>15, <1>16
    DEF Next, MainStep, Ends

\* TURN is there once it is passed.
LEMMA RelayKept == ASSUME IInv, [Next]_vars PROVE Relay'
<1> USE DEF IInv, fileVars, history, traffic
<1>1. CASE \E c \in Edits : Edit(c)
    BY <1>1 DEF Edit, Relay, TypeOK, ProcessTypes, Servers, TurnListeners, App, Stages
<1>2. CASE \E domain \in Domains, ip \in Addresses, mode \in Modes \cup {""}, i \in BOOLEAN :
             Wizard(domain, ip, mode, i)
    BY <1>2 DEF Wizard, Relay, TypeOK, ProcessTypes, Servers, TurnListeners, App, Stages
<1>3. CASE \E dev \in BOOLEAN : Start(dev)
    BY <1>3, AcceptedMode DEF Start, Relay, TypeOK, ProcessTypes, Servers, TurnListeners, App,
           Stages, FileTypes
<1>4. CASE TurnBinds
    BY <1>4 DEF TurnBinds, Goto, Relay, TypeOK, ProcessTypes, Servers, TurnListeners, App, Stages
<1>5. CASE Signal
    BY <1>5 DEF Signal, Relay, TypeOK, ProcessTypes, Servers, TurnListeners, App, Stages
<1>6. CASE Prepare
    BY <1>6 DEF Prepare, Spawn, Goto, Relay, TypeOK, ProcessTypes, Servers, TurnListeners, App,
           Stages
<1>7. CASE Obtained
    BY <1>7 DEF Obtained, Spawn, Goto, Relay, TypeOK, ProcessTypes, Servers, TurnListeners,
           App, Stages
<1>8. CASE \E s \in Servers : Bind(s)
    BY <1>8 DEF Bind, Closing, Relay, TypeOK, ProcessTypes, Servers, TurnListeners, App, Stages
<1>9. CASE \E s \in Servers : ListenerFails(s)
    <2>1. PICK s \in Servers : ListenerFails(s)
        BY <1>9
    <2>2. /\ UNCHANGED <<conf, pc>> /\ todo' = todo \ {s} /\ open' = open \ {s}
          /\ lost' = lost \cup {s} /\ s \in todo \cup open
        BY <2>1 DEF ListenerFails
    <2> QED BY <2>2 DEF Relay, Servers, TurnListeners
<1>10. CASE \E s \in Servers : Serve(s) \/ Answer(s)
    BY <1>10 DEF Serve, Answer, Relay, TypeOK, ProcessTypes, Servers, TurnListeners, App, Stages
<1>11. CASE Hijack \/ Hangup \/ Expire
    BY <1>11 DEF Hijack, Hangup, Expire, Relay, TypeOK, ProcessTypes, Servers, TurnListeners,
           App, Stages
<1>12. CASE Shutdown
    BY <1>12 DEF Shutdown, CloseListener, Goto, Relay, TypeOK, ProcessTypes, Servers,
           TurnListeners, App, Stages
<1>13. CASE DrainApp
    BY <1>13 DEF DrainApp, Shut, CloseListener, Goto, Relay, TypeOK, ProcessTypes, Servers,
           TurnListeners, App, Stages
<1>14. CASE DrainHTTP
    BY <1>14 DEF DrainHTTP, Shut, Goto, Relay, TypeOK, ProcessTypes, Servers, TurnListeners,
           App, Stages
<1>15. CASE UNCHANGED vars
    BY <1>15 DEF vars, Relay, TypeOK, ProcessTypes, Servers, TurnListeners, App, Stages
<1>16. CASE Ends
    BY <1>16, EndKeeps DEF TypeOK
<1> QED
    BY <1>1, <1>2, <1>3, <1>4, <1>5, <1>6, <1>7, <1>8, <1>9, <1>10, <1>11, <1>12, <1>13, <1>14,
           <1>15, <1>16
    DEF Next, MainStep, Ends

\* Only the wizard signs as the wizard.
LEMMA WizardryKept == ASSUME IInv, [Next]_vars PROVE Wizardry'
<1> USE DEF IInv, fileVars, history, traffic
<1>1. CASE \E c \in Edits : Edit(c)
    BY <1>1 DEF Edit, Wizardry
<1>2. CASE \E domain \in Domains, ip \in Addresses, mode \in Modes \cup {""}, i \in BOOLEAN :
             Wizard(domain, ip, mode, i)
    <2>1. PICK domain \in Domains, ip \in Addresses, mode \in Modes \cup {""}, i \in BOOLEAN :
              Wizard(domain, ip, mode, i)
        BY <1>2
    <2>2. PICK choice \in Choices(domain, ip, mode, i) :
              /\ Writable(choice[1], choice[2], choice[3])
              /\ file' = Written(choice[1], choice[2], choice[3])
        BY <2>1 DEF Wizard
    <2>3. choice[1] \in Modes /\ choice[2] \in Domains /\ choice[3] \in Addresses
        BY <2>2, ChoicesAreSettings
    <2> QED BY <2>2, <2>3 DEF Wizardry
<1>3. CASE (\E dev \in BOOLEAN : Start(dev)) \/ TurnBinds \/ Signal \/ Prepare \/ Obtained
    BY <1>3 DEF Start, TurnBinds, Goto, Signal, Prepare, Spawn, Obtained, Wizardry
<1>4. CASE (\E s \in Servers : Bind(s)) \/ (\E s \in Servers : ListenerFails(s))
             \/ (\E s \in Servers : Serve(s) \/ Answer(s)) \/ Hijack \/ Hangup \/ Expire
    BY <1>4 DEF Bind, Closing, ListenerFails, Serve, Answer, Hijack, Hangup, Expire, Wizardry
<1>5. CASE Shutdown \/ DrainApp \/ DrainHTTP
    BY <1>5 DEF Shutdown, CloseListener, Goto, DrainApp, Shut, DrainHTTP, Wizardry
<1>6. CASE UNCHANGED vars
    BY <1>6 DEF vars, Wizardry
<1>7. CASE Ends
    BY <1>7, EndKeeps DEF TypeOK
<1> QED
    BY <1>1, <1>2, <1>3, <1>4, <1>5, <1>6, <1>7
    DEF Next, MainStep, Ends

\* A context is done for a reason.
LEMMA StopsForAReasonKept == ASSUME IInv, [Next]_vars PROVE StopsForAReason'
<1> USE DEF IInv, fileVars, history, traffic
<1>1. CASE \E c \in Edits : Edit(c)
    <2>1. UNCHANGED <<conf, pc, cancelled, signalled, lost>>
        BY <1>1 DEF Edit
    <2> QED BY <2>1 DEF StopsForAReason, Promised
<1>2. CASE \E domain \in Domains, ip \in Addresses, mode \in Modes \cup {""}, i \in BOOLEAN :
             Wizard(domain, ip, mode, i)
    <2>1. UNCHANGED <<conf, pc, cancelled, signalled, lost>>
        BY <1>2 DEF Wizard
    <2> QED BY <2>1 DEF StopsForAReason, Promised
<1>3. CASE \E dev \in BOOLEAN : Start(dev)
    <2>1. PICK dev \in BOOLEAN : Start(dev)
        BY <1>3
    <2>2. /\ pc = "down" /\ conf' \in [mode : Modes \cup {"dev"}, turn : BOOLEAN]
          /\ pc' = IF conf'.turn THEN "turn udp" ELSE "prepare"
          /\ UNCHANGED <<todo, open, lost, busy, cancelled, signalled, deadline>>
        <3>1. Loaded(file).mode \in Modes /\ Loaded(file).turn \in BOOLEAN
            BY <2>1, AcceptedMode DEF Start, TypeOK, FileTypes
        <3>2. (~dev /\ Loaded(file).turn) \in BOOLEAN
            OBVIOUS
        <3>3. (IF dev THEN "dev" ELSE Loaded(file).mode) \in Modes \cup {"dev"}
            BY <3>1
        <3> QED BY <2>1, <3>2, <3>3 DEF Start
    <2> QED BY <2>2 DEF StopsForAReason, Stages
<1>4. CASE TurnBinds
    BY <1>4 DEF TurnBinds, Goto, Stages, StopsForAReason
<1>5. CASE Signal
    BY <1>5 DEF Signal, StopsForAReason
<1>6. CASE Prepare
    BY <1>6 DEF Prepare, Spawn, Goto, Stages, StopsForAReason
<1>7. CASE Obtained
    <2>1. pc = "obtain" /\ conf.mode = "letsencrypt-ip"
        BY <1>7 DEF Obtained, Stages
    <2>2. pc' = "serving" /\ UNCHANGED <<conf, cancelled, signalled, lost>>
        BY <1>7 DEF Obtained, Spawn, Goto
    <2>3. Promised \subseteq Promised'
        BY <2>1, <2>2 DEF Promised
    <2> QED BY <2>2, <2>3 DEF StopsForAReason
<1>8. CASE \E s \in Servers : Bind(s)
    <2>1. UNCHANGED <<conf, pc, cancelled, signalled, lost>>
        BY <1>8 DEF Bind
    <2> QED BY <2>1 DEF StopsForAReason, Promised
<1>9. CASE \E s \in Servers : ListenerFails(s)
    <2>1. PICK s \in Servers : ListenerFails(s)
        BY <1>9
    <2>2. /\ Promised' = Promised /\ signalled' = signalled /\ lost' = lost \cup {s}
          /\ cancelled' = (cancelled \/ s \in Indispensable)
        BY <2>1 DEF ListenerFails, Promised
    <2>3. ASSUME s \in Indispensable PROVE s \in Promised
        <3>1. s \in Mine /\ pc # "down" /\ conf.mode \in Modes \cup {"dev"}
            BY <2>1 DEF ListenerFails, Stages
        <3>2. pc = "obtain" => s = "http" /\ conf.mode = "letsencrypt-ip"
            BY <2>1 DEF ListenerFails, Stages
        <3> QED BY <2>3, <3>1, <3>2 DEF Promised, Indispensable, Mine, Modes
    <2>4. CASE s \in Indispensable
        BY <2>2, <2>3, <2>4 DEF StopsForAReason
    <2>5. CASE s \notin Indispensable
        BY <2>2, <2>5 DEF StopsForAReason
    <2> QED BY <2>4, <2>5
<1>10. CASE \E s \in Servers : Serve(s) \/ Answer(s)
    <2>1. UNCHANGED <<conf, pc, cancelled, signalled, lost>>
        BY <1>10 DEF Serve, Answer
    <2> QED BY <2>1 DEF StopsForAReason, Promised
<1>11. CASE Hijack \/ Hangup \/ Expire
    <2>1. UNCHANGED <<conf, pc, cancelled, signalled, lost>>
        BY <1>11 DEF Hijack, Hangup, Expire
    <2> QED BY <2>1 DEF StopsForAReason, Promised
<1>12. CASE Shutdown
    <2>1. pc # "obtain" /\ pc' # "obtain" /\ UNCHANGED <<conf, cancelled, signalled, lost>>
        BY <1>12 DEF Shutdown, Goto
    <2> QED BY <2>1 DEF StopsForAReason, Promised
<1>13. CASE DrainApp
    <2>1. pc # "obtain" /\ pc' # "obtain" /\ UNCHANGED <<conf, cancelled, signalled, lost>>
        BY <1>13 DEF DrainApp, Goto
    <2> QED BY <2>1 DEF StopsForAReason, Promised
<1>14. CASE DrainHTTP
    <2>1. pc # "obtain" /\ pc' # "obtain" /\ UNCHANGED <<conf, cancelled, signalled, lost>>
        BY <1>14 DEF DrainHTTP, Goto
    <2> QED BY <2>1 DEF StopsForAReason, Promised
<1>15. CASE UNCHANGED vars
    BY <1>15 DEF vars, StopsForAReason, Promised
<1>16. CASE Ends
    BY <1>16, EndKeeps DEF TypeOK
<1> QED
    BY <1>1, <1>2, <1>3, <1>4, <1>5, <1>6, <1>7, <1>8, <1>9, <1>10, <1>11, <1>12, <1>13, <1>14,
           <1>15, <1>16
    DEF Next, MainStep, Ends

\* What was promised is open, or about to be.
LEMMA RunsWholeKept == ASSUME IInv, [Next]_vars PROVE RunsWhole'
<1> USE DEF IInv, fileVars, history, traffic
<1>1. CASE \E c \in Edits : Edit(c)
    <2>1. UNCHANGED <<conf, pc, cancelled, todo, open>>
        BY <1>1 DEF Edit
    <2> QED BY <2>1 DEF RunsWhole, Promised
<1>2. CASE \E domain \in Domains, ip \in Addresses, mode \in Modes \cup {""}, i \in BOOLEAN :
             Wizard(domain, ip, mode, i)
    <2>1. UNCHANGED <<conf, pc, cancelled, todo, open>>
        BY <1>2 DEF Wizard
    <2> QED BY <2>1 DEF RunsWhole, Promised
<1>3. CASE \E dev \in BOOLEAN : Start(dev)
    BY <1>3 DEF Start, RunsWhole
<1>4. CASE TurnBinds
    BY <1>4 DEF TurnBinds, Goto, RunsWhole
<1>5. CASE Signal
    BY <1>5 DEF Signal, RunsWhole
<1>6. CASE Prepare
    <2>1. conf.turn => TurnListeners \subseteq open
        BY <1>6 DEF Prepare, Relay, TurnListeners
    <2>2. CASE conf.mode = "dev" /\ Spawn({"dev"})
        BY <2>1, <2>2 DEF Spawn, Goto, RunsWhole, Promised
    <2>3. CASE conf.mode \in {"letsencrypt-domain", "selfsigned"} /\ Spawn({"https", "http"})
        BY <2>1, <2>3 DEF Spawn, Goto, RunsWhole, Promised
    <2>4. CASE conf.mode = "letsencrypt-ip" /\ open' = open \cup {"http"} /\ Goto("obtain")
        BY <2>1, <2>4 DEF Goto, RunsWhole, Promised
    <2> QED BY <1>6, <2>2, <2>3, <2>4 DEF Prepare
<1>7. CASE Obtained
    <2>1. conf.turn => TurnListeners \subseteq open
        BY <1>7 DEF Obtained, Relay, TurnListeners
    <2>2. pc = "obtain" /\ conf.mode = "letsencrypt-ip" /\ UNCHANGED <<conf, cancelled, open>>
        BY <1>7 DEF Obtained, Spawn, Goto, Stages
    <2>3. todo' = todo \cup {"https"} /\ pc' = "serving"
        BY <1>7 DEF Obtained, Spawn, Goto
    <2>4. ~cancelled => "http" \in open \cup todo
        BY <2>2 DEF RunsWhole, Promised
    <2> QED BY <2>1, <2>2, <2>3, <2>4 DEF RunsWhole, Promised
<1>8. CASE \E s \in Servers : Bind(s)
    <2>1. PICK s \in Servers : Bind(s)
        BY <1>8
    <2>2. UNCHANGED <<conf, pc, cancelled>> /\ todo' = todo \ {s}
        BY <2>1 DEF Bind
    <2>3. pc \in {"obtain", "serving"} => open' = open \cup {s}
        BY <2>1 DEF Bind, Closing
    <2> QED BY <2>2, <2>3 DEF RunsWhole, Promised
<1>9. CASE \E s \in Servers : ListenerFails(s)
    <2>1. PICK s \in Servers : ListenerFails(s)
        BY <1>9
    <2>2. /\ UNCHANGED <<conf, pc>> /\ todo' = todo \ {s} /\ open' = open \ {s}
          /\ cancelled' = (cancelled \/ s \in Indispensable)
        BY <2>1 DEF ListenerFails
    <2>3. CASE s \in Indispensable
        BY <2>2, <2>3 DEF RunsWhole
    <2>4. CASE s \notin Indispensable
        <3>1. conf.mode = "selfsigned" /\ s # "https" /\ pc # "obtain"
            BY <2>4 DEF Indispensable, Stages
        <3>2. Promised = {"https"} \cup (IF conf.turn THEN TurnListeners ELSE {})
            BY <3>1 DEF Promised
        <3>3. s \notin Promised
            BY <3>1, <3>2 DEF Servers, TurnListeners
        <3>4. Promised' = Promised
            BY <2>2 DEF Promised
        <3>5. cancelled' <=> cancelled
            BY <2>2, <2>4
        <3> QED BY <2>2, <3>3, <3>4, <3>5 DEF RunsWhole
    <2> QED BY <2>3, <2>4
<1>10. CASE \E s \in Servers : Serve(s) \/ Answer(s)
    <2>1. UNCHANGED <<conf, pc, cancelled, todo, open>>
        BY <1>10 DEF Serve, Answer
    <2> QED BY <2>1 DEF RunsWhole, Promised
<1>11. CASE Hijack \/ Hangup \/ Expire
    <2>1. UNCHANGED <<conf, pc, cancelled, todo, open>>
        BY <1>11 DEF Hijack, Hangup, Expire
    <2> QED BY <2>1 DEF RunsWhole, Promised
<1>12. CASE Shutdown
    BY <1>12 DEF Shutdown, Goto, RunsWhole
<1>13. CASE DrainApp
    BY <1>13 DEF DrainApp, Goto, RunsWhole
<1>14. CASE DrainHTTP
    BY <1>14 DEF DrainHTTP, Goto, RunsWhole
<1>15. CASE UNCHANGED vars
    BY <1>15 DEF vars, RunsWhole, Promised
<1>16. CASE Ends
    BY <1>16, EndKeeps DEF TypeOK
<1> QED
    BY <1>1, <1>2, <1>3, <1>4, <1>5, <1>6, <1>7, <1>8, <1>9, <1>10, <1>11, <1>12, <1>13, <1>14,
           <1>15, <1>16
    DEF Next, MainStep, Ends

-------------------------------------------------------------------------------
(* Theorems                                                                *)

\* No process, and no file.
LEMMA InitKeeps == Init => IInv
<1> SUFFICES ASSUME Init PROVE IInv
    OBVIOUS
<1>1. TypeOK
    BY NoFileIsConfig DEF Init, TypeOK, FileTypes, ProcessTypes, Flags, NoConf
<1>2. Stages /\ Relay /\ Wizardry /\ StopsForAReason /\ RunsWhole
    BY DEF Init, Stages, Relay, Wizardry, StopsForAReason, RunsWhole, NoConf, TurnListeners
<1> QED BY <1>1, <1>2 DEF IInv

\* Where main stands says what there can be of listeners and requests.
THEOREM InductiveInvariant == Spec => []IInv
<1>1. IInv /\ [Next]_vars => IInv'
    BY FileTypesKept, ProcessTypesKept, FlagsKept, StagesKept, RelayKept, WizardryKept,
       StopsForAReasonKept, RunsWholeKept DEF IInv, TypeOK
<1> QED BY <1>1, InitKeeps, PTL DEF Spec

\* The type invariant of the file and the process.
THEOREM TypeCorrectness == Spec => []TypeOK
BY InductiveInvariant, PTL DEF IInv

\* A process that goes on listens to all it promised.
THEOREM ProcessRunsWhole == Spec => []RunsWhole
BY InductiveInvariant, PTL DEF IInv

\* Nothing but a signal or a lost promise makes it stop.
THEOREM ProcessStopsForAReason == Spec => []StopsForAReason
BY InductiveInvariant, PTL DEF IInv

\* A request that the end cuts off shows in the exit status.
THEOREM CutRequestsShow == Spec => CutsAreVisible
<1>1. ASSUME IInv, [Next]_vars, pc # "down", pc' = "down", busy # {} PROVE status' = "failed"
    <2>1. TurnFails \/ Kill \/ PrepareFails \/ ObtainFails \/ Finish
        BY <1>1 DEF Next, MainStep, vars, Edit, Wizard, Start, StartRefused, TurnBinds, Prepare,
               Obtained,
               Spawn, Goto, Shutdown, DrainApp, DrainHTTP, Expire, Signal, Hijack, Hangup, Bind,
               ListenerFails, Serve, Answer
    <2>2. ~TurnFails /\ ~Kill /\ ~PrepareFails
        BY <1>1 DEF IInv, Stages, TurnFails, Kill, PrepareFails, TurnListeners
    <2>3. CASE ObtainFails
        BY <2>3 DEF ObtainFails, Exit
    <2>4. CASE Finish
        BY <1>1, <2>4 DEF IInv, Stages, Finish, Exit
    <2> QED BY <2>1, <2>2, <2>3, <2>4
<1>2. IInv /\ [Next]_vars => [pc # "down" /\ pc' = "down" /\ busy # {} => status' = "failed"]_vars
    BY <1>1
<1> QED BY <1>2, InductiveInvariant, PTL DEF Spec, CutsAreVisible

\* What validate lets pass can be served.
THEOREM AcceptedFilesServe == Spec => []AcceptedIsServable
<1>1. IInv => AcceptedIsServable
    BY LoadedOnce DEF IInv, TypeOK, FileTypes, AcceptedIsServable
<1> QED BY <1>1, InductiveInvariant, PTL

\* What the wizard writes says what Load makes of it.
THEOREM WizardAndLoadAgree == Spec => []WizardFilesLoad
<1>1. IInv => WizardFilesLoad
    BY WrittenLoads DEF IInv, Wizardry, WizardFilesLoad
<1> QED BY <1>1, InductiveInvariant, PTL

===============================================================================
