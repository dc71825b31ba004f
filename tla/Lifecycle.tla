-------------------------------- MODULE Lifecycle --------------------------------
(***************************************************************************)
(* pintalk serve from the reading of its file to the end of the process:   *)
(* cmdServe, the four functions that serve and shutdown of                 *)
(* cmd/pintalk/main.go and leip.go, and the listeners of                   *)
(* internal/turn/turn.go.                                                  *)
(*                                                                         *)
(* Listeners are opened by goroutines of their own and may fail at any     *)
(* time; the signal may come at any time; requests may never end, and      *)
(* sockets taken over by the WebSocket handler are nobody's to wait for.   *)
(***************************************************************************)
EXTENDS Configuration

CONSTANT Edits      \* bound: the files an operator writes by hand

ASSUME EditsAssumption == Edits \subseteq Config

VARIABLES
    file,       \* config.yaml, as the next start finds it
    author,     \* who wrote it last
    conf,       \* what the running process took from it, and its --dev
    pc,         \* where cmdServe stands
    todo,       \* listeners whose goroutine has not come to bind them
    open,       \* listeners that accept
    cancelled,  \* ctx is done
    signalled,  \* history: the process was sent a signal
    lost,       \* history: listeners that failed
    busy,       \* servers with a request under way
    socket,     \* a WebSocket is open
    deadline,   \* "off", "on" or "over": the ten seconds of shutdown
    err,        \* shutdown's firstErr is set
    status      \* how the last process ended, "none" before and until then

fileVars == <<file, author>>
traffic == <<busy, socket>>
history == <<signalled, lost>>
vars == <<file, author, conf, pc, todo, open, cancelled, signalled, lost, busy,
          socket, deadline, err, status>>

-------------------------------------------------------------------------------

NoFile == [Written("selfsigned", "", "") EXCEPT !.hosts = {}]
NoConf == [mode |-> "", turn |-> FALSE]

Servers == {"https", "http", "dev"}
TurnListeners == {"turn udp", "turn tcp"}

\* The server that has the handler of the routes.
App == IF conf.mode = "dev" THEN "dev" ELSE "https"

Init ==
    /\ file = NoFile /\ author = "nobody"
    /\ pc = "down" /\ status = "none" /\ conf = NoConf
    /\ todo = {} /\ open = {} /\ lost = {} /\ busy = {} /\ socket = FALSE
    /\ cancelled = FALSE /\ signalled = FALSE /\ deadline = "off" /\ err = FALSE

\* The process is gone, and with it all it had.
Exit(how) ==
    /\ pc' = "down" /\ status' = how /\ conf' = NoConf
    /\ todo' = {} /\ open' = {} /\ lost' = {} /\ busy' = {} /\ socket' = FALSE
    /\ cancelled' = FALSE /\ signalled' = FALSE /\ deadline' = "off" /\ err' = FALSE
    /\ UNCHANGED fileVars

Goto(to) == pc' = to /\ UNCHANGED <<fileVars, conf, status>>

-------------------------------------------------------------------------------
(* The file                                                                *)

\* A bound: once there is a file, only the wizard writes another.
Edit(c) ==
    /\ pc = "down" /\ file = NoFile
    /\ file' = c /\ author' = "operator"
    /\ UNCHANGED <<conf, pc, todo, open, cancelled, history, traffic, deadline, err, status>>

\* With --yes the wizard writes no file over another.
Wizard(domain, ip, mode, interactive) ==
    /\ pc = "down"
    /\ file = NoFile \/ interactive
    /\ \E choice \in Choices(domain, ip, mode, interactive) :
          /\ Writable(choice[1], choice[2], choice[3])
          /\ file' = Written(choice[1], choice[2], choice[3])
    /\ author' = "wizard"
    /\ UNCHANGED <<conf, pc, todo, open, cancelled, history, traffic, deadline, err, status>>

-------------------------------------------------------------------------------
(* cmdServe                                                                *)

Start(dev) ==
    /\ pc = "down" /\ Accepted(file)
    /\ conf' = [mode |-> IF dev THEN "dev" ELSE Loaded(file).mode,
                turn |-> ~dev /\ Loaded(file).turn]
    /\ pc' = IF conf'.turn THEN "turn udp" ELSE "prepare"
    /\ status' = "none"
    /\ UNCHANGED <<fileVars, todo, open, cancelled, history, traffic, deadline, err>>

StartRefused ==
    /\ pc = "down" /\ ~Accepted(file)
    /\ Exit("failed")

\* turn.Start: the UDP socket first, then the TCP one.
TurnBinds ==
    /\ pc \in TurnListeners
    /\ open' = open \cup {pc}
    /\ Goto(IF pc = "turn udp" THEN "turn tcp" ELSE "prepare")
    /\ UNCHANGED <<todo, cancelled, history, traffic, deadline, err>>

\* A port is taken, or the relay address is no good: no TURN, no server.
TurnFails == pc \in TurnListeners /\ Exit("failed")

\* Until signalContext is called a signal ends the process at once; main is no
\* further than "turn tcp" then.
Kill == pc \in TurnListeners /\ Exit("killed")

\* Only the first signal is received; the others go nowhere.
Signal ==
    /\ pc \notin {"down"} \cup TurnListeners /\ ~signalled
    /\ signalled' = TRUE /\ cancelled' = TRUE
    /\ UNCHANGED <<fileVars, conf, pc, todo, open, lost, traffic, deadline, err, status>>

\* The four functions that serve, up to the goroutines that listen.
Spawn(servers) ==
    /\ todo' = todo \cup servers
    /\ Goto("serving")
    /\ UNCHANGED <<open, cancelled, history, traffic, deadline, err>>

Prepare ==
    /\ pc = "prepare"
    /\ \/ conf.mode = "dev" /\ Spawn({"dev"})
       \/ conf.mode \in {"letsencrypt-domain", "selfsigned"} /\ Spawn({"https", "http"})
       \/ /\ conf.mode = "letsencrypt-ip"
          /\ open' = open \cup {"http"} /\ Goto("obtain")
          /\ UNCHANGED <<todo, cancelled, history, traffic, deadline, err>>

\* The cache directory, the certificates in it or, for an address, port 80; a
\* mode nobody knows.
PrepareFails == pc = "prepare" /\ conf.mode # "dev" /\ Exit("failed")

\* ACMEManager.Start has a certificate, new or from its cache.
Obtained == pc = "obtain" /\ Spawn({"https"})

\* It gives up, after its tries or as soon as the context is done.
ObtainFails == pc = "obtain" /\ Exit("failed")

-------------------------------------------------------------------------------
(* Listeners and what comes in by them                                     *)

\* Mutant: goroutines report what they could not open, and no more.
MutantIndispensable == {}

\* Mutant: every mode needs port 80.
MutantPort80 == Servers

\* The listeners whose loss is passed on by cancel.
Indispensable == IF conf.mode = "selfsigned" THEN {"https"} ELSE Servers

\* Shutdown of a server has begun.
Closing(s) == pc \in {"drain http", "done"} \/ (pc = "drain app" /\ s = App)

Bind(s) ==
    /\ s \in todo
    /\ todo' = todo \ {s}
    /\ open' = IF Closing(s) THEN open ELSE open \cup {s}
    /\ UNCHANGED <<fileVars, conf, pc, cancelled, history, traffic, deadline, err, status>>

\* A listener cannot be opened, or fails later.
ListenerFails(s) ==
    /\ s \in todo \cup (open \cap Servers) /\ ~Closing(s)
    /\ todo' = todo \ {s} /\ open' = open \ {s}
    /\ lost' = lost \cup {s}
    /\ cancelled' = (cancelled \/ s \in Indispensable)
    /\ UNCHANGED <<fileVars, conf, pc, signalled, traffic, deadline, err, status>>

Serve(s) ==
    /\ s \in open \cap Servers
    /\ busy' = busy \cup {s}
    /\ UNCHANGED <<fileVars, conf, pc, todo, open, cancelled, history, socket, deadline, err, status>>

Answer(s) ==
    /\ s \in busy
    /\ busy' = busy \ {s}
    /\ UNCHANGED <<fileVars, conf, pc, todo, open, cancelled, history, socket, deadline, err, status>>

\* Upgrade: from here on the connection is not the server's.
Hijack ==
    /\ App \in busy
    /\ busy' = busy \ {App} /\ socket' = TRUE
    /\ UNCHANGED <<fileVars, conf, pc, todo, open, cancelled, history, deadline, err, status>>

Hangup ==
    /\ socket /\ socket' = FALSE
    /\ UNCHANGED <<fileVars, conf, pc, todo, open, cancelled, history, busy, deadline, err, status>>

-------------------------------------------------------------------------------
(* shutdown                                                                *)

CloseListener(s) == open' = open \ {s}

Shutdown ==
    /\ pc = "serving" /\ cancelled
    /\ deadline' = "on"
    /\ CloseListener(App)
    /\ Goto("drain app")
    /\ UNCHANGED <<todo, cancelled, history, traffic, err>>

Expire ==
    /\ deadline = "on" /\ deadline' = "over"
    /\ UNCHANGED <<fileVars, conf, pc, todo, open, cancelled, history, traffic, err, status>>

\* Mutant: without a deadline.
MutantShut(s) == s \notin busy /\ UNCHANGED err

\* Shutdown of a server returns when no request is left, or with an error when
\* the time is over.
Shut(s) ==
    \/ s \notin busy /\ UNCHANGED err
    \/ s \in busy /\ deadline = "over" /\ err' = TRUE

DrainApp ==
    /\ pc = "drain app"
    /\ Shut(App)
    /\ IF App = "dev" THEN Goto("done") /\ UNCHANGED open
       ELSE Goto("drain http") /\ CloseListener("http")
    /\ UNCHANGED <<todo, cancelled, history, traffic, deadline>>

\* Mutant: the last server's result is the one that counts.
MutantDrainHTTP ==
    /\ pc = "drain http"
    /\ \/ "http" \notin busy /\ err' = FALSE
       \/ "http" \in busy /\ deadline = "over" /\ err' = TRUE
    /\ Goto("done")
    /\ UNCHANGED <<todo, open, cancelled, history, traffic, deadline>>

DrainHTTP ==
    /\ pc = "drain http"
    /\ Shut("http")
    /\ Goto("done")
    /\ UNCHANGED <<todo, open, cancelled, history, traffic, deadline>>

\* TURN is closed, and main returns.
Finish == pc = "done" /\ Exit(IF err THEN "failed" ELSE "ok")

-------------------------------------------------------------------------------

MainStep ==
    \/ TurnBinds \/ TurnFails \/ Prepare \/ PrepareFails \/ Obtained \/ ObtainFails
    \/ Shutdown \/ DrainApp \/ DrainHTTP \/ Finish

Next ==
    \/ \E c \in Edits : Edit(c)
    \/ \E domain \in Domains, ip \in Addresses, mode \in Modes \cup {""}, i \in BOOLEAN :
          Wizard(domain, ip, mode, i)
    \/ \E dev \in BOOLEAN : Start(dev)
    \/ StartRefused \/ MainStep \/ Expire \/ Kill \/ Signal \/ Hijack \/ Hangup
    \/ \E s \in Servers : Bind(s) \/ ListenerFails(s) \/ Serve(s) \/ Answer(s)

\* The process goes on and the clock runs.  Nobody has to end a request, to
\* leave a call or to send a signal.
Spec ==
    /\ Init /\ [][Next]_vars
    /\ WF_vars(MainStep) /\ WF_vars(Expire)
    /\ \A s \in Servers : WF_vars(Bind(s))

-------------------------------------------------------------------------------
(* Properties                                                              *)

FileTypes == file \in Config /\ author \in {"nobody", "operator", "wizard"}

ProcessTypes ==
    /\ conf \in [mode : Modes \cup {"dev", ""}, turn : BOOLEAN]
    /\ pc \in {"down", "prepare", "obtain", "serving", "drain app", "drain http", "done"}
             \cup TurnListeners
    /\ todo \subseteq Servers /\ open \subseteq Servers \cup TurnListeners
    /\ lost \subseteq Servers /\ busy \subseteq Servers
    /\ deadline \in {"off", "on", "over"}
    /\ status \in {"none", "ok", "failed", "killed"}

Flags == cancelled \in BOOLEAN /\ signalled \in BOOLEAN /\ socket \in BOOLEAN /\ err \in BOOLEAN

TypeOK == FileTypes /\ ProcessTypes /\ Flags

\* What a started process promises to listen to: the mode's servers and TURN;
\* while the certificate for an address is obtained, the port on which Let's
\* Encrypt asks for the challenge.
Promised ==
    (CASE conf.mode = "dev" -> {"dev"}
       [] conf.mode = "selfsigned" -> {"https"}
       [] pc = "obtain" -> {"http"}
       [] OTHER -> {"https", "http"})
    \cup (IF conf.turn THEN TurnListeners ELSE {})

\* A process that goes on listens to all it promised, once its goroutines have
\* come to it: it never runs on with calls that nobody can join, TURN that was
\* asked for and is not there, or a challenge that nobody answers.
RunsWhole == pc \in {"obtain", "serving"} /\ ~cancelled => Promised \subseteq open \cup todo

\* Nothing but a signal or the loss of a listener that cannot be done without
\* makes a process stop: with a certificate of its own, port 80 is optional.
StopsForAReason == cancelled => signalled \/ lost \cap Promised # {}

\* A request that the end of the process cuts off shows in the exit status.
CutsAreVisible == [][pc # "down" /\ pc' = "down" /\ busy # {} => status' = "failed"]_vars

\* After a signal the process ends, whatever the requests and calls under way
\* do: no one has to kill it.
SignalEndsIt == signalled ~> pc = "down"

\* What validate lets pass can be served: the mode is one of those cmdServe
\* knows, with the name or the address it needs, clients are given a realm,
\* and reading it twice changes nothing.
AcceptedIsServable ==
    Accepted(file) =>
        LET c == Loaded(file)
        IN  /\ c.mode \in Modes /\ Loaded(c) = c /\ Accepted(c)
            /\ c.mode = "letsencrypt-domain" => c.domain # ""
            /\ c.mode = "letsencrypt-ip" => CertIP(c) = "public"
            /\ c.turn => c.realm # ""

\* A file of the wizard is accepted unless it asks for a certificate for an
\* address that can have none, says all that Load would fill in, and
\* names the realm that Load would have chosen.
WizardFilesLoad ==
    author = "wizard" =>
        /\ Accepted(file) <=> (file.mode = "letsencrypt-ip" => file.publicIP = "public")
        /\ Loaded(file) = file /\ file.realm = DefaultRealm(file)

===============================================================================
