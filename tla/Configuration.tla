------------------------------ MODULE Configuration ------------------------------
(***************************************************************************)
(* What a config.yaml has to say to be accepted: Load, validate and        *)
(* resolveTLSMode of internal/config/config.go, and what the setup wizard  *)
(* of cmd/pintalk/init.go writes.                                          *)
(*                                                                         *)
(* Only what decides anything is kept: whether a name is there, what kind  *)
(* of address an address is, what kinds of accounts the list holds.        *)
(***************************************************************************)

Modes == {"selfsigned", "letsencrypt-domain", "letsencrypt-ip"}
Domains == {"", "name"}

\* Missing; public; private, loopback or link-local; not an address at all.
Addresses == {"", "public", "private", "garbage"}

Config ==
    [domain : Domains, mode : Modes \cup {"", "banana"},
     publicIP : Addresses, externalIP : Addresses,
     turn : BOOLEAN, secret : {"", "placeholder", "random"},
     realm : {"", "pintalk"} \cup Domains \cup Addresses,
     hosts : SUBSET {"unnamed", "plain", "bcrypt"}]

-------------------------------------------------------------------------------
(* config.go                                                               *)

ResolvedMode(c) ==
    IF c.mode # "" THEN c.mode
    ELSE IF c.domain # "" THEN "letsencrypt-domain" ELSE "selfsigned"

CertIP(c) == IF c.publicIP # "" THEN c.publicIP ELSE c.externalIP

\* Mutant: only what the known modes need is looked at.
MutantModeAccepted(c) ==
    /\ ResolvedMode(c) = "letsencrypt-domain" => c.domain # ""
    /\ ResolvedMode(c) = "letsencrypt-ip" => CertIP(c) = "public"

ModeAccepted(c) ==
    \/ ResolvedMode(c) = "selfsigned"
    \/ ResolvedMode(c) = "letsencrypt-domain" /\ c.domain # ""
    \/ ResolvedMode(c) = "letsencrypt-ip" /\ CertIP(c) = "public"

Accepted(c) ==
    /\ ModeAccepted(c)
    /\ c.turn => c.secret = "random"
    /\ c.hosts = {"bcrypt"}

DefaultRealm(c) ==
    IF c.domain # "" THEN c.domain ELSE IF CertIP(c) # "" THEN CertIP(c) ELSE "pintalk"

\* Mutant: the mode that was found is not written back.
MutantLoaded(c) ==
    [c EXCEPT !.realm = IF c.turn /\ @ = "" THEN DefaultRealm(c) ELSE @]

\* What an accepted file is taken to say.
Loaded(c) ==
    [c EXCEPT !.mode = ResolvedMode(c),
              !.realm = IF c.turn /\ @ = "" THEN DefaultRealm(c) ELSE @]

-------------------------------------------------------------------------------
(* init.go                                                                 *)

\* What the questions about the mode lead to: an empty line keeps the address.
Answers(ip) ==
    ({"letsencrypt-domain"} \X Domains \X {ip})
      \cup ({"letsencrypt-ip", "selfsigned"} \X {""} \X ((Addresses \ {""}) \cup {ip}))

\* The mode, domain and address that the flags and, unless it runs with --yes,
\* the answers lead to.
Choices(domain, ip, mode, interactive) ==
    IF mode # "" THEN {<<mode, domain, ip>>}
    ELSE IF domain # "" THEN {<<"letsencrypt-domain", domain, ip>>}
    ELSE IF interactive THEN Answers(ip)
    ELSE {<<IF ip # "" THEN "letsencrypt-ip" ELSE "selfsigned", "", ip>>}

Writable(mode, domain, ip) ==
    /\ mode \in Modes
    /\ mode = "letsencrypt-domain" => domain # ""
    /\ mode = "letsencrypt-ip" => ip # ""

\* Mutant: an address is no realm.
MutantRealmFor(domain, ip) == IF domain # "" THEN domain ELSE "pintalk"

RealmFor(domain, ip) == IF domain # "" THEN domain ELSE IF ip # "" THEN ip ELSE "pintalk"

Written(mode, domain, ip) ==
    [domain |-> domain, mode |-> mode, publicIP |-> ip, externalIP |-> ip,
     turn |-> mode # "selfsigned", secret |-> "random", realm |-> RealmFor(domain, ip),
     hosts |-> {"bcrypt"}]
===============================================================================
