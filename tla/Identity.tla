------------------------------ MODULE Identity ------------------------------
(***************************************************************************)
(* The identities of server and client on disk: the passphrase and the key *)
(* pair each loads or creates when it starts, written in place and in      *)
(* several steps, and the fingerprint of the server that the client trusts *)
(* at first use. crypto_service.py of the server and key_store.py of the   *)
(* client have the same procedure, so the files and the steps are those of *)
(* an owner.                                                               *)
(*                                                                         *)
(* A process may die between any two steps, and a write may raise. A file  *)
(* is torn when it was opened for writing, which empties it, and nothing   *)
(* has been written.                                                       *)
(***************************************************************************)
EXTENDS Naturals

CONSTANTS
    NoKey,      \* a file that is absent, a key that is not loaded
    Torn,       \* a file that is empty
    MaxFaults   \* bound: deaths and failed writes of each owner, and aborts

ASSUME KeyAssumption == NoKey \notin Nat /\ Torn \notin Nat /\ NoKey # Torn

ASSUME FaultsAssumption == MaxFaults \in Nat

VARIABLES
    file,     \* owner -> passphrase, private and public key on disk
    proc,     \* owner -> where its process stands, and the pair it has loaded
    drawn,    \* owner -> keys generated so far
    found,    \* owner -> history: what its directory held to begin with
    first,    \* owner -> history: the pair it was first known by
    trust,    \* the client's trusted_server.json
    met,      \* the server's pair in the reply the client is handling
    faults,   \* owner -> deaths and failed writes so far
    aborts    \* starts of the server that raised before its keys so far

vars == <<file, proc, drawn, found, first, trust, met, faults, aborts>>

Owners == {"server", "client"}

(* Key 0 is the one of an earlier installation, whose private part, where  *)
(* it is there, is plain.                                                  *)
OnDisk == Nat \union {NoKey, Torn}

File == [pass: {"none", "torn", "set"}, private: OnDisk, sealed: BOOLEAN, public: OnDisk]

(* "failed" has raised over its key files, "aborted" before it got to      *)
(* them. "trusting" is a client that saves the fingerprint of its server.  *)
(* One that has raised SecurityError makes no further attempt.             *)
Refusals == {"unsigned", "changed", "unverified"}

Stages == {"off", "passphrase", "keys", "migrate", "private", "half", "public",
           "up", "failed", "aborted", "trusting"} \union Refusals

(* The stages in which a pair is loaded.                                   *)
Loaded == {"up", "trusting"} \union Refusals

Pair == [key: Nat \union {NoKey}, public: Nat \union {NoKey}]

NoPair == [key |-> NoKey, public |-> NoKey]

Proc == [at: Stages, key: Nat \union {NoKey}, public: Nat \union {NoKey}]

Off == [at |-> "off", key |-> NoKey, public |-> NoKey]

(* The types of all variables.                                             *)
TypeOK ==
    /\ file \in [Owners -> File]
    /\ proc \in [Owners -> Proc]
    /\ drawn \in [Owners -> Nat]
    /\ found \in [Owners -> {"nothing", "pair", "public"}]
    /\ first \in [Owners -> Pair]
    /\ trust \in OnDisk
    /\ met \in Pair
    /\ faults \in [Owners -> 0 .. MaxFaults]
    /\ aborts \in 0 .. MaxFaults

(* An empty directory; the files of a version before the passphrase, by    *)
(* which the owner is known; or what a checkout of the repository brings:  *)
(* a public key whose private key is ignored by git, with a passphrase     *)
(* (the server's) or without (the client's).                               *)
Fresh == [pass |-> "none", private |-> NoKey, sealed |-> FALSE, public |-> NoKey]
Legacy == [pass |-> "none", private |-> 0, sealed |-> FALSE, public |-> 0]
Checkout(pass) == [pass |-> pass, private |-> NoKey, sealed |-> FALSE, public |-> 0]

(* A checkout brings trusted_server.json as well, and a client may have it *)
(* from an earlier installation of its server.                             *)
Init ==
    /\ file \in [Owners -> {Fresh, Legacy, Checkout("none"), Checkout("set")}]
    /\ proc = [o \in Owners |-> Off]
    /\ drawn = [o \in Owners |-> 0]
    /\ found = [o \in Owners |-> IF file[o].private # NoKey THEN "pair"
                                 ELSE IF file[o].public # NoKey THEN "public"
                                 ELSE "nothing"]
    /\ first = [o \in Owners |-> IF file[o].private # NoKey
                                 THEN [key |-> 0, public |-> 0] ELSE NoPair]
    /\ trust \in {NoKey, 0}
    /\ met = NoPair
    /\ faults = [o \in Owners |-> 0]
    /\ aborts = 0

-----------------------------------------------------------------------------
(* The steps of a start, from one change of the disk to the next.          *)

At(o, stage) == proc[o].at = stage

Goes(o, stage) == proc' = [proc EXCEPT ![o].at = stage]

Raises(o) == proc' = [proc EXCEPT ![o] = [Off EXCEPT !.at = "failed"]]

(* The pair is in memory: the private key k and what the public file holds.*)
ComesUp(o, k, public) ==
    /\ proc' = [proc EXCEPT ![o] = [at |-> "up", key |-> k, public |-> public]]
    /\ first' = [first EXCEPT ![o] =
                    IF @ = NoPair THEN [key |-> k, public |-> public] ELSE @]

(* Mutant for TypeOK: the public key is taken as it is.                    *)
LoadPublicUnread(o, k) == ComesUp(o, k, file[o].public)

(* load_pem_public_key after the private key k: an empty file raises, and  *)
(* so would one that is absent.                                            *)
LoadPublic(o, k) ==
    \/ /\ file[o].public \in {NoKey, Torn}
       /\ Raises(o) /\ UNCHANGED first
    \/ /\ file[o].public \notin {NoKey, Torn}
       /\ ComesUp(o, k, file[o].public)

(* _load_or_create_passphrase: an existing file is read as it is.          *)
Start(o) ==
    /\ At(o, "off")
    /\ \/ /\ file[o].pass = "none"
          /\ file' = [file EXCEPT ![o].pass = "torn"]
          /\ Goes(o, "passphrase")
       \/ /\ file[o].pass # "none"
          /\ Goes(o, "keys") /\ UNCHANGED file
    /\ UNCHANGED <<drawn, found, first, trust, met, faults, aborts>>

WritePassphrase(o) ==
    /\ At(o, "passphrase")
    /\ file' = [file EXCEPT ![o].pass = "set"]
    /\ Goes(o, "keys")
    /\ UNCHANGED <<drawn, found, first, trust, met, faults, aborts>>

BothExist(o) == file[o].private # NoKey /\ file[o].public # NoKey

(* An encrypted private key is opened with the passphrase.                 *)
Load(o) ==
    /\ At(o, "keys") /\ BothExist(o)
    /\ file[o].private # Torn /\ file[o].sealed /\ file[o].pass = "set"
    /\ LoadPublic(o, file[o].private)
    /\ UNCHANGED <<file, drawn, found, trust, met, faults, aborts>>

(* Mutant for IdentityKept: a pair that cannot be read is replaced.        *)
LoadReplaces(o) ==
    /\ At(o, "keys") /\ BothExist(o)
    /\ file[o].private = Torn /\ file[o].pass = "set"
    /\ drawn' = [drawn EXCEPT ![o] = @ + 1]
    /\ proc' = [proc EXCEPT ![o].at = "private", ![o].key = drawn[o] + 1]
    /\ UNCHANGED <<file, found, first, trust, met, faults, aborts>>

(* Mutant for PairMatches: the private key alone is replaced.              *)
LoadRedraws(o) ==
    /\ At(o, "keys") /\ BothExist(o)
    /\ file[o].private = Torn /\ file[o].pass = "set"
    /\ drawn' = [drawn EXCEPT ![o] = @ + 1]
    /\ proc' = [proc EXCEPT ![o].at = "migrate", ![o].key = drawn[o] + 1]
    /\ UNCHANGED <<file, found, first, trust, met, faults, aborts>>

(* Mutant for FailsOnlyTorn: no migration of a plain key.                  *)
LoadRaisesOnPlain(o) ==
    /\ At(o, "keys") /\ BothExist(o)
    /\ file[o].private = Torn \/ file[o].pass = "torn" \/ ~file[o].sealed
    /\ Raises(o)
    /\ UNCHANGED <<file, drawn, found, first, trust, met, faults, aborts>>

(* Neither with the passphrase nor without one.                            *)
LoadRaises(o) ==
    /\ At(o, "keys") /\ BothExist(o)
    /\ file[o].private = Torn \/ file[o].pass = "torn"
    /\ Raises(o)
    /\ UNCHANGED <<file, drawn, found, first, trust, met, faults, aborts>>

(* A plain key is loaded without a passphrase and encrypted in place.      *)
Migrate(o) ==
    /\ At(o, "keys") /\ BothExist(o)
    /\ file[o].private # Torn /\ ~file[o].sealed /\ file[o].pass = "set"
    /\ file' = [file EXCEPT ![o].private = Torn]
    /\ proc' = [proc EXCEPT ![o].at = "migrate", ![o].key = file[o].private]
    /\ UNCHANGED <<drawn, found, first, trust, met, faults, aborts>>

WriteMigrated(o) ==
    /\ At(o, "migrate")
    /\ file' = [file EXCEPT ![o].private = proc[o].key, ![o].sealed = TRUE]
    /\ LoadPublic(o, proc[o].key)
    /\ UNCHANGED <<drawn, found, trust, met, faults, aborts>>

(* Mutant for SecurityErrorsJustified: a new pair whatever exists.         *)
GenerateAlways(o) ==
    /\ At(o, "keys") /\ file[o].pass = "set"
    /\ drawn' = [drawn EXCEPT ![o] = @ + 1]
    /\ file' = [file EXCEPT ![o].private = Torn]
    /\ proc' = [proc EXCEPT ![o].at = "private", ![o].key = drawn[o] + 1]
    /\ UNCHANGED <<found, first, trust, met, faults, aborts>>

(* Mutant for StartsUnlessTorn: half a pair raises.                        *)
GenerateOnce(o) ==
    /\ At(o, "keys") /\ ~BothExist(o)
    /\ \/ /\ file[o].pass = "torn" \/ file[o].private # NoKey
          /\ Raises(o) /\ UNCHANGED <<file, drawn>>
       \/ /\ file[o].pass = "set" /\ file[o].private = NoKey
          /\ drawn' = [drawn EXCEPT ![o] = @ + 1]
          /\ file' = [file EXCEPT ![o].private = Torn]
          /\ proc' = [proc EXCEPT ![o].at = "private", ![o].key = drawn[o] + 1]
    /\ UNCHANGED <<found, first, trust, met, faults, aborts>>

(* A new pair when either file is missing. An empty passphrase makes       *)
(* BestAvailableEncryption raise before the file is opened.                *)
Generate(o) ==
    /\ At(o, "keys") /\ ~BothExist(o)
    /\ \/ /\ file[o].pass = "torn"
          /\ Raises(o) /\ UNCHANGED <<file, drawn>>
       \/ /\ file[o].pass = "set"
          /\ drawn' = [drawn EXCEPT ![o] = @ + 1]
          /\ file' = [file EXCEPT ![o].private = Torn]
          /\ proc' = [proc EXCEPT ![o].at = "private", ![o].key = drawn[o] + 1]
    /\ UNCHANGED <<found, first, trust, met, faults, aborts>>

WritePrivate(o) ==
    /\ At(o, "private")
    /\ file' = [file EXCEPT ![o].private = proc[o].key, ![o].sealed = TRUE]
    /\ Goes(o, "half")
    /\ UNCHANGED <<drawn, found, first, trust, met, faults, aborts>>

OpenPublic(o) ==
    /\ At(o, "half")
    /\ file' = [file EXCEPT ![o].public = Torn]
    /\ Goes(o, "public")
    /\ UNCHANGED <<drawn, found, first, trust, met, faults, aborts>>

WritePublic(o) ==
    /\ At(o, "public")
    /\ file' = [file EXCEPT ![o].public = proc[o].key]
    /\ ComesUp(o, proc[o].key, proc[o].key)
    /\ UNCHANGED <<drawn, found, trust, met, faults, aborts>>

-----------------------------------------------------------------------------
(* The client meets the server, and trusts what it meets first. A server   *)
(* whose pair is the trusted one and matches changes nothing here.         *)

(* A server whose start has raised still answers: run.py serves the auth   *)
(* listener beside the one that drives the start, and gather goes on when  *)
(* that one returns. It has no key to sign with. The reply to HELLO has    *)
(* the public key from the file.                                           *)
MeetUnsigned ==
    /\ At("client", "up") /\ proc["server"].at \in {"failed", "aborted"}
    /\ file["server"].public \notin {NoKey, Torn}
    /\ Goes("client", "unsigned")
    /\ UNCHANGED <<file, drawn, found, first, trust, met, faults, aborts>>

(* verify_or_save_server, where what cannot be read is as good as absent.  *)
MeetFirst ==
    /\ At("client", "up") /\ At("server", "up")
    /\ trust \in {NoKey, Torn}
    /\ trust' = Torn
    /\ met' = [key |-> proc["server"].key, public |-> proc["server"].public]
    /\ Goes("client", "trusting")
    /\ UNCHANGED <<file, drawn, found, first, faults, aborts>>

(* "Possible MITM attack."                                                 *)
MeetChanged ==
    /\ At("client", "up") /\ At("server", "up")
    /\ trust \notin {NoKey, Torn, proc["server"].public}
    /\ Goes("client", "changed")
    /\ UNCHANGED <<file, drawn, found, first, trust, met, faults, aborts>>

(* The signature is verified last, against the public key of the reply.    *)
MeetUnverified ==
    /\ At("client", "up") /\ At("server", "up")
    /\ trust = proc["server"].public /\ proc["server"].key # proc["server"].public
    /\ Goes("client", "unverified")
    /\ UNCHANGED <<file, drawn, found, first, trust, met, faults, aborts>>

(* The client goes on with the reply it has.                               *)
VerifyMet == Goes("client", IF met.key = met.public THEN "up" ELSE "unverified")

SaveTrust ==
    /\ At("client", "trusting")
    /\ trust' = met.public
    /\ VerifyMet
    /\ UNCHANGED <<file, drawn, found, first, met, faults, aborts>>

(* save_trusted_fingerprint ignores the exception, and the client goes on. *)
SaveTrustFails ==
    /\ At("client", "trusting")
    /\ faults["client"] < MaxFaults
    /\ faults' = [faults EXCEPT !["client"] = @ + 1]
    /\ VerifyMet
    /\ UNCHANGED <<file, drawn, found, first, trust, met, aborts>>

-----------------------------------------------------------------------------
(* Ends, deaths and failed writes.                                         *)

(* The process ends at rest; the client loads its keys again with every    *)
(* attempt, the operator starts the server again.                          *)
Ends(o) ==
    /\ proc[o].at \in {"up", "failed", "aborted"} \union Refusals
    /\ proc' = [proc EXCEPT ![o] = Off]
    /\ UNCHANGED <<file, drawn, found, first, trust, met, faults, aborts>>

Dies(o) ==
    /\ proc[o].at \notin {"off", "up", "failed", "aborted"} \union Refusals
    /\ faults[o] < MaxFaults
    /\ faults' = [faults EXCEPT ![o] = @ + 1]
    /\ proc' = [proc EXCEPT ![o] = Off]
    /\ UNCHANGED <<file, drawn, found, first, trust, met, aborts>>

(* lifespan raises before ensure_server_keys: cfg.initialize cannot make a *)
(* directory, or startup_validate, which catches two kinds of exception,   *)
(* meets a registry file that is not text.                                 *)
StartAborts ==
    /\ At("server", "off")
    /\ aborts < MaxFaults
    /\ aborts' = aborts + 1
    /\ Goes("server", "aborted")
    /\ UNCHANGED <<file, drawn, found, first, trust, met, faults>>

(* The write after an open raises, for want of room on the disk.           *)
WriteRaises(o) ==
    /\ proc[o].at \in {"passphrase", "migrate", "private", "public"}
    /\ faults[o] < MaxFaults
    /\ faults' = [faults EXCEPT ![o] = @ + 1]
    /\ Raises(o)
    /\ UNCHANGED <<file, drawn, found, first, trust, met, aborts>>

-----------------------------------------------------------------------------

Steps(o) == \/ WritePassphrase(o) \/ Load(o) \/ LoadRaises(o) \/ Migrate(o)
            \/ WriteMigrated(o) \/ Generate(o) \/ WritePrivate(o)
            \/ OpenPublic(o) \/ WritePublic(o)

Next ==
    \/ \E o \in Owners : Start(o) \/ Steps(o) \/ Ends(o) \/ Dies(o) \/ WriteRaises(o)
    \/ StartAborts
    \/ MeetUnsigned \/ MeetFirst \/ MeetChanged \/ MeetUnverified
    \/ SaveTrust \/ SaveTrustFails

(* A process goes on, the client tries again after an error, and the       *)
(* operator starts a server that has failed or died again.                 *)
Fairness ==
    \A o \in Owners : /\ WF_vars(Start(o)) /\ WF_vars(Steps(o))
                      /\ WF_vars(proc[o].at \in {"failed", "aborted"} /\ Ends(o))

Spec == Init /\ [][Next]_vars /\ Fairness

-----------------------------------------------------------------------------
(* Properties.                                                             *)

(* Whoever has its pair in memory signs with the private key of the public *)
(* key it shows, although the files are written one after the other, a     *)
(* death may part them, and a new pair is written over what is left of an  *)
(* old one. The exception is an owner that began with a public key without *)
(* its private one: ensure_server_keys draws a new pair over it, and when  *)
(* the process dies between the two files the next start loads the new     *)
(* private key with the old public one.                                    *)
PairMatches ==
    \A o \in Owners : proc[o].at \in Loaded =>
        \/ proc[o].key = proc[o].public
        \/ found[o] = "public" /\ proc[o].public = 0 /\ faults[o] > 0

(* Whoever is up is known by the pair it was first known by, through every *)
(* death, failed write, migration and new start: the devices stay trusted, *)
(* and the server stays the one its clients trust. A pair of an earlier    *)
(* version counts as known; a public key that a checkout brings without    *)
(* its private one does not, for nobody can be up with it.                 *)
IdentityKept ==
    \A o \in Owners : proc[o].at \in Loaded =>
        [key |-> proc[o].key, public |-> proc[o].public] = first[o]

(* A pair on disk that the server can never load: a start has lost the     *)
(* private key or the passphrase.                                          *)
ServerLost ==
    \/ file["server"].pass = "torn"
    \/ BothExist("server") /\ file["server"].private = Torn

(* What the client saves of its server stays right, whichever of both died *)
(* while it wrote, and it raises SecurityError for three reasons only. The *)
(* fingerprint has changed when it was saved for an earlier installation   *)
(* whose private key the server did not find. No signature comes from a    *)
(* server that has lost a file or has raised before it read its keys. A    *)
(* signature does not verify when a first start over a public key alone    *)
(* died between the two files.                                             *)
SecurityErrorsJustified ==
    /\ At("server", "up") /\ trust \in Nat =>
        trust = proc["server"].public \/ (trust = 0 /\ found["server"] # "pair")
    /\ At("client", "changed") => trust = 0 /\ found["server"] # "pair"
    /\ At("client", "unsigned") => ServerLost \/ aborts > 0
    /\ At("client", "unverified") => found["server"] = "public" /\ faults["server"] > 0

TornFile(o) == file[o].pass = "torn" \/ file[o].private = Torn \/ file[o].public = Torn

(* A start that gets to its keys raises only over a file that a death or a *)
(* failed write has left empty. That a file which exists can be opened is  *)
(* taken for granted here.                                                 *)
FailsOnlyTorn == \A o \in Owners : At(o, "failed") => TornFile(o)

(* At rest with an empty file that no start will ever write again.         *)
Lost(o) ==
    /\ At(o, "off") \/ At(o, "failed")
    /\ \/ file[o].pass = "torn"
       \/ BothExist(o) /\ (file[o].private = Torn \/ file[o].public = Torn)

(* What a death leaves of a first start is repaired by a later one, unless *)
(* it emptied the passphrase or half of a complete pair: every owner comes *)
(* up or has lost a file for good.                                         *)
StartsUnlessTorn == \A o \in Owners : At(o, "off") ~> At(o, "up") \/ Lost(o)

=============================================================================
