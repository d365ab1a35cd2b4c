--------------------------- MODULE IdentityProofs ---------------------------
(***************************************************************************)
(* Proofs about Identity, for any number of deaths and failed writes.      *)
(*                                                                         *)
(* None of the properties is inductive: what keeps the pair matching and   *)
(* the identity the same is what each stage of a start has already put on  *)
(* the disk (Stage), together with what every death leaves there (Disk).   *)
(***************************************************************************)
EXTENDS Identity, TLAPS

(* A first start over a public key alone died between the two files.       *)
Parted(o) == found[o] = "public" /\ file[o].public = 0 /\ faults[o] > 0

(* A public key that has no private one to begin with, if there is any.    *)
Leftover(o) ==
    file[o].public = NoKey \/ (found[o] = "public" /\ file[o].public = 0)

(* What the files of an owner say of each other and of its history.        *)
Disk(o) ==
    /\ Leftover(o) \/ file[o].private # NoKey
    /\ found[o] = "pair" => first[o] = [key |-> 0, public |-> 0]
    /\ first[o] # NoPair =>
          /\ first[o].key \in Nat /\ first[o].public \in Nat
          /\ file[o].public = first[o].public
          /\ file[o].private \in {first[o].key, Torn}
          /\ first[o].key = first[o].public \/ Parted(o)
    /\ file[o].private \in Nat /\ file[o].public \in Nat =>
          \/ file[o].private = file[o].public
          \/ Leftover(o) /\ At(o, "half")
          \/ Parted(o)
    /\ file[o].private \in Nat /\ ~file[o].sealed => first[o] # NoPair

(* What a process has put on the disk by the time it reaches a stage.      *)
Stage(o) ==
    /\ proc[o].at \notin {"off", "aborted"} => file[o].pass # "none"
    /\ At(o, "passphrase") => file[o].pass = "torn"
    /\ At(o, "migrate") => /\ file[o].private = Torn
                           /\ first[o] # NoPair /\ proc[o].key = first[o].key
    /\ At(o, "private") => /\ file[o].private = Torn /\ Leftover(o)
                           /\ first[o] = NoPair /\ proc[o].key \in Nat
    /\ At(o, "half") => /\ file[o].private = proc[o].key /\ Leftover(o)
                        /\ first[o] = NoPair /\ proc[o].key \in Nat
    /\ At(o, "public") => /\ file[o].private = proc[o].key /\ file[o].public = Torn
                          /\ first[o] = NoPair /\ proc[o].key \in Nat
    /\ proc[o].at \in Loaded =>
          /\ first[o] # NoPair
          /\ proc[o].key = first[o].key /\ proc[o].public = first[o].public
    /\ At(o, "failed") => TornFile(o)

(* What the client has saved, or refuses for good, of the server.          *)
Trusts ==
    /\ trust \in Nat =>
          trust = first["server"].public \/ (trust = 0 /\ found["server"] # "pair")
    /\ At("client", "trusting") => met = first["server"] /\ met # NoPair
    /\ At("client", "changed") => trust = 0 /\ found["server"] # "pair"
    /\ At("client", "unverified") => found["server"] = "public" /\ faults["server"] > 0
    /\ At("server", "aborted") => aborts > 0
    /\ At("client", "unsigned") =>
          \/ aborts > 0
          \/ /\ ServerLost /\ file["server"].pass # "none"
             /\ proc["server"].at \in {"off", "keys", "failed", "aborted"}

IInv == TypeOK /\ (\A o \in Owners : Disk(o) /\ Stage(o)) /\ Trusts

(* The invariant holds over empty directories, those of a version before   *)
(* the passphrase, and those of a checkout.                                *)
LEMMA InitInv == Init => IInv
  <1> SUFFICES ASSUME Init PROVE IInv
    OBVIOUS
  <1> DEFINE Given == {Fresh, Legacy, Checkout("none"), Checkout("set")}
  <1>1. TypeOK
    <2>1. Given \subseteq File
      <3>1. NoKey \in OnDisk /\ 0 \in OnDisk
        BY DEF OnDisk
      <3>2. Fresh \in File /\ Legacy \in File
        BY <3>1, Zenon DEF File, Fresh, Legacy
      <3>3. Checkout("none") \in File /\ Checkout("set") \in File
        BY <3>1, Zenon DEF File, Checkout
      <3> QED
        BY <3>2, <3>3
    <2>2. file \in [Owners -> File]
      BY <2>1 DEF Init
    <2>3. [key |-> 0, public |-> 0] \in Pair /\ NoPair \in Pair
      BY DEF Pair, NoPair
    <2>4. Off \in Proc
      BY DEF Off, Proc, Stages
    <2> QED
      BY <2>2, <2>3, <2>4, FaultsAssumption DEF Init, TypeOK, OnDisk
  <1>2. ASSUME NEW o \in Owners PROVE Disk(o) /\ Stage(o)
    <2>1. file[o] \in Given /\ proc[o] = Off
      BY <1>2 DEF Init
    <2>2. found[o] = IF file[o].private # NoKey THEN "pair"
                     ELSE IF file[o].public # NoKey THEN "public" ELSE "nothing"
      BY <1>2 DEF Init
    <2>3. first[o] = IF file[o].private # NoKey
                     THEN [key |-> 0, public |-> 0] ELSE NoPair
      BY <1>2 DEF Init
    <2>4. file[o].private = NoKey \/ (file[o].private = 0 /\ file[o].public = 0)
      BY <2>1 DEF Fresh, Legacy, Checkout
    <2>5. file[o].public \in {NoKey, 0}
      BY <2>1 DEF Fresh, Legacy, Checkout
    <2>6. Disk(o)
      BY <2>2, <2>3, <2>4, <2>5, KeyAssumption DEF Disk, Leftover, NoPair
    <2>7. Stage(o)
      BY <2>1, KeyAssumption DEF Stage, At, Off, Loaded, Refusals
    <2> QED
      BY <2>6, <2>7
  <1>3. Trusts
    <2>1. proc["client"] = Off /\ proc["server"] = Off
      BY DEF Init, Owners
    <2>2. trust = 0 => trust = first["server"].public \/ found["server"] # "pair"
      BY KeyAssumption DEF Init, Owners
    <2> QED
      BY <2>1, <2>2, KeyAssumption DEF Init, Trusts, At, Off
  <1> QED
    BY <1>1, <1>2, <1>3 DEF IInv

(* A file of an owner written anew is again the file of an owner.          *)
LEMMA FileWrites ==
  ASSUME NEW r \in File, NEW k \in OnDisk, NEW s \in {"none", "torn", "set"}
  PROVE  /\ [r EXCEPT !.pass = s] \in File
         /\ [r EXCEPT !.private = k] \in File
         /\ [r EXCEPT !.private = k, !.sealed = TRUE] \in File
         /\ [r EXCEPT !.public = k] \in File
  BY Zenon DEF File

(* Every step of an owner and of the client keeps the types.               *)
LEMMA TypeStep == TypeOK /\ [Next]_vars => TypeOK'
  <1> SUFFICES ASSUME TypeOK, [Next]_vars PROVE TypeOK'
    OBVIOUS
  <1> USE DEF Owners
  <1>f. ASSUME NEW o \in Owners, NEW r \in File, file' = [file EXCEPT ![o] = r]
        PROVE  file' \in [Owners -> File]
    BY <1>f DEF TypeOK
  <1>g. ASSUME NEW o \in Owners, NEW s \in Stages, Goes(o, s)
        PROVE  proc' \in [Owners -> Proc]
    BY <1>g DEF TypeOK, Goes, Proc
  <1>r. ASSUME NEW o \in Owners, Raises(o) PROVE proc' \in [Owners -> Proc]
    BY <1>r DEF TypeOK, Raises, Proc, Off, Stages
  <1>d. ASSUME NEW o \in Owners, faults[o] < MaxFaults,
               faults' = [faults EXCEPT ![o] = @ + 1]
        PROVE  faults' \in [Owners -> 0 .. MaxFaults]
    BY <1>d, FaultsAssumption DEF TypeOK
  <1>u. ASSUME NEW o \in Owners, NEW k \in Nat \union {NoKey},
               NEW q \in Nat \union {NoKey}, ComesUp(o, k, q)
        PROVE  /\ proc' \in [Owners -> Proc]
               /\ first' \in [Owners -> Pair]
    BY <1>u DEF TypeOK, ComesUp, Proc, Pair, Stages
  <1>l. ASSUME NEW o \in Owners, NEW k \in Nat \union {NoKey}, LoadPublic(o, k)
        PROVE  /\ proc' \in [Owners -> Proc]
               /\ first' \in [Owners -> Pair]
    <2>1. CASE file[o].public \in {NoKey, Torn}
      BY <2>1, <1>l, <1>r DEF LoadPublic, TypeOK
    <2>2. CASE file[o].public \notin {NoKey, Torn}
      <3>1. file[o].public \in Nat \union {NoKey}
        BY <2>2 DEF TypeOK, File, OnDisk
      <3> QED
        BY <2>2, <3>1, <1>l, <1>u DEF LoadPublic
    <2> QED
      BY <2>1, <2>2
  <1>s. /\ "passphrase" \in Stages /\ "keys" \in Stages /\ "half" \in Stages
        /\ "public" \in Stages /\ "unsigned" \in Stages /\ "trusting" \in Stages
        /\ "up" \in Stages /\ "migrate" \in Stages /\ "private" \in Stages
        /\ "off" \in Stages /\ "aborted" \in Stages /\ "changed" \in Stages
        /\ "unverified" \in Stages
    BY DEF Stages, Refusals
  <1>k. Torn \in OnDisk
    BY DEF OnDisk
  <1>o. Off \in Proc
    BY <1>s DEF Off, Proc
  <1>1. ASSUME NEW o \in Owners, Start(o) PROVE TypeOK'
    <2>1. file' \in [Owners -> File]
      BY <1>1, <1>f, FileWrites DEF Start, TypeOK
    <2> QED
      BY <1>1, <2>1, <1>g, <1>s DEF Start, TypeOK
  <1>2. ASSUME NEW o \in Owners, WritePassphrase(o) PROVE TypeOK'
    <2>1. file' \in [Owners -> File]
      BY <1>2, <1>f, FileWrites DEF WritePassphrase, TypeOK
    <2> QED
      BY <1>2, <2>1, <1>g, <1>s DEF WritePassphrase, TypeOK
  <1>3. ASSUME NEW o \in Owners, Load(o) PROVE TypeOK'
    <2>1. file[o].private \in Nat \union {NoKey}
      BY <1>3 DEF Load, TypeOK, File, OnDisk
    <2> QED
      BY <1>3, <2>1, <1>l DEF Load, TypeOK
  <1>4. ASSUME NEW o \in Owners, LoadRaises(o) PROVE TypeOK'
    BY <1>4, <1>r DEF LoadRaises, TypeOK
  <1>5. ASSUME NEW o \in Owners, Migrate(o) PROVE TypeOK'
    <2>1. file' \in [Owners -> File]
      BY <1>5, <1>f, <1>k, FileWrites DEF Migrate, TypeOK
    <2>2. file[o].private \in Nat \union {NoKey}
      BY <1>5 DEF Migrate, TypeOK, File, OnDisk
    <2>3. proc' \in [Owners -> Proc]
      BY <1>5, <2>2, <1>s DEF Migrate, TypeOK, Proc
    <2> QED
      BY <1>5, <2>1, <2>3 DEF Migrate, TypeOK
  <1>6. ASSUME NEW o \in Owners, WriteMigrated(o) PROVE TypeOK'
    <2>1. proc[o].key \in Nat \union {NoKey} /\ proc[o].key \in OnDisk
      BY DEF TypeOK, Proc, OnDisk
    <2>2. file' \in [Owners -> File]
      BY <1>6, <2>1, <1>f, FileWrites DEF WriteMigrated, TypeOK
    <2> QED
      BY <1>6, <2>1, <2>2, <1>l DEF WriteMigrated, TypeOK
  <1>7. ASSUME NEW o \in Owners, Generate(o) PROVE TypeOK'
    <2>1. CASE file[o].pass = "torn"
      BY <1>7, <2>1, <1>r DEF Generate, TypeOK
    <2>2. CASE file[o].pass = "set"
      <3>1. file' \in [Owners -> File]
        BY <1>7, <2>2, <1>f, <1>k, FileWrites DEF Generate, TypeOK
      <3>2. drawn' \in [Owners -> Nat]
        BY <1>7, <2>2 DEF Generate, TypeOK
      <3>3. proc' \in [Owners -> Proc]
        BY <1>7, <2>2, <1>s DEF Generate, TypeOK, Proc
      <3> QED
        BY <1>7, <2>2, <3>1, <3>2, <3>3 DEF Generate, TypeOK
    <2> QED
      BY <1>7, <2>1, <2>2 DEF Generate
  <1>8. ASSUME NEW o \in Owners, WritePrivate(o) PROVE TypeOK'
    <2>1. proc[o].key \in OnDisk
      BY DEF TypeOK, Proc, OnDisk
    <2>2. file' \in [Owners -> File]
      BY <1>8, <2>1, <1>f, FileWrites DEF WritePrivate, TypeOK
    <2> QED
      BY <1>8, <2>2, <1>g, <1>s DEF WritePrivate, TypeOK
  <1>9. ASSUME NEW o \in Owners, OpenPublic(o) PROVE TypeOK'
    <2>1. file' \in [Owners -> File]
      BY <1>9, <1>f, <1>k, FileWrites DEF OpenPublic, TypeOK
    <2> QED
      BY <1>9, <2>1, <1>g, <1>s DEF OpenPublic, TypeOK
  <1>10. ASSUME NEW o \in Owners, WritePublic(o) PROVE TypeOK'
    <2>1. proc[o].key \in Nat \union {NoKey} /\ proc[o].key \in OnDisk
      BY DEF TypeOK, Proc, OnDisk
    <2>2. file' \in [Owners -> File]
      BY <1>10, <2>1, <1>f, FileWrites DEF WritePublic, TypeOK
    <2> QED
      BY <1>10, <2>1, <2>2, <1>u DEF WritePublic, TypeOK
  <1>11. ASSUME NEW o \in Owners, Ends(o) PROVE TypeOK'
    BY <1>11, <1>o DEF Ends, TypeOK
  <1>12. ASSUME NEW o \in Owners, Dies(o) PROVE TypeOK'
    BY <1>12, <1>o, <1>d DEF Dies, TypeOK
  <1>13. ASSUME NEW o \in Owners, WriteRaises(o) PROVE TypeOK'
    BY <1>13, <1>r, <1>d DEF WriteRaises, TypeOK
  <1>14. CASE MeetUnsigned
    BY <1>14, <1>g, <1>s DEF MeetUnsigned, TypeOK
  <1>15. CASE MeetFirst
    <2>1. met' \in Pair
      BY <1>15 DEF MeetFirst, TypeOK, Proc, Pair
    <2> QED
      BY <1>15, <2>1, <1>g, <1>s, <1>k DEF MeetFirst, TypeOK
  <1>16. CASE MeetChanged
    BY <1>16, <1>g, <1>s DEF MeetChanged, TypeOK
  <1>17. CASE MeetUnverified
    BY <1>17, <1>g, <1>s DEF MeetUnverified, TypeOK
  <1>18. CASE SaveTrust
    <2>1. trust' \in OnDisk
      BY <1>18 DEF SaveTrust, TypeOK, OnDisk, Pair
    <2> QED
      BY <1>18, <2>1, <1>g, <1>s DEF SaveTrust, VerifyMet, TypeOK
  <1>19. CASE SaveTrustFails
    BY <1>19, <1>g, <1>s, <1>d DEF SaveTrustFails, VerifyMet, TypeOK
  <1>20. CASE StartAborts
    BY <1>20, <1>g, <1>s, FaultsAssumption DEF StartAborts, TypeOK
  <1>21. CASE UNCHANGED vars
    BY <1>21 DEF vars, TypeOK
  <1> QED
    BY <1>1, <1>2, <1>3, <1>4, <1>5, <1>6, <1>7, <1>8, <1>9, <1>10, <1>11, <1>12,
       <1>13, <1>14, <1>15, <1>16, <1>17, <1>18, <1>19, <1>20, <1>21 DEF Next, Steps

(* What a step of one owner leaves alone stays true of the other.          *)
LEMMA OtherOwner ==
  ASSUME NEW x \in Owners, Disk(x), Stage(x), found' = found,
         file'[x] = file[x], proc'[x] = proc[x], first'[x] = first[x],
         faults'[x] = faults[x]
  PROVE  Disk(x)' /\ Stage(x)'
  BY DEF Disk, Stage, At, TornFile, Parted, Leftover

(* A start that reads a whole pair finds the pair the owner is known by,   *)
(* and one that cannot finds an empty file.                                *)
LEMMA LoadKeeps ==
  ASSUME TypeOK, NEW o \in Owners, NEW f \in File, NEW k \in Nat,
         file' = [file EXCEPT ![o] = f], f.public = file[o].public, f.pass # "none",
         f.private = k, f.sealed, f.public # NoKey, Disk(o), LoadPublic(o, k),
         first[o] # NoPair => k = first[o].key,
         f.public \in Nat => k = f.public \/ Parted(o),
         found' = found, faults' = faults
  PROVE  Disk(o)' /\ Stage(o)'
  <1> file'[o] = f
    BY DEF TypeOK
  <1>k. NoPair.key = NoKey /\ NoPair.public = NoKey
    BY DEF NoPair
  <1>1. CASE f.public = Torn
    <2>1. first' = first /\ proc'[o] = [Off EXCEPT !.at = "failed"]
      BY <1>1 DEF LoadPublic, Raises, TypeOK
    <2>2. first[o] = NoPair
      BY <1>1, KeyAssumption DEF Disk
    <2>3. proc'[o].at = "failed"
      BY <2>1 DEF Off
    <2>4. Disk(o)'
      BY <1>1, <1>k, <2>1, <2>2, KeyAssumption DEF Disk, Leftover
    <2>5. Stage(o)'
      BY <1>1, <2>3 DEF Stage, At, TornFile, Loaded, Refusals
    <2> QED
      BY <2>4, <2>5
  <1>2. CASE f.public # Torn
    <2>1. f.public \in Nat
      BY <1>2 DEF File, OnDisk
    <2>2. /\ first'[o] = [key |-> k, public |-> f.public]
          /\ proc'[o] = [at |-> "up", key |-> k, public |-> f.public]
      <3>1. ComesUp(o, k, f.public)
        BY <1>2 DEF LoadPublic
      <3>2. first[o] = NoPair \/ first[o] = [key |-> k, public |-> f.public]
        <4>1. first[o] \in Pair
          BY DEF TypeOK
        <4>2. CASE first[o] # NoPair
          <5>1. first[o].key = k /\ first[o].public = f.public
            BY <4>2 DEF Disk
          <5> QED
            BY <4>1, <5>1 DEF Pair
        <4> QED
          BY <4>2
      <3>3. /\ first'[o] = IF first[o] = NoPair
                           THEN [key |-> k, public |-> f.public] ELSE first[o]
            /\ proc'[o] = [at |-> "up", key |-> k, public |-> f.public]
        BY <3>1 DEF ComesUp, TypeOK
      <3> QED
        BY <3>2, <3>3
    <2>3. first'[o] # NoPair /\ first'[o].key = k /\ first'[o].public = f.public
      BY <2>1, <2>2, <1>k, KeyAssumption
    <2>4. Parted(o) => Parted(o)'
      BY DEF Parted
    <2>5. found[o] = "pair" => first'[o] = first[o]
      BY <2>2, <2>3, <1>k, KeyAssumption DEF Disk, LoadPublic, ComesUp, Raises, TypeOK
    <2>6. Disk(o)'
      BY <2>1, <2>3, <2>4, <2>5, KeyAssumption DEF Disk, Leftover
    <2>7. Stage(o)'
      BY <2>2, <2>3 DEF Stage, At, Loaded, Refusals
    <2> QED
      BY <2>6, <2>7
  <1> QED
    BY <1>1, <1>2

(* Every step of an owner keeps what its own files and its own stage say.  *)
LEMMA OwnStep ==
  ASSUME TypeOK, TypeOK', NEW o \in Owners, Disk(o), Stage(o),
         Start(o) \/ Steps(o) \/ Ends(o) \/ Dies(o) \/ WriteRaises(o)
  PROVE  Disk(o)' /\ Stage(o)'
  <1> USE KeyAssumption DEF At
  <1>t. /\ file[o] \in File /\ proc[o] \in Proc /\ first[o] \in Pair
        /\ drawn[o] \in Nat /\ faults[o] \in Nat /\ faults'[o] \in Nat
    BY DEF TypeOK
  <1>h. found' = found /\ faults'[o] \in {faults[o], faults[o] + 1}
    BY DEF Start, Steps, WritePassphrase, Load, LoadRaises, Migrate, WriteMigrated,
       Generate, WritePrivate, OpenPublic, WritePublic, Ends, Dies, WriteRaises, TypeOK
  <1>p. /\ Parted(o) /\ file'[o].public = file[o].public => Parted(o)'
        /\ Leftover(o) /\ file'[o].public = file[o].public => Leftover(o)'
    BY <1>h, <1>t DEF Parted, Leftover
  <1>r. ASSUME Raises(o) PROVE proc'[o].at = "failed"
    BY <1>r DEF Raises, TypeOK, Off
  (* A step that leaves the files and the history alone, from any stage but *)
  (* the one between the two files.                                         *)
  <1>d. ASSUME first' = first, file' = file, ~At(o, "half") PROVE Disk(o)'
    BY <1>d, <1>h, <1>p DEF Disk
  <1>1. CASE Start(o)
    <2>1. first' = first
      BY <1>1 DEF Start
    <2>2. CASE file[o].pass = "none"
      <3>1. file'[o] = [file[o] EXCEPT !.pass = "torn"]
        BY <1>1, <2>2 DEF Start, TypeOK
      <3>2. /\ file'[o].private = file[o].private /\ file'[o].sealed = file[o].sealed
            /\ file'[o].public = file[o].public /\ file'[o].pass = "torn"
        BY <1>t, <3>1 DEF File
      <3>3. proc'[o] = [proc[o] EXCEPT !.at = "passphrase"]
        BY <1>1, <2>2 DEF Start, Goes, TypeOK
      <3>4. proc'[o].at = "passphrase"
        BY <1>t, <3>3 DEF Proc
      <3>5. Disk(o)'
        BY <1>1, <1>h, <1>p, <2>1, <3>2 DEF Disk, Start
      <3> QED
        BY <3>2, <3>4, <3>5 DEF Stage, Loaded, Refusals
    <2>3. CASE file[o].pass # "none"
      <3>1. proc'[o] = [proc[o] EXCEPT !.at = "keys"] /\ file' = file
        BY <1>1, <2>3 DEF Start, Goes, TypeOK
      <3>2. proc'[o].at = "keys"
        BY <1>t, <3>1 DEF Proc
      <3>3. Disk(o)'
        BY <1>1, <1>d, <2>1, <3>1 DEF Start
      <3> QED
        BY <2>3, <3>1, <3>2, <3>3 DEF Stage, Loaded, Refusals
    <2> QED
      BY <2>2, <2>3
  <1>2. CASE WritePassphrase(o)
    <2>1. file'[o] = [file[o] EXCEPT !.pass = "set"]
      BY <1>2 DEF WritePassphrase, TypeOK
    <2>2. /\ file'[o].private = file[o].private /\ file'[o].sealed = file[o].sealed
          /\ file'[o].public = file[o].public /\ file'[o].pass = "set"
      BY <1>t, <2>1 DEF File
    <2>3. proc'[o] = [proc[o] EXCEPT !.at = "keys"] /\ first' = first
      BY <1>2 DEF WritePassphrase, Goes, TypeOK
    <2>4. proc'[o].at = "keys"
      BY <1>t, <2>3 DEF Proc
    <2>5. Disk(o)'
      BY <1>2, <1>h, <1>p, <2>2, <2>3 DEF Disk, WritePassphrase
    <2> QED
      BY <2>2, <2>4, <2>5 DEF Stage, Loaded, Refusals
  <1>3. CASE Load(o)
    <2>1. file' = [file EXCEPT ![o] = file[o]]
      BY <1>3 DEF Load, TypeOK
    <2>2. file[o].private \in Nat /\ file[o].public # NoKey
      BY <1>3, <1>t DEF Load, BothExist, File, OnDisk
    <2>3. first[o] # NoPair => file[o].private = first[o].key
      BY <1>3 DEF Load, Disk
    <2>4. file[o].public \in Nat => file[o].private = file[o].public \/ Parted(o)
      BY <1>3, <2>2 DEF Load, Disk
    <2>5. file[o].pass # "none" /\ file[o].sealed /\ LoadPublic(o, file[o].private)
      BY <1>3 DEF Load
    <2>6. faults' = faults
      BY <1>3 DEF Load
    <2> QED
      BY <1>t, <1>h, <2>1, <2>2, <2>3, <2>4, <2>5, <2>6, LoadKeeps
  <1>4. CASE LoadRaises(o)
    <2>1. proc'[o].at = "failed" /\ file' = file /\ first' = first
      BY <1>4, <1>r DEF LoadRaises
    <2>2. TornFile(o)' /\ file[o].pass # "none"
      BY <1>4, <2>1 DEF LoadRaises, TornFile, Stage
    <2> QED
      BY <1>4, <1>d, <2>1, <2>2 DEF LoadRaises, Stage, Loaded, Refusals
  <1>5. CASE Migrate(o)
    <2>1. file[o].private \in Nat /\ first[o] # NoPair /\ file[o].private = first[o].key
      BY <1>5, <1>t DEF Migrate, BothExist, File, OnDisk, Disk
    <2>2. file'[o] = [file[o] EXCEPT !.private = Torn]
      BY <1>5 DEF Migrate, TypeOK
    <2>3. proc'[o] = [proc[o] EXCEPT !.at = "migrate", !.key = file[o].private]
      BY <1>5 DEF Migrate, TypeOK
    <2>4. /\ file'[o].private = Torn /\ file'[o].public = file[o].public
          /\ file'[o].pass = file[o].pass
      BY <1>t, <2>2 DEF File
    <2>5. proc'[o].at = "migrate" /\ proc'[o].key = file[o].private
      BY <1>t, <2>3 DEF Proc
    <2>6. first' = first /\ file[o].pass = "set"
      BY <1>5 DEF Migrate
    <2>7. Disk(o)'
      BY <1>h, <1>p, <2>1, <2>4, <2>6 DEF Disk
    <2> QED
      BY <2>1, <2>4, <2>5, <2>6, <2>7 DEF Stage, Loaded, Refusals
  <1>6. CASE WriteMigrated(o)
    <2> DEFINE f == [file[o] EXCEPT !.private = proc[o].key, !.sealed = TRUE]
    <2>1. first[o] # NoPair /\ proc[o].key = first[o].key /\ file[o].pass # "none"
      BY <1>6 DEF WriteMigrated, Stage
    <2>2. /\ proc[o].key \in Nat /\ file[o].public = first[o].public
          /\ file[o].public # NoKey
          /\ proc[o].key = file[o].public \/ Parted(o)
      BY <2>1 DEF Disk
    <2>3. f \in File
      BY <1>t, <2>2, FileWrites DEF OnDisk
    <2>4. file' = [file EXCEPT ![o] = f]
      BY <1>6 DEF WriteMigrated, TypeOK
    <2>5. /\ f.public = file[o].public /\ f.pass = file[o].pass
          /\ f.private = proc[o].key /\ f.sealed
      BY <1>t DEF File
    <2>6. LoadPublic(o, proc[o].key) /\ faults' = faults
      BY <1>6 DEF WriteMigrated
    <2> HIDE DEF f
    <2> QED
      BY <1>h, <2>1, <2>2, <2>3, <2>4, <2>5, <2>6, LoadKeeps
  <1>7. CASE Generate(o)
    <2>0. first' = first /\ file[o].pass # "none"
      BY <1>7 DEF Generate, Stage
    <2>1. CASE file[o].pass = "torn"
      <3>1. proc'[o].at = "failed" /\ file' = file
        BY <1>7, <1>r, <2>1 DEF Generate
      <3> QED
        BY <1>7, <1>d, <2>0, <2>1, <3>1
           DEF Generate, Stage, TornFile, Loaded, Refusals
    <2>2. CASE file[o].pass = "set"
      <3>1. first[o] = NoPair /\ Leftover(o)
        BY <1>7 DEF Generate, BothExist, Disk, Leftover
      <3>2. file'[o] = [file[o] EXCEPT !.private = Torn]
        BY <1>7, <2>2 DEF Generate, TypeOK
      <3>3. proc'[o] = [proc[o] EXCEPT !.at = "private", !.key = drawn[o] + 1]
        BY <1>7, <2>2 DEF Generate, TypeOK
      <3>4. /\ file'[o].private = Torn /\ file'[o].public = file[o].public
            /\ file'[o].pass = "set"
        BY <1>t, <2>2, <3>2 DEF File
      <3>5. proc'[o].at = "private" /\ proc'[o].key \in Nat
        BY <1>t, <3>3 DEF Proc
      <3>6. Disk(o)'
        BY <1>h, <1>p, <2>0, <3>1, <3>4 DEF Disk
      <3> QED
        BY <1>p, <2>0, <3>1, <3>4, <3>5, <3>6 DEF Stage, Loaded, Refusals
    <2> QED
      BY <1>7, <2>1, <2>2 DEF Generate
  <1>8. CASE WritePrivate(o)
    <2>1. file'[o] = [file[o] EXCEPT !.private = proc[o].key, !.sealed = TRUE]
      BY <1>8 DEF WritePrivate, TypeOK
    <2>2. proc'[o] = [proc[o] EXCEPT !.at = "half"] /\ first' = first
      BY <1>8 DEF WritePrivate, Goes, TypeOK
    <2>3. /\ file'[o].private = proc[o].key /\ file'[o].sealed
          /\ file'[o].public = file[o].public /\ file'[o].pass = file[o].pass
      BY <1>t, <2>1 DEF File
    <2>4. proc'[o].at = "half" /\ proc'[o].key = proc[o].key
      BY <1>t, <2>2 DEF Proc
    <2>5. /\ proc[o].key \in Nat /\ Leftover(o)' /\ first[o] = NoPair
          /\ file[o].pass # "none"
      BY <1>8, <1>p, <2>3 DEF WritePrivate, Stage
    <2>6. Disk(o)'
      BY <1>h, <2>2, <2>3, <2>4, <2>5 DEF Disk
    <2> QED
      BY <2>2, <2>3, <2>4, <2>5, <2>6 DEF Stage, Loaded, Refusals
  <1>9. CASE OpenPublic(o)
    <2>1. file'[o] = [file[o] EXCEPT !.public = Torn]
      BY <1>9 DEF OpenPublic, TypeOK
    <2>2. proc'[o] = [proc[o] EXCEPT !.at = "public"] /\ first' = first
      BY <1>9 DEF OpenPublic, Goes, TypeOK
    <2>3. /\ file'[o].private = file[o].private /\ file'[o].sealed = file[o].sealed
          /\ file'[o].public = Torn /\ file'[o].pass = file[o].pass
      BY <1>t, <2>1 DEF File
    <2>4. proc'[o].at = "public" /\ proc'[o].key = proc[o].key
      BY <1>t, <2>2 DEF Proc
    <2>5. /\ proc[o].key \in Nat /\ file[o].private = proc[o].key
          /\ first[o] = NoPair /\ file[o].pass # "none"
      BY <1>9 DEF OpenPublic, Stage
    <2>6. Disk(o)'
      BY <1>h, <2>2, <2>3, <2>5 DEF Disk
    <2> QED
      BY <2>2, <2>3, <2>4, <2>5, <2>6 DEF Stage, Loaded, Refusals
  <1>10. CASE WritePublic(o)
    <2> DEFINE k == proc[o].key
    <2>1. file'[o] = [file[o] EXCEPT !.public = k]
      BY <1>10 DEF WritePublic, TypeOK
    <2>2. /\ k \in Nat /\ file[o].private = k /\ first[o] = NoPair
          /\ file[o].pass # "none"
      BY <1>10 DEF WritePublic, Stage
    <2>3. /\ file'[o].private = k /\ file'[o].public = k /\ file'[o].pass # "none"
      BY <1>t, <2>1, <2>2 DEF File
    <2>4. /\ proc'[o] = [at |-> "up", key |-> k, public |-> k]
          /\ first'[o] = [key |-> k, public |-> k]
      BY <1>10, <2>2 DEF WritePublic, ComesUp, TypeOK
    <2>5. first'[o] # NoPair /\ first'[o].key = k /\ first'[o].public = k
      BY <2>2, <2>4 DEF NoPair
    <2>6. found[o] # "pair"
      BY <2>2 DEF Disk, NoPair
    <2>7. proc'[o].at = "up" /\ proc'[o].key = k /\ proc'[o].public = k
      BY <2>4
    <2> HIDE DEF k
    <2>8. Disk(o)'
      BY <1>h, <2>2, <2>3, <2>5, <2>6 DEF Disk
    <2> QED
      BY <2>3, <2>5, <2>7, <2>8 DEF Stage, Loaded
  <1>11. CASE Ends(o) \/ Dies(o)
    <2>1. proc'[o].at = "off" /\ file' = file /\ first' = first
      BY <1>11 DEF Ends, Dies, TypeOK, Off
    <2>2. Disk(o)'
      <3>1. CASE At(o, "half")
        <4>1. faults'[o] = faults[o] + 1 /\ Leftover(o)'
          BY <1>11, <1>p, <2>1, <3>1 DEF Ends, Dies, Refusals, Stage, TypeOK
        <4>2. file[o].public = NoKey \/ Parted(o)'
          BY <1>h, <1>t, <2>1, <4>1 DEF Leftover, Parted
        <4> QED
          BY <1>h, <1>p, <2>1, <4>1, <4>2 DEF Disk
      <3> QED
        BY <1>d, <2>1, <3>1
    <2> QED
      BY <2>1, <2>2 DEF Stage, Loaded, Refusals
  <1>12. CASE WriteRaises(o)
    <2>1. file' = file /\ first' = first /\ proc'[o].at = "failed"
      BY <1>12, <1>r DEF WriteRaises
    <2>2. TornFile(o)' /\ file[o].pass # "none"
      BY <1>12, <2>1 DEF WriteRaises, Stage, TornFile
    <2> QED
      BY <1>12, <1>d, <2>1, <2>2 DEF WriteRaises, Stage, Loaded, Refusals
  <1> QED
    BY <1>1, <1>2, <1>3, <1>4, <1>5, <1>6, <1>7, <1>8, <1>9, <1>10, <1>11, <1>12
       DEF Steps

(* The client's steps move its process only, and only between stages in    *)
(* which its pair is loaded.                                               *)
LEMMA ClientStep ==
  ASSUME TypeOK, Disk("client"), Stage("client"), Disk("server"), Stage("server"),
         \/ MeetUnsigned \/ MeetFirst \/ MeetChanged \/ MeetUnverified
         \/ SaveTrust \/ SaveTrustFails
  PROVE  \A x \in Owners : Disk(x)' /\ Stage(x)'
  <1>1. \E s \in Loaded : Goes("client", s)
    BY DEF MeetUnsigned, MeetFirst, MeetChanged, MeetUnverified, SaveTrust,
       SaveTrustFails, VerifyMet, Loaded, Refusals
  <1>2. PICK s \in Loaded : Goes("client", s)
    BY <1>1
  <1>3. /\ proc["client"].at \in Loaded /\ UNCHANGED <<file, first, found>>
        /\ faults'["server"] = faults["server"]
        /\ faults'["client"] \in {faults["client"], faults["client"] + 1}
    BY DEF MeetUnsigned, MeetFirst, MeetChanged, MeetUnverified, SaveTrust,
       SaveTrustFails, At, TypeOK, Owners, Loaded
  <1>4. /\ proc'["client"].at = s /\ proc'["client"].key = proc["client"].key
        /\ proc'["client"].public = proc["client"].public
    BY <1>2 DEF Goes, TypeOK, Owners, Proc
  <1>5. Disk("client")' /\ Stage("client")'
    <2>1. faults["client"] \in Nat
      BY DEF TypeOK, Owners
    <2>2. Parted("client") => Parted("client")'
      BY <1>3, <2>1 DEF Parted
    <2>3. Disk("client")'
      BY <1>3, <2>2 DEF Disk, Leftover, At, Loaded, Refusals
    <2>4. Stage("client")'
      BY <1>3, <1>4 DEF Stage, At, Loaded, Refusals
    <2> QED
      BY <2>3, <2>4
  <1>6. proc'["server"] = proc["server"]
    BY <1>2 DEF Goes, TypeOK, Owners
  <1>7. Disk("server")' /\ Stage("server")'
    BY <1>3, <1>6, OtherOwner DEF Owners
  <1> QED
    BY <1>5, <1>7 DEF Owners

(* A start never changes the pair an owner is known by, and nothing but    *)
(* the first pair it comes up with sets it.                                *)
LEMMA FirstStays ==
  ASSUME TypeOK, NEW o \in Owners,
         Start(o) \/ Steps(o) \/ Ends(o) \/ Dies(o) \/ WriteRaises(o)
  PROVE  /\ first[o] # NoPair => first' = first
         /\ \A x \in Owners : x # o => first'[x] = first[x]
  <1>1. \/ first' = first
        \/ \E k \in OnDisk, q \in OnDisk : ComesUp(o, k, q)
    BY DEF Start, Steps, WritePassphrase, Load, LoadRaises, Migrate, WriteMigrated,
       Generate, WritePrivate, OpenPublic, WritePublic, Ends, Dies, WriteRaises,
       LoadPublic, TypeOK, File, Proc, OnDisk
  <1>2. ASSUME NEW k \in OnDisk, NEW q \in OnDisk, ComesUp(o, k, q)
        PROVE  /\ first[o] # NoPair => first' = first
               /\ \A x \in Owners : x # o => first'[x] = first[x]
    BY <1>2 DEF ComesUp, TypeOK
  <1> QED
    BY <1>1, <1>2

(* The stages of a server that never comes up again.                       *)
Failing == {"off", "keys", "failed", "aborted"}

(* A server that has lost the private half of a whole pair, or the         *)
(* passphrase for it, goes on failing.                                     *)
LEMMA LossIsFinal ==
  ASSUME TypeOK, ServerLost, file["server"].pass # "none", proc["server"].at \in Failing,
         \/ Start("server") \/ Steps("server") \/ Ends("server")
         \/ Dies("server") \/ WriteRaises("server")
  PROVE  file' = file /\ proc'["server"].at \in Failing
  <1> USE DEF Failing
  <1>s. "server" \in Owners
    BY DEF Owners
  <1>1. CASE Start("server")
    BY <1>1, <1>s DEF Start, Goes, TypeOK, Proc
  <1>2. CASE LoadRaises("server")
    BY <1>2, <1>s DEF LoadRaises, Raises, TypeOK, Off
  <1>3. CASE Ends("server") \/ Dies("server")
    BY <1>3, <1>s DEF Ends, Dies, TypeOK, Off
  <1>4. CASE Generate("server")
    <2>1. Raises("server") /\ file' = file
      BY <1>4 DEF Generate, ServerLost
    <2> QED
      BY <2>1, <1>s DEF Raises, TypeOK, Off
  <1>5. /\ ~WriteRaises("server")
        /\ Steps("server") => LoadRaises("server") \/ Generate("server")
    BY KeyAssumption DEF WriteRaises, Steps, WritePassphrase, Load, Migrate,
       WriteMigrated, WritePrivate, OpenPublic, WritePublic, At, ServerLost
  <1> QED
    BY <1>1, <1>2, <1>3, <1>4, <1>5

(* The client keeps what it has saved, and refuses with reason.            *)
LEMMA TrustsStep == IInv /\ [Next]_vars => Trusts'
  <1> SUFFICES ASSUME IInv, [Next]_vars PROVE Trusts'
    OBVIOUS
  <1> USE KeyAssumption DEF IInv, Owners
  <1>1. CASE \/ Start("server") \/ Steps("server") \/ Ends("server")
             \/ Dies("server") \/ WriteRaises("server")
    <2>1. /\ trust' = trust /\ met' = met /\ proc'["client"] = proc["client"]
          /\ found' = found /\ aborts' = aborts
      BY <1>1 DEF Start, Steps, WritePassphrase, Load, LoadRaises, Migrate,
         WriteMigrated, Generate, WritePrivate, OpenPublic, WritePublic, Ends, Dies,
         WriteRaises, LoadPublic, ComesUp, Raises, Goes, TypeOK
    <2>2. first["server"] # NoPair => first' = first
      BY <1>1, FirstStays
    <2>3. faults["server"] > 0 => faults'["server"] > 0
      <3>1. faults'["server"] \in {faults["server"], faults["server"] + 1}
        BY <1>1 DEF Start, Steps, WritePassphrase, Load, LoadRaises, Migrate,
           WriteMigrated, Generate, WritePrivate, OpenPublic, WritePublic, Ends, Dies,
           WriteRaises, TypeOK
      <3>2. faults["server"] \in Nat
        BY DEF TypeOK
      <3> QED
        BY <3>1, <3>2
    <2>4. trust' \in Nat =>
             trust' = first'["server"].public \/ (trust' = 0 /\ found'["server"] # "pair")
      <3>1. CASE first["server"] = NoPair
        BY <2>1, <3>1 DEF Trusts, NoPair
      <3>2. CASE first["server"] # NoPair
        BY <2>1, <2>2, <3>2 DEF Trusts
      <3> QED
        BY <3>1, <3>2
    <2>5. At("client", "trusting")' => met' = first'["server"] /\ met' # NoPair
      BY <2>1, <2>2 DEF Trusts, At
    <2>6. proc'["server"].at # "aborted"
      BY <1>1 DEF Start, Steps, WritePassphrase, Load, LoadRaises, Migrate,
         WriteMigrated, Generate, WritePrivate, OpenPublic, WritePublic, Ends, Dies,
         WriteRaises, LoadPublic, ComesUp, Raises, Goes, TypeOK, Proc, Off
    <2>7. ASSUME At("client", "unsigned")', aborts = 0
          PROVE  /\ ServerLost' /\ file'["server"].pass # "none"
                 /\ proc'["server"].at \in Failing
      <3>1. /\ ServerLost /\ file["server"].pass # "none"
            /\ proc["server"].at \in Failing
        BY <2>1, <2>7 DEF Trusts, At, Failing
      <3>2. file' = file /\ proc'["server"].at \in Failing
        BY <1>1, <3>1, LossIsFinal
      <3> QED
        BY <3>1, <3>2 DEF ServerLost, BothExist
    <2>8. aborts \in Nat
      BY FaultsAssumption DEF TypeOK
    <2>9. At("client", "unsigned")' =>
            \/ aborts' > 0
            \/ /\ ServerLost' /\ file'["server"].pass # "none"
               /\ proc'["server"].at \in Failing
      BY <2>1, <2>7, <2>8
    <2> QED
      BY <2>1, <2>3, <2>4, <2>5, <2>6, <2>9 DEF Trusts, At, Failing
  <1>2. CASE \/ Start("client") \/ Steps("client") \/ Ends("client")
             \/ Dies("client") \/ WriteRaises("client")
    <2>1. /\ trust' = trust /\ found' = found /\ aborts' = aborts
          /\ proc'["server"] = proc["server"]
      BY <1>2 DEF Start, Steps, WritePassphrase, Load, LoadRaises, Migrate,
         WriteMigrated, Generate, WritePrivate, OpenPublic, WritePublic, Ends, Dies,
         WriteRaises, LoadPublic, ComesUp, Raises, Goes, TypeOK
    <2>2. first'["server"] = first["server"]
      BY <1>2, FirstStays
    <2>3. proc'["client"].at \notin {"trusting"} \union Refusals
      BY <1>2 DEF Start, Steps, WritePassphrase, Load, LoadRaises, Migrate,
         WriteMigrated, Generate, WritePrivate, OpenPublic, WritePublic, Ends, Dies,
         WriteRaises, LoadPublic, ComesUp, Raises, Goes, TypeOK, Proc, Off, Refusals
    <2> QED
      BY <2>1, <2>2, <2>3 DEF Trusts, At, Refusals
  <1>3. CASE StartAborts
    <2>1. /\ UNCHANGED <<file, found, first, trust, met, faults>>
          /\ aborts' = aborts + 1 /\ aborts \in Nat
      BY <1>3, FaultsAssumption DEF StartAborts, TypeOK
    <2>2. proc'["client"] = proc["client"]
      BY <1>3 DEF StartAborts, Goes, TypeOK
    <2> QED
      BY <2>1, <2>2 DEF Trusts, At
  <1>4. CASE \/ MeetUnsigned \/ MeetFirst \/ MeetChanged \/ MeetUnverified
             \/ SaveTrust \/ SaveTrustFails
    <2>1. /\ proc'["server"] = proc["server"]
          /\ UNCHANGED <<file, found, first, aborts, faults["server"]>>
      BY <1>4 DEF MeetUnsigned, MeetFirst, MeetChanged, MeetUnverified, SaveTrust,
         SaveTrustFails, VerifyMet, Goes, TypeOK
    <2>2. At("server", "up") =>
             /\ first["server"] # NoPair
             /\ [key |-> proc["server"].key, public |-> proc["server"].public]
                   = first["server"]
             /\ proc["server"].key # proc["server"].public => Parted("server")
      <3> SUFFICES ASSUME At("server", "up") PROVE
             /\ first["server"] # NoPair
             /\ [key |-> proc["server"].key, public |-> proc["server"].public]
                   = first["server"]
             /\ proc["server"].key # proc["server"].public => Parted("server")
        OBVIOUS
      <3>1. /\ first["server"] # NoPair /\ proc["server"].key = first["server"].key
            /\ proc["server"].public = first["server"].public
        BY DEF Stage, At, Loaded
      <3>2. first["server"] \in Pair
        BY DEF TypeOK
      <3>3. proc["server"].key # proc["server"].public => Parted("server")
        BY <3>1 DEF Disk
      <3> QED
        BY <3>1, <3>2, <3>3 DEF Pair
    <2>3. CASE MeetUnsigned
      <3>1. proc'["client"].at = "unsigned" /\ trust' = trust
        BY <2>3 DEF MeetUnsigned, Goes, TypeOK, Proc
      <3>2. \/ aborts > 0
            \/ ServerLost /\ file["server"].pass # "none" /\ At("server", "failed")
        BY <2>3 DEF MeetUnsigned, At, Stage, TornFile, Trusts, ServerLost, BothExist,
           Disk, Leftover
      <3> QED
        BY <2>1, <3>1, <3>2 DEF Trusts, At, ServerLost, BothExist
    <2>4. CASE MeetFirst
      <3>1. proc'["client"].at = "trusting" /\ trust' = Torn
        BY <2>4 DEF MeetFirst, Goes, TypeOK, Proc
      <3>2. met' = first["server"] /\ met' # NoPair
        BY <2>2, <2>4 DEF MeetFirst
      <3> QED
        BY <2>1, <3>1, <3>2 DEF Trusts, At
    <2>5. CASE MeetChanged
      <3>1. proc'["client"].at = "changed" /\ trust' = trust
        BY <2>5 DEF MeetChanged, Goes, TypeOK, Proc
      <3>2. trust \in Nat /\ trust # first["server"].public
        BY <2>5, <2>2 DEF MeetChanged, Stage, At, Loaded, TypeOK, OnDisk
      <3> QED
        BY <2>1, <3>1, <3>2 DEF Trusts, At
    <2>6. CASE MeetUnverified
      <3>1. proc'["client"].at = "unverified" /\ trust' = trust
        BY <2>6 DEF MeetUnverified, Goes, TypeOK, Proc
      <3>2. Parted("server")
        BY <2>6, <2>2 DEF MeetUnverified
      <3> QED
        BY <2>1, <3>1, <3>2 DEF Trusts, At, Parted
    <2>7. CASE SaveTrust \/ SaveTrustFails
      <3>1. met = first["server"] /\ met # NoPair
        BY <2>7 DEF SaveTrust, SaveTrustFails, Trusts
      <3>2. trust' \in {trust, met.public}
        BY <2>7 DEF SaveTrust, SaveTrustFails
      <3>3. proc'["client"].at = IF met.key = met.public THEN "up" ELSE "unverified"
        BY <2>7 DEF SaveTrust, SaveTrustFails, VerifyMet, Goes, TypeOK, Proc
      <3>4. met.key # met.public => Parted("server")
        BY <3>1 DEF Disk
      <3> QED
        BY <2>1, <3>1, <3>2, <3>3, <3>4 DEF Trusts, At, Parted
    <2> QED
      BY <1>4, <2>3, <2>4, <2>5, <2>6, <2>7
  <1>5. CASE UNCHANGED vars
    BY <1>5 DEF vars, Trusts, At, ServerLost, BothExist
  <1> QED
    BY <1>1, <1>2, <1>3, <1>4, <1>5 DEF Next

(* The strengthened invariant is kept by every step.                       *)
LEMMA InvStep == IInv /\ [Next]_vars => IInv'
  <1> SUFFICES ASSUME IInv, [Next]_vars PROVE IInv'
    OBVIOUS
  <1>1. TypeOK'
    BY TypeStep DEF IInv
  <1>2. ASSUME NEW x \in Owners PROVE Disk(x)' /\ Stage(x)'
    <2>1. ASSUME NEW o \in Owners,
                 Start(o) \/ Steps(o) \/ Ends(o) \/ Dies(o) \/ WriteRaises(o)
          PROVE  Disk(x)' /\ Stage(x)'
      <3>1. CASE x = o
        BY <1>1, <2>1, <3>1, OwnStep DEF IInv
      <3>2. CASE x # o
        <4>1. first'[x] = first[x]
          BY <2>1, <3>2, FirstStays DEF IInv
        <4>2. file'[x] = file[x] /\ proc'[x] = proc[x]
          BY <2>1, <3>2 DEF IInv, Start, Steps, WritePassphrase, Load, LoadRaises,
             Migrate, WriteMigrated, Generate, WritePrivate, OpenPublic, WritePublic,
             Ends, Dies, WriteRaises, LoadPublic, ComesUp, Raises, Goes, TypeOK
        <4>3. found' = found /\ faults'[x] = faults[x]
          BY <2>1, <3>2 DEF IInv, Start, Steps, WritePassphrase, Load, LoadRaises,
             Migrate, WriteMigrated, Generate, WritePrivate, OpenPublic, WritePublic,
             Ends, Dies, WriteRaises, TypeOK
        <4> QED
          BY <3>2, <4>1, <4>2, <4>3, OtherOwner DEF IInv
      <3> QED
        BY <3>1, <3>2
    <2>2. CASE \/ MeetUnsigned \/ MeetFirst \/ MeetChanged \/ MeetUnverified
               \/ SaveTrust \/ SaveTrustFails
      BY <2>2, ClientStep DEF IInv, Owners
    <2>3. CASE StartAborts
      <3>1. UNCHANGED <<file, first, found, faults>>
        BY <2>3 DEF StartAborts
      <3>2. CASE x # "server"
        <4>1. proc'[x] = proc[x]
          BY <2>3, <3>2 DEF StartAborts, Goes, IInv, TypeOK
        <4> QED
          BY <3>1, <4>1, OtherOwner DEF IInv
      <3>3. CASE x = "server"
        <4>1. proc[x].at = "off" /\ proc'[x].at = "aborted"
          BY <2>3, <3>3 DEF StartAborts, Goes, At, IInv, TypeOK, Proc
        <4>2. Disk(x)'
          BY <3>1, <4>1 DEF IInv, Disk, Leftover, Parted, At
        <4>3. Stage(x)'
          BY <3>1, <4>1 DEF Stage, At, Loaded, Refusals
        <4> QED
          BY <4>2, <4>3
      <3> QED
        BY <3>2, <3>3
    <2>4. CASE UNCHANGED vars
      BY <2>4, OtherOwner DEF vars, IInv
    <2> QED
      BY <2>1, <2>2, <2>3, <2>4 DEF Next
  <1>3. Trusts'
    BY TrustsStep
  <1> QED
    BY <1>1, <1>2, <1>3 DEF IInv

(* What the stages and the files say holds in every reachable state.       *)
THEOREM Invariant == Spec => []IInv
  BY InitInv, InvStep, PTL DEF Spec

(* Type correctness of the owners' files, processes and trust store, for   *)
(* any number of deaths and failed writes (crypto_service.py of the server,*)
(* key_store.py and trust_store.py of the client).                         *)
THEOREM TypeCorrect == Spec => []TypeOK
  <1>1. IInv => TypeOK
    BY DEF IInv
  <1> QED
    BY <1>1, Invariant, PTL

(* The private and the public key that ensure_server_keys and              *)
(* load_or_create_keys return belong together, unless a first start over a *)
(* public key alone died between writing the one and the other.            *)
THEOREM LoadedPairsMatch == Spec => []PairMatches
  <1>1. IInv => PairMatches
    BY DEF IInv, PairMatches, Stage, Disk, Parted
  <1> QED
    BY <1>1, Invariant, PTL

(* No death, failed write or migration changes the pair that an owner has  *)
(* once come up with, or with which an earlier version left it.            *)
THEOREM IdentitiesAreKept == Spec => []IdentityKept
  <1>1. ASSUME IInv, NEW o \in Owners, proc[o].at \in Loaded
        PROVE  [key |-> proc[o].key, public |-> proc[o].public] = first[o]
    <2>1. first[o] \in Pair
      BY <1>1 DEF IInv, TypeOK
    <2>2. proc[o].key = first[o].key /\ proc[o].public = first[o].public
      BY <1>1 DEF IInv, Stage
    <2> QED
      BY <2>1, <2>2 DEF Pair
  <1>2. IInv => IdentityKept
    BY <1>1 DEF IdentityKept
  <1> QED
    BY <1>2, Invariant, PTL

(* The fingerprint the client saved stays its server's, and each of its    *)
(* three refusals has the cause it is there for, or a lost private key, a  *)
(* start that raised, or a death between two files that explains it.       *)
THEOREM SecurityErrorsAreJustified == Spec => []SecurityErrorsJustified
  <1>1. ASSUME IInv, At("server", "up"), trust \in Nat
        PROVE  trust = proc["server"].public \/ (trust = 0 /\ found["server"] # "pair")
    <2>1. proc["server"].public = first["server"].public
      BY <1>1 DEF IInv, Stage, At, Loaded, Owners
    <2> QED
      BY <1>1, <2>1 DEF IInv, Trusts
  <1>2. IInv => SecurityErrorsJustified
    BY <1>1 DEF IInv, SecurityErrorsJustified, Trusts
  <1> QED
    BY <1>2, Invariant, PTL

(* A start raises only over an empty file.                                 *)
THEOREM StartsFailOnlyTorn == Spec => []FailsOnlyTorn
  <1>1. IInv => FailsOnlyTorn
    BY DEF IInv, FailsOnlyTorn, Stage
  <1> QED
    BY <1>1, Invariant, PTL

=============================================================================
