------------------------------ MODULE KeyPair ------------------------------
(***************************************************************************)
(* The Secure Boot signing identity of a directory: secureboot-key.pem and *)
(* secureboot-cert.pem (internal/secureboot/keys.go), as cnimbus           *)
(* build-disk --secureboot (LoadOrGenerate) and cnimbus keygen             *)
(* --secureboot (cmd/cnimbus/keygen.go) read and write them.  A key and a  *)
(* certificate are the number of the pair they were generated as; 0 is a   *)
(* file that is not there.  Each file is replaced by one rename            *)
(* (atomicWriteFile), the two of a pair by two.                            *)
(***************************************************************************)
EXTENDS Integers

CONSTANTS
    Builds,      \* processes that run cnimbus build-disk
    Keygens,     \* processes that run cnimbus keygen --secureboot
    MaxPairs     \* bound: pairs that are ever generated

Procs == Builds \cup Keygens

ASSUME ProcsAssumption == Builds \cap Keygens = {}
ASSUME BoundAssumption == MaxPairs \in Nat

VARIABLES
    keyFile, certFile,  \* the two files
    fresh,              \* pairs generated so far
    kstep,              \* where each process is in LoadOrGenerate
    mem,                \* the pair each process holds
    mishaps             \* history: what nothing in the code rules out

keyVars == <<keyFile, certFile, fresh, kstep, mem, mishaps>>

KeySteps == {"off", "stat", "loadkey", "loadcert", "generate", "savekey",
             "savecert", "ready", "failed"}
Busy     == KeySteps \ {"off", "ready", "failed"}
NoPair   == [key |-> 0, cert |-> 0]

\* "overlap": two processes were between LoadDefault and Save at a time, as no
\* lock is taken.  "unread": keygen could not read a complete pair, as it takes
\* every error of LoadDefault for the absence of one.
Mishaps == {"overlap", "unread"}

KeyTypeOK ==
    /\ keyFile \in 0..MaxPairs /\ certFile \in 0..MaxPairs /\ fresh \in 0..MaxPairs
    /\ kstep \in [Procs -> KeySteps]
    /\ mem \in [Procs -> [key : 0..MaxPairs, cert : 0..MaxPairs]]
    /\ mishaps \subseteq Mishaps

KeyInit ==
    /\ keyFile = 0 /\ certFile = 0 /\ fresh = 0
    /\ kstep = [p \in Procs |-> "off"]
    /\ mem = [p \in Procs |-> NoPair]
    /\ mishaps = {}

----------------------------------------------------------------------------
Enter(p) ==
    /\ kstep[p] \in KeySteps \ Busy
    /\ kstep' = [kstep EXCEPT ![p] = "stat"]
    /\ mem' = [mem EXCEPT ![p] = NoPair]
    /\ mishaps' = mishaps \cup (IF \E q \in Procs : kstep[q] \in Busy
                               THEN {"overlap"} ELSE {})
    /\ UNCHANGED <<keyFile, certFile, fresh>>

\* A mutant of Stat: a pair of which one file is missing counts as no pair.
StatEither(p) ==
    /\ kstep[p] = "stat"
    /\ kstep' = [kstep EXCEPT ![p] = IF keyFile = 0 \/ certFile = 0
                                     THEN "generate" ELSE "loadkey"]
    /\ UNCHANGED <<keyFile, certFile, fresh, mem, mishaps>>

\* LoadDefault: only if neither file is there is there no pair to load.
Stat(p) ==
    /\ kstep[p] = "stat"
    /\ kstep' = [kstep EXCEPT ![p] = IF keyFile = 0 /\ certFile = 0
                                     THEN "generate" ELSE "loadkey"]
    /\ UNCHANGED <<keyFile, certFile, fresh, mem, mishaps>>

\* A mutant of NotLoaded: build-disk generates too.
NotLoadedBuild(p) == "generate"

\* What a pair that does not load means: build-disk reports it, keygen takes it
\* for the absence of a pair.
NotLoaded(p) == IF p \in Builds THEN "failed" ELSE "generate"

\* Reading a file, or parsing what is in it, may always fail.
LoadFails(p) ==
    /\ kstep' = [kstep EXCEPT ![p] = NotLoaded(p)]
    /\ mishaps' = mishaps \cup (IF p \in Keygens /\ keyFile # 0 /\ certFile # 0
                               THEN {"unread"} ELSE {})
    /\ UNCHANGED mem

LoadKey(p) ==
    /\ kstep[p] = "loadkey"
    /\ \/ /\ keyFile # 0
          /\ kstep' = [kstep EXCEPT ![p] = "loadcert"]
          /\ mem' = [mem EXCEPT ![p].key = keyFile]
          /\ UNCHANGED mishaps
       \/ LoadFails(p)
    /\ UNCHANGED <<keyFile, certFile, fresh>>

LoadCert(p) ==
    /\ kstep[p] = "loadcert"
    /\ \/ /\ certFile # 0
          /\ kstep' = [kstep EXCEPT ![p] = IF p \in Builds THEN "ready" ELSE "failed"]
          /\ mem' = [mem EXCEPT ![p].cert = certFile]
          /\ UNCHANGED mishaps
       \/ LoadFails(p)
    /\ UNCHANGED <<keyFile, certFile, fresh>>

Generate(p) ==
    /\ kstep[p] = "generate"
    /\ fresh < MaxPairs
    /\ fresh' = fresh + 1
    /\ mem' = [mem EXCEPT ![p] = [key |-> fresh + 1, cert |-> fresh + 1]]
    /\ kstep' = [kstep EXCEPT ![p] = "savekey"]
    /\ UNCHANGED <<keyFile, certFile, mishaps>>

\* Save
SaveKey(p) ==
    /\ kstep[p] = "savekey"
    /\ keyFile' = mem[p].key
    /\ kstep' = [kstep EXCEPT ![p] = "savecert"]
    /\ UNCHANGED <<certFile, fresh, mem, mishaps>>

SaveCert(p) ==
    /\ kstep[p] = "savecert"
    /\ certFile' = mem[p].cert
    /\ kstep' = [kstep EXCEPT ![p] = "ready"]
    /\ UNCHANGED <<keyFile, fresh, mem, mishaps>>

\* Generating or writing a file fails: what is on disk stays.
KeyFail(p) ==
    /\ kstep[p] \in {"generate", "savekey", "savecert"}
    /\ kstep' = [kstep EXCEPT ![p] = "failed"]
    /\ UNCHANGED <<keyFile, certFile, fresh, mem, mishaps>>

KeyStep(p) == Stat(p) \/ LoadKey(p) \/ LoadCert(p) \/ Generate(p) \/ SaveKey(p)
              \/ SaveCert(p) \/ KeyFail(p)

----------------------------------------------------------------------------
\* As long as no two processes have been in the key directory at once and keygen
\* could read what it found, a signing identity that is complete is never
\* replaced: not by a build, which generates one only in an empty directory, and
\* not by keygen, which refuses (build.go "reused on every later build (never
\* silently regenerated)", keygen.go "REFUSES to overwrite an existing keypair").
\* The key that a kill left without its certificate is replaced by keygen alone
\* (keys.go "a real problem LoadOrGenerate must not paper over by regenerating").
PairKept ==
    [][mishaps' = {} =>
         /\ keyFile # 0 /\ certFile # 0 => UNCHANGED <<keyFile, certFile>>
         /\ keyFile # 0 /\ keyFile' # keyFile =>
               \E g \in Keygens : kstep[g] = "savekey"]_keyVars
=============================================================================
