------------------------------- MODULE Pieces -------------------------------
(***************************************************************************)
(* Publishing pieces and resolving them: `cnimbus prepare` overwrites the  *)
(* files of an output directory in place (cmd/thunder/main.go) and then    *)
(* writes pieces.sha256 and, when given a key, pieces.sha256.sig           *)
(* (cmd/cnimbus/prepare.go), while any number of `cnimbus build-disk`      *)
(* processes resolve that directory over HTTP or as a local path           *)
(* (internal/pieces/pieces.go, Resolve), sharing one local cache.          *)
(*                                                                         *)
(* The bytes of a file are abstracted to the `prepare` run that wrote      *)
(* them, and a SHA-256 to the bytes it is the hash of.  Every access to    *)
(* the published directory and to the cache is a step of its own: other    *)
(* processes run between any two of them, and any process may be killed.   *)
(***************************************************************************)
EXTENDS Integers, FiniteSets

CONSTANTS
    Builders,         \* the build-disk processes sharing a cache directory
    Required,         \* the pieces no Set is complete without
    Versions,         \* the runs of prepare, 1..n in the order they happen
    Profile,          \* the HARDBOOT profile of each of these runs
    IsHTTP,           \* is the pieces source an http(s) URL (else a directory)
    UseCache,         \* is CacheDir set (no --no-pieces-cache)
    RequireVerified,  \* RequireVerifiedPieces (no --pieces-allow-unverified)
    PinKey,           \* is VerifyKey set (--pieces-verify-key, PIECESKEY)
    MaxFaults,        \* bound: how many reads of the source fail
    MaxResolves       \* bound: how often a build-disk is started

\* The code's Required is all three; "busybox" is handled exactly as
\* "vmlinuz" is, and an instance may leave it out.
ASSUME RequiredAssumption ==
    Required \in {{"vmlinuz", "busybox", "manifest"}, {"vmlinuz", "manifest"}}
ASSUME VersionsAssumption == Versions \subseteq Nat \ {0}
ASSUME ProfileAssumption ==
    Profile \in [Versions -> {"none", "eth", "wifi", "eth+wifi"}]
ASSUME OptionsAssumption ==
    {IsHTTP, UseCache, RequireVerified, PinKey} \subseteq BOOLEAN
ASSUME BoundsAssumption == MaxFaults \in Nat /\ MaxResolves \in Nat

VARIABLES
    pub,       \* the published directory: the content of each piece
    sums,      \* pieces.sha256: the content each listed piece must have
    sig,       \* pieces.sha256.sig: the pieces.sha256 it signs
    prep,      \* what the running prepare does next
    ver,       \* the version of the current (or else the last) prepare
    signed,    \* history: the versions whose prepare was given a signing key
    cache,     \* the cache directory's files
    tmp,       \* the cache directory's <name>.tmp files
    phase,     \* where each builder is
    at,        \* the piece a builder reads or writes
    want,      \* the `hashes` a builder fetched
    got,       \* the pieces a builder holds in memory
    hit,       \* did they come from the cache
    todo,      \* the files saveToCache has left to write
    fd,        \* the file a builder's open .tmp descriptor refers to
    dirty,     \* did another builder have that file open at the same time
    quiet,     \* history: did no prepare run since the builder began
    resolves,  \* how often a builder began
    faults     \* reads of the source that failed so far

pubVars   == <<pub, sums, sig, prep, ver, signed>>
cacheVars == <<cache, tmp>>
readVars  == <<phase, at, want, got, hit>>
saveVars  == <<todo, fd, dirty>>
auxVars   == <<resolves, faults>>
vars == <<pubVars, cacheVars, readVars, saveVars, quiet, auxVars>>

Pieces   == Required \cup {"iptables", "pieces.json", "wpa_supplicant", "firmware"}
AfterVmlinuz == IF "busybox" \in Required THEN "busybox" ELSE "manifest"
Fixed    == Required \cup {"iptables", "pieces.json"}

(***************************************************************************)
(* The content of a file is the version of the prepare run that wrote it,  *)
(* or one of four others that are no version.                              *)
(***************************************************************************)
None == 0     \* there is no such file
Cut  == -1    \* its writer has not finished (and may never)
Part == -2    \* what a failed transfer had delivered
Torn == -3    \* the interleaved output of two writers
Contents == Versions \cup {None, Cut, Part, Torn}
Nothing  == [p \in Pieces |-> None]

Resting  == {"idle", "done", "error", "mismatch", "badsig"}
Phases   == Resting \cup {"sig", "load", "fetch", "verify", "save", "write", "rename"}

HasWifi(v)     == Profile[v] \in {"wifi", "eth+wifi"}
HasFirmware(v) == Profile[v] # "none"

\* The pieces that a prepare with version v's profile writes.
Built(v) == Fixed \cup (IF HasWifi(v) THEN {"wpa_supplicant"} ELSE {})
                  \cup (IF HasFirmware(v) THEN {"firmware"} ELSE {})

TypeOK ==
    /\ pub \in [Pieces -> Contents]
    /\ sums \in [Pieces -> Contents]
    /\ sig \in [Pieces -> Contents]
    /\ prep \in Pieces \cup {"idle", "sums", "sign"}
    /\ ver \in Versions \cup {0}
    /\ signed \subseteq Versions
    /\ cache \in [Pieces -> Contents]
    /\ tmp \in [Pieces -> Contents]
    /\ phase \in [Builders -> Phases]
    /\ at \in [Builders -> Pieces]
    /\ want \in [Builders -> [Pieces -> Contents]]
    /\ got \in [Builders -> [Pieces -> Contents]]
    /\ hit \in [Builders -> BOOLEAN]
    /\ todo \in [Builders -> SUBSET Fixed]
    /\ fd \in [Builders -> {"closed", "tmp", "cache", "unlinked"}]
    /\ dirty \in [Builders -> BOOLEAN]
    /\ quiet \in [Builders -> BOOLEAN]
    /\ resolves \in 0..MaxResolves
    /\ faults \in 0..MaxFaults

Init ==
    /\ pub = Nothing /\ sums = Nothing /\ sig = Nothing
    /\ prep = "idle" /\ ver = 0 /\ signed = {}
    /\ cache = Nothing /\ tmp = Nothing
    /\ phase = [b \in Builders |-> "idle"]
    /\ at = [b \in Builders |-> "vmlinuz"]
    /\ want = [b \in Builders |-> Nothing]
    /\ got = [b \in Builders |-> Nothing]
    /\ hit = [b \in Builders |-> FALSE]
    /\ todo = [b \in Builders |-> {}]
    /\ fd = [b \in Builders |-> "closed"]
    /\ dirty = [b \in Builders |-> FALSE]
    /\ quiet = [b \in Builders |-> FALSE]
    /\ resolves = 0
    /\ faults = 0

-----------------------------------------------------------------------------
(***************************************************************************)
(* prepare: Thunder writes the pieces one after the other, each by         *)
(* truncating the file that is there, then pieces.sha256 is replaced by    *)
(* the listing of whatever the directory now holds.                        *)
(***************************************************************************)

\* The last prepare ran to its end: pieces.sha256 describes the directory.
Settled == prep = "idle" /\ sums = pub

PrepareStart ==
    /\ prep = "idle"
    /\ ver + 1 \in Versions
    /\ ver' = ver + 1
    /\ prep' = "vmlinuz"
    /\ quiet' = [b \in Builders |-> FALSE]
    /\ UNCHANGED <<pub, sums, sig, signed, cacheVars, readVars, saveVars, auxVars>>

AfterWriting(p) ==
    CASE p = "vmlinuz"        -> AfterVmlinuz
      [] p = "busybox"        -> "manifest"
      [] p = "manifest"       -> "iptables"
      [] p = "iptables"       -> IF HasWifi(ver) THEN "wpa_supplicant"
                                 ELSE IF HasFirmware(ver) THEN "firmware" ELSE "pieces.json"
      [] p = "wpa_supplicant" -> "firmware"
      [] p = "firmware"       -> "pieces.json"
      [] p = "pieces.json"    -> "sums"

PieceTruncate ==
    /\ prep \in Pieces
    /\ pub[prep] # Cut
    /\ pub' = [pub EXCEPT ![prep] = Cut]
    /\ UNCHANGED <<sums, sig, prep, ver, signed, cacheVars, readVars, saveVars, quiet, auxVars>>

PieceWrite ==
    /\ prep \in Pieces
    /\ pub[prep] = Cut
    /\ pub' = [pub EXCEPT ![prep] = ver]
    /\ prep' = AfterWriting(prep)
    /\ UNCHANGED <<sums, sig, ver, signed, cacheVars, readVars, saveVars, quiet, auxVars>>

\* With --pieces-sign-key the signature follows; without it an older
\* pieces.sha256.sig stays where it is.
WritePiecesHashes ==
    /\ prep = "sums"
    /\ sums' = pub
    /\ prep' \in {"sign", "idle"}
    /\ UNCHANGED <<pub, sig, ver, signed, cacheVars, readVars, saveVars, quiet, auxVars>>

SignPiecesHashes ==
    /\ prep = "sign"
    /\ sig' = sums
    /\ signed' = signed \cup {ver}
    /\ prep' = "idle"
    /\ UNCHANGED <<pub, sums, ver, cacheVars, readVars, saveVars, quiet, auxVars>>

PrepareKilled ==
    /\ prep # "idle"
    /\ prep' = "idle"
    /\ UNCHANGED <<pub, sums, sig, ver, signed, cacheVars, readVars, saveVars, quiet, auxVars>>

-----------------------------------------------------------------------------
(***************************************************************************)
(* Resolve: the trust decisions, then the cache, then the source.          *)
(***************************************************************************)

\* checkHash: a piece the listing does not name is refused like a mismatch.
CheckHash(hashes, p, c) == hashes[p] # None /\ hashes[p] = c

Have(b, p) == got[b][p] \notin {None, Part}

\* The process ends without a Set; what it had read goes with it.
Exit(b, how) ==
    /\ phase' = [phase EXCEPT ![b] = how]
    /\ at' = [at EXCEPT ![b] = "vmlinuz"]
    /\ want' = [want EXCEPT ![b] = Nothing]
    /\ got' = [got EXCEPT ![b] = Nothing]

\* The phase that follows once the listing h may be trusted.
Trusted(h) == IF IsHTTP /\ UseCache /\ h # Nothing THEN "load" ELSE "fetch"

FetchHashes(b) ==
    /\ phase[b] \in Resting
    /\ resolves < MaxResolves
    /\ resolves' = resolves + 1
    /\ quiet' = [quiet EXCEPT ![b] = Settled]
    /\ want' = [want EXCEPT ![b] = sums]
    /\ got' = [got EXCEPT ![b] = Nothing]
    /\ hit' = [hit EXCEPT ![b] = FALSE]
    /\ at' = [at EXCEPT ![b] = "vmlinuz"]
    /\ phase' = [phase EXCEPT ![b] =
                   IF sums = Nothing /\ IsHTTP /\ RequireVerified THEN "error"
                   ELSE IF PinKey /\ sums = Nothing THEN "badsig"
                   ELSE IF PinKey THEN "sig"
                   ELSE Trusted(sums)]
    /\ UNCHANGED <<pubVars, cacheVars, saveVars, faults>>

\* pieces.sha256 cannot be read (it is not merely absent): always fatal.
HashesFault(b) ==
    /\ phase[b] \in Resting
    /\ resolves < MaxResolves
    /\ resolves' = resolves + 1
    /\ faults < MaxFaults
    /\ faults' = faults + 1
    /\ Exit(b, "error")
    /\ UNCHANGED <<pubVars, cacheVars, hit, saveVars, quiet>>

\* Mutant: any signature file will do.
SignaturePresent(s, h) == s # Nothing

SignatureOK(s, h) == s # Nothing /\ s = h

FetchSignature(b) ==
    /\ phase[b] = "sig"
    /\ IF SignatureOK(sig, want[b])
       THEN /\ phase' = [phase EXCEPT ![b] = Trusted(want[b])]
            /\ UNCHANGED <<at, want, got>>
       ELSE Exit(b, "badsig")
    /\ UNCHANGED <<pubVars, cacheVars, hit, saveVars, quiet, auxVars>>

\* Mutant: only the required pieces' hashes are compared.
CacheMissRequiredOnly(b, p, c) ==
    \/ p \in Required /\ c = None
    \/ p = "manifest" /\ \E q \in Required :
           ~CheckHash(want[b], q, IF q = p THEN c ELSE got[b][q])

\* Mutant: a cached file only has to be there.
CacheMissAbsentOnly(b, p, c) == p \in Required /\ c = None

\* loadFromCache: a required piece must be there, and as soon as a hash is
\* compared and differs the whole entry is a miss.
CacheMiss(b, p, c) ==
    \/ p \in Required /\ c = None
    \/ p = "manifest" /\ \E q \in Required :
           ~CheckHash(want[b], q, IF q = p THEN c ELSE got[b][q])
    \/ p \notin Required /\ c # None /\ ~CheckHash(want[b], p, c)

AfterLoading(p) ==
    CASE p = "vmlinuz"  -> AfterVmlinuz
      [] p = "busybox"  -> "manifest"
      [] p = "manifest" -> "iptables"
      [] OTHER          -> "pieces.json"

\* Mutant: a cached file that does not match is an error, not a miss.
LoadFromCacheFatal(b) ==
    LET p == at[b]
        c == cache[p]
        miss == CacheMiss(b, p, c)
    IN  /\ phase[b] = "load"
        /\ got' = [got EXCEPT ![b] = IF miss THEN Nothing ELSE [@ EXCEPT ![p] = c]]
        /\ at' = [at EXCEPT ![b] = IF miss THEN "vmlinuz" ELSE AfterLoading(p)]
        /\ phase' = [phase EXCEPT ![b] = IF miss /\ c # None THEN "mismatch"
                                         ELSE IF miss THEN "fetch"
                                         ELSE IF p = "pieces.json" THEN "done" ELSE @]
        /\ hit' = [hit EXCEPT ![b] = ~miss /\ p = "pieces.json"]
        /\ UNCHANGED <<pubVars, cacheVars, want, saveVars, quiet, auxVars>>

LoadFromCache(b) ==
    LET p == at[b]
        c == cache[p]
        miss == CacheMiss(b, p, c)
    IN  /\ phase[b] = "load"
        /\ got' = [got EXCEPT ![b] = IF miss THEN Nothing ELSE [@ EXCEPT ![p] = c]]
        /\ at' = [at EXCEPT ![b] = IF miss THEN "vmlinuz" ELSE AfterLoading(p)]
        /\ phase' = [phase EXCEPT ![b] = IF miss THEN "fetch"
                                         ELSE IF p = "pieces.json" THEN "done" ELSE @]
        /\ hit' = [hit EXCEPT ![b] = ~miss /\ p = "pieces.json"]
        /\ UNCHANGED <<pubVars, cacheVars, want, saveVars, quiet, auxVars>>

\* What Resolve reads after p, when p was read with content c.
AfterFetching(p, c) ==
    CASE p = "vmlinuz"        -> AfterVmlinuz
      [] p = "busybox"        -> "manifest"
      [] p = "manifest"       -> "iptables"
      [] p = "iptables"       -> "pieces.json"
      [] p = "pieces.json" /\ c # None /\ HasWifi(c)     -> "wpa_supplicant"
      [] p = "pieces.json" /\ c # None /\ ~HasWifi(c) /\ HasFirmware(c) -> "firmware"
      [] p = "wpa_supplicant" -> "firmware"
      [] OTHER                -> "verify"

\* The builder goes on with content c for piece p, the end of the pieces
\* leading to the hash checks.
Proceed(b, p, c) ==
    LET next == AfterFetching(p, c)
    IN  /\ got' = [got EXCEPT ![b][p] = c]
        /\ at' = [at EXCEPT ![b] = IF next = "verify" THEN "vmlinuz" ELSE next]
        /\ phase' = [phase EXCEPT ![b] = IF next = "verify" THEN "verify" ELSE @]

\* readPiece/readOptionalPiece answered.  A truncated pieces.json does not
\* parse; a truncated busybox-manifest.tsv may or may not.
FetchPiece(b) ==
    LET p == at[b]
        c == pub[p]
    IN  /\ phase[b] = "fetch"
        /\ c # None \/ p \in {"iptables", "pieces.json", "wpa_supplicant"}
        /\ ~(p = "pieces.json" /\ c = Cut)
        /\ Proceed(b, p, c)
        /\ UNCHANGED <<pubVars, cacheVars, want, hit, saveVars, quiet, auxVars>>

FetchRefused(b) ==
    LET p == at[b]
        c == pub[p]
    IN  /\ phase[b] = "fetch"
        /\ \/ c = None /\ p \in Required \cup {"firmware"}
           \/ c = Cut  /\ p \in {"manifest", "pieces.json"}
        /\ Exit(b, "error")
        /\ UNCHANGED <<pubVars, cacheVars, hit, saveVars, quiet, auxVars>>

\* A read of the source fails: fatal, except that iptables and
\* wpa_supplicant then count as not published.  Bytes that did arrive stay
\* in the variable.
FetchFault(b) ==
    LET p == at[b]
    IN  /\ phase[b] \in {"sig", "fetch"}
        /\ faults < MaxFaults
        /\ faults' = faults + 1
        /\ IF phase[b] = "fetch" /\ p \in {"iptables", "wpa_supplicant"}
           THEN /\ \E c \in {None, Part} : Proceed(b, p, c)
                /\ UNCHANGED want
           ELSE Exit(b, "error")
        /\ UNCHANGED <<pubVars, cacheVars, hit, saveVars, quiet, resolves>>

\* Mutant: the optional pieces' hashes are not compared.
MismatchedRequired(b) == \E p \in Required : Have(b, p) /\ ~CheckHash(want[b], p, got[b][p])

Mismatched(b) == \E p \in Pieces : Have(b, p) /\ ~CheckHash(want[b], p, got[b][p])

\* The Set goes into the cache: an http(s) source whose hashes all matched.
Caching(b) == IsHTTP /\ UseCache /\ want[b] # Nothing

\* Mutant: every piece is handed to saveToCache.
VerifySavesAll(b) ==
    /\ phase[b] = "verify"
    /\ IF want[b] # Nothing /\ Mismatched(b)
       THEN Exit(b, "mismatch") /\ UNCHANGED todo
       ELSE /\ phase' = [phase EXCEPT ![b] = IF Caching(b) THEN "save" ELSE "done"]
            /\ todo' = [todo EXCEPT ![b] =
                          IF Caching(b) THEN {p \in Pieces : got[b][p] # None} ELSE {}]
            /\ UNCHANGED <<at, want, got>>
    /\ UNCHANGED <<pubVars, cacheVars, hit, fd, dirty, quiet, auxVars>>

Verify(b) ==
    /\ phase[b] = "verify"
    /\ IF want[b] # Nothing /\ Mismatched(b)
       THEN Exit(b, "mismatch") /\ UNCHANGED todo
       ELSE /\ phase' = [phase EXCEPT ![b] = IF Caching(b) THEN "save" ELSE "done"]
            /\ todo' = [todo EXCEPT ![b] =
                          IF Caching(b) THEN {p \in Fixed : got[b][p] # None} ELSE {}]
            /\ UNCHANGED <<at, want, got>>
    /\ UNCHANGED <<pubVars, cacheVars, hit, fd, dirty, quiet, auxVars>>

-----------------------------------------------------------------------------
(***************************************************************************)
(* saveToCache: for each file in map order, WriteFile <name>.tmp, then     *)
(* Rename.  Builders use the same .tmp name, so an open descriptor follows *)
(* the file it was opened on, wherever a rename of another builder puts it.*)
(***************************************************************************)
Sharing(b, p) == {c \in Builders \ {b} : at[c] = p /\ fd[c] = "tmp"}

SaveOpen(b) ==
    /\ phase[b] = "save"
    /\ \E p \in todo[b] :
         /\ at' = [at EXCEPT ![b] = p]
         /\ tmp' = [tmp EXCEPT ![p] = Cut]
         /\ dirty' = [c \in Builders |-> IF c = b THEN Sharing(b, p) # {}
                                         ELSE dirty[c] \/ c \in Sharing(b, p)]
    /\ fd' = [fd EXCEPT ![b] = "tmp"]
    /\ phase' = [phase EXCEPT ![b] = "write"]
    /\ UNCHANGED <<pubVars, cache, want, got, hit, todo, quiet, auxVars>>

SaveWrite(b) ==
    LET p == at[b]
    IN  /\ phase[b] = "write"
        /\ \E c \in {got[b][p]} \cup (IF dirty[b] THEN {Torn} ELSE {}) :
             /\ tmp' = IF fd[b] = "tmp" THEN [tmp EXCEPT ![p] = c] ELSE tmp
             /\ cache' = IF fd[b] = "cache" THEN [cache EXCEPT ![p] = c] ELSE cache
        /\ fd' = [fd EXCEPT ![b] = "closed"]
        /\ dirty' = [dirty EXCEPT ![b] = FALSE]
        /\ phase' = [phase EXCEPT ![b] = "rename"]
        /\ UNCHANGED <<pubVars, at, want, got, hit, todo, quiet, auxVars>>

\* Where an open descriptor of piece p's files points after <p>.tmp was
\* renamed over <p>.
Renamed(c, p) ==
    CASE at[c] = p /\ fd[c] = "tmp"   -> "cache"
      [] at[c] = p /\ fd[c] = "cache" -> "unlinked"
      [] OTHER                        -> fd[c]

SaveRename(b) ==
    LET p == at[b]
    IN  /\ phase[b] = "rename"
        /\ tmp[p] # None
        /\ cache' = [cache EXCEPT ![p] = tmp[p]]
        /\ tmp' = [tmp EXCEPT ![p] = None]
        /\ fd' = [c \in Builders |-> Renamed(c, p)]
        /\ todo' = [todo EXCEPT ![b] = @ \ {p}]
        /\ phase' = [phase EXCEPT ![b] = IF todo[b] \subseteq {p} THEN "done" ELSE "save"]
        /\ UNCHANGED <<pubVars, at, want, got, hit, dirty, quiet, auxVars>>

\* Any failure ends saveToCache and is ignored: a full disk, or the .tmp
\* file another builder has already renamed away.
SaveFails(b) ==
    /\ phase[b] \in {"save", "write", "rename"}
    /\ phase' = [phase EXCEPT ![b] = "done"]
    /\ fd' = [fd EXCEPT ![b] = "closed"]
    /\ dirty' = [dirty EXCEPT ![b] = FALSE]
    /\ todo' = [todo EXCEPT ![b] = {}]
    /\ UNCHANGED <<pubVars, cacheVars, at, want, got, hit, quiet, auxVars>>

BuilderKilled(b) ==
    /\ phase[b] \notin Resting
    /\ Exit(b, "idle")
    /\ fd' = [fd EXCEPT ![b] = "closed"]
    /\ dirty' = [dirty EXCEPT ![b] = FALSE]
    /\ todo' = [todo EXCEPT ![b] = {}]
    /\ quiet' = [quiet EXCEPT ![b] = FALSE]
    /\ UNCHANGED <<pubVars, cacheVars, hit, auxVars>>

-----------------------------------------------------------------------------
Prepare == PrepareStart \/ PieceTruncate \/ PieceWrite \/ WritePiecesHashes
           \/ SignPiecesHashes \/ PrepareKilled

Build(b) == FetchHashes(b) \/ HashesFault(b) \/ FetchSignature(b) \/ LoadFromCache(b)
            \/ FetchPiece(b) \/ FetchRefused(b) \/ FetchFault(b) \/ Verify(b) \/ SaveOpen(b)
            \/ SaveWrite(b) \/ SaveRename(b) \/ SaveFails(b) \/ BuilderKilled(b)

Next == Prepare \/ \E b \in Builders : Build(b)

Spec == Init /\ [][Next]_vars

-----------------------------------------------------------------------------
\* Resolve returned a Set with HashesVerified.
Verified(b) == phase[b] = "done" /\ want[b] # Nothing

\* A verified Set is the output of one prepare run, the one whose
\* pieces.sha256 this Resolve fetched: whatever other builders wrote to the
\* cache, whatever prepare overwrote or left behind half-written, and
\* whichever reads failed, no file of another run is among its files.
OneBuild ==
    \A b \in Builders : Verified(b) =>
        /\ \A p \in Required : Have(b, p)
        /\ \A p \in Pieces : Have(b, p) => got[b][p] = want[b]["vmlinuz"]

\* With --pieces-verify-key, Resolve only returns pieces of a prepare run
\* that signed them: a signature left over from an earlier signed run does
\* not vouch for a later, unsigned one.
Authentic ==
    \A b \in Builders : PinKey /\ phase[b] = "done" => want[b]["vmlinuz"] \in signed

\* A builder that found the source complete, and during whose Resolve no
\* prepare ran, is never told that a hash does not match, and what it gets
\* is what is published: a stale or damaged cache entry costs a download.
QuietSource ==
    \A b \in Builders : quiet[b] =>
        /\ phase[b] # "mismatch"
        /\ phase[b] = "done" => \A p \in Pieces : Have(b, p) => got[b][p] = pub[p]

(***************************************************************************)
(* The promise of PieceStore, over what a builder can see: the release is  *)
(* the run whose pieces.sha256 is published, an answer the files of a Set. *)
(***************************************************************************)
StatusOf(ph) == CASE ph = "idle" -> "idle"
                  [] ph = "done" -> "answered"
                  [] ph \in {"error", "mismatch", "badsig"} -> "failed"
                  [] OTHER -> "working"

\* The runs the files in a builder's Set come from.
RunsIn(b) == {got[b][p] : p \in {q \in Pieces : Have(b, q)}}

storeStatus == [b \in Builders |-> StatusOf(phase[b])]
storePicked == [b \in Builders |->
                  IF StatusOf(phase[b]) \in {"working", "answered"} THEN want[b]["vmlinuz"] ELSE 0]
storeAnswer == [b \in Builders |-> IF phase[b] = "done" THEN RunsIn(b) ELSE {}]

Store == INSTANCE PieceStore WITH
            Damaged <- {Cut, Torn},
            release <- sums["vmlinuz"],
            status  <- storeStatus,
            picked  <- storePicked,
            answer  <- storeAnswer

\* Resolve, however its reads interleave with prepare and with other
\* builders, behaves like one request that picks the published release at a
\* single moment and either fails or brings exactly that release; releases
\* only ever move forward.
StorePromise == Store!Spec

(***************************************************************************)
(* What makes these inductive: where prepare is says which pieces it has   *)
(* written, a listing is complete for its run's profile, and where a       *)
(* builder is says which pieces it has read and what it knows of them.     *)
(***************************************************************************)

\* The pieces of the running prepare that are already in place.
Written ==
    CASE prep = "busybox"        -> {"vmlinuz"}
      [] prep = "manifest"       -> Required \ {"manifest"}
      [] prep = "iptables"       -> Required
      [] prep = "wpa_supplicant" -> Required \cup {"iptables"}
      [] prep = "firmware"       -> Built(ver) \ {"firmware", "pieces.json"}
      [] prep = "pieces.json"    -> Built(ver) \ {"pieces.json"}
      [] prep \in {"sums", "sign"} -> Built(ver)
      [] OTHER                   -> {}

PrepareInv ==
    /\ \A p \in Pieces : pub[p] \in Versions \cup {None, Cut}
    /\ prep # "idle" => ver \in Versions
    /\ prep \in Pieces => prep \in Built(ver)
    /\ \A p \in Written : pub[p] = ver
    /\ sums["vmlinuz"] <= ver
    /\ prep \in Pieces \cup {"sums"} => sums["vmlinuz"] < ver
    /\ prep = "sign" => sums = pub

Complete(h) == h # Nothing => /\ h["vmlinuz"] \in Versions
                              /\ \A p \in Built(h["vmlinuz"]) : h[p] = h["vmlinuz"]

SignatureInv == sig # Nothing => sig["vmlinuz"] \in signed

\* A builder past its trust decisions, or one that has its Set.
Accepted(b) == phase[b] \notin (Resting \ {"done"}) \cup {"sig"}

Pinned(b) ==
    /\ phase[b] = "sig" => PinKey /\ got[b] = Nothing /\ at[b] = "vmlinuz"
    /\ PinKey /\ Accepted(b) => want[b]["vmlinuz"] \in signed

Matches(b, p) == CheckHash(want[b], p, got[b][p])

Loading(b) == phase[b] = "load" =>
    /\ at[b] \in Fixed
    /\ want[b] # Nothing
    /\ \A p \in {"pieces.json", "wpa_supplicant", "firmware"} : got[b][p] = None
    /\ at[b] # "pieces.json" => got[b]["iptables"] = None
    /\ at[b] = "pieces.json" => got[b]["iptables"] = None \/ Matches(b, "iptables")
    /\ at[b] \in {"iptables", "pieces.json"} => \A p \in Required : Matches(b, p)

\* The required pieces a builder that reads the source has already read.
Fetched(b) ==
    IF phase[b] = "verify" THEN Required
    ELSE CASE at[b] = "vmlinuz"  -> {}
           [] at[b] = "busybox"  -> {"vmlinuz"}
           [] at[b] = "manifest" -> Required \ {"manifest"}
           [] OTHER              -> Required

\* Piece p is one that the pieces.json the builder read asks for.
AskedFor(b, p) == got[b]["pieces.json"] \in Versions /\ p \in Built(got[b]["pieces.json"])

Fetching(b) == phase[b] \in {"fetch", "verify"} =>
    /\ \A p \in Fetched(b) : Have(b, p)
    /\ \A p \in {"wpa_supplicant", "firmware"} :
           /\ (phase[b] = "fetch" /\ at[b] = p) \/ got[b][p] # None => AskedFor(b, p)
           /\ phase[b] = "fetch" /\ at[b] \in Fixed => got[b][p] = None

Resolved(b) == want[b] # Nothing /\ phase[b] \in {"save", "write", "rename", "done"} =>
    /\ \A p \in Required : Have(b, p)
    /\ \A p \in Pieces : Have(b, p) => got[b][p] = want[b]["vmlinuz"]

\* As long as the source stays quiet, what a builder holds is what is there.
Undisturbed(b) == quiet[b] =>
    /\ Settled
    /\ phase[b] # "mismatch"
    /\ Accepted(b) \/ phase[b] = "sig" => want[b] = sums
    /\ Accepted(b) /\ phase[b] # "load" =>
           \A p \in Pieces : Have(b, p) => got[b][p] = pub[p]

BuilderOK(b) ==
    /\ Complete(want[b])
    /\ Pinned(b)
    /\ Loading(b)
    /\ Fetching(b)
    /\ Resolved(b)
    /\ Undisturbed(b)

BuilderInv == \A b \in Builders : BuilderOK(b)

IInv == TypeOK /\ PrepareInv /\ Complete(sums) /\ SignatureInv /\ BuilderInv

\* What the comments on saveToCache's caller say of a cache hit for a wifi
\* image: leaving wpa_supplicant and the firmware out of the cache costs a
\* download, so the Set still has the pieces its own pieces.json names.
HitLikeFetch ==
    \A b \in Builders : Verified(b) /\ hit[b] /\ Have(b, "pieces.json") =>
        \A p \in Built(got[b]["pieces.json"]) : p \notin Fixed => Have(b, p)
=============================================================================
