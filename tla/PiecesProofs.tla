---------------------------- MODULE PiecesProofs ----------------------------
(***************************************************************************)
(* Proofs about Pieces, for any set of builders, any sequence of prepare   *)
(* runs with any profiles, and every combination of the options.           *)
(***************************************************************************)
EXTENDS Pieces, TLAPS

USE RequiredAssumption, VersionsAssumption, ProfileAssumption, OptionsAssumption,
    BoundsAssumption
    DEF RequiredAssumption, VersionsAssumption, ProfileAssumption, OptionsAssumption,
    BoundsAssumption

USE DEF pubVars, cacheVars, readVars, saveVars, auxVars, None, Cut, Part, Torn

\* The pieces are the seven that prepare and Resolve know by name.
LEMMA PieceNames ==
    /\ Required \subseteq Fixed /\ Fixed \subseteq Pieces
    /\ AfterVmlinuz \in Required
    /\ \A v \in Versions : Fixed \subseteq Built(v) /\ Built(v) \subseteq Pieces
    /\ Nothing \in [Pieces -> Contents]
  BY DEF Fixed, Pieces, AfterVmlinuz, Built, Nothing, Contents

\* A process that ends leaves well-typed variables.
LEMMA ExitType ==
  ASSUME TypeOK, NEW b \in Builders, NEW how \in Resting, Exit(b, how)
  PROVE  /\ phase' \in [Builders -> Phases]
         /\ at' \in [Builders -> Pieces]
         /\ want' \in [Builders -> [Pieces -> Contents]]
         /\ got' \in [Builders -> [Pieces -> Contents]]
  BY PieceNames DEF Exit, TypeOK, Phases, Fixed, Pieces

\* Going on to the next piece leaves well-typed variables.
LEMMA ProceedType ==
  ASSUME TypeOK, NEW b \in Builders, NEW p \in Pieces, NEW c \in Contents,
         Proceed(b, p, c)
  PROVE  /\ phase' \in [Builders -> Phases]
         /\ at' \in [Builders -> Pieces]
         /\ got' \in [Builders -> [Pieces -> Contents]]
<1>1. AfterFetching(p, c) \in Pieces \cup {"verify"}
  BY DEF AfterFetching, AfterVmlinuz, Pieces
<1>2. "vmlinuz" \in Pieces
  BY DEF Pieces
<1> QED
  BY <1>1, <1>2 DEF Proceed, TypeOK, Phases

\* Every step preserves the type invariant.
LEMMA TypeStep ==
  ASSUME TypeOK, PrepareInv, [Next]_vars
  PROVE  TypeOK'
<1> USE DEF TypeOK
<1>1. CASE PrepareStart
  BY <1>1 DEF PrepareStart, Pieces
<1>2. CASE PieceTruncate
  BY <1>2 DEF PieceTruncate, Contents
<1>3. CASE PieceWrite
  BY <1>3 DEF PieceWrite, AfterWriting, AfterVmlinuz, Pieces, Fixed, Contents, PrepareInv
<1>4. CASE WritePiecesHashes
  BY <1>4 DEF WritePiecesHashes
<1>5. CASE SignPiecesHashes
  BY <1>5 DEF SignPiecesHashes, PrepareInv
<1>6. CASE PrepareKilled
  BY <1>6 DEF PrepareKilled
<1>7. ASSUME NEW b \in Builders, FetchHashes(b) PROVE TypeOK'
  <2> USE <1>7 DEF FetchHashes
  <2>1. quiet' \in [Builders -> BOOLEAN] /\ hit' \in [Builders -> BOOLEAN]
    BY Zenon DEF Settled
  <2>2. phase' \in [Builders -> Phases]
    BY DEF Phases, Resting, Trusted
  <2>3. /\ want' \in [Builders -> [Pieces -> Contents]]
        /\ got' \in [Builders -> [Pieces -> Contents]]
    BY PieceNames
  <2>4. at' \in [Builders -> Pieces]
    BY DEF Pieces
  <2>5. resolves' \in 0..MaxResolves
    OBVIOUS
  <2> QED
    BY <2>1, <2>2, <2>3, <2>4, <2>5
<1>8. ASSUME NEW b \in Builders, HashesFault(b) PROVE TypeOK'
  <2>1. Exit(b, "error") /\ "error" \in Resting
    BY <1>8 DEF HashesFault, Resting
  <2>2. /\ UNCHANGED <<pubVars, cacheVars, hit, saveVars, quiet>>
        /\ resolves' \in 0..MaxResolves /\ faults' \in 0..MaxFaults
    BY <1>8 DEF HashesFault
  <2> QED
    BY <2>1, <2>2, ExitType
<1>9. ASSUME NEW b \in Builders, FetchSignature(b) PROVE TypeOK'
  <2>1. CASE SignatureOK(sig, want[b])
    BY <1>9, <2>1 DEF FetchSignature, Trusted, Phases, Resting
  <2>2. CASE ~SignatureOK(sig, want[b])
    BY <1>9, <2>2, ExitType DEF FetchSignature, Resting
  <2> QED
    BY <2>1, <2>2
<1>10. ASSUME NEW b \in Builders, LoadFromCache(b) PROVE TypeOK'
  <2> USE <1>10 DEF LoadFromCache
  <2>1. hit' \in [Builders -> BOOLEAN]
    BY Zenon
  <2>2. phase' \in [Builders -> Phases]
    BY DEF Phases, Resting
  <2>3. got' \in [Builders -> [Pieces -> Contents]]
    BY PieceNames
  <2>4. at' \in [Builders -> Pieces]
    BY DEF Pieces, AfterLoading, AfterVmlinuz
  <2> QED
    BY <2>1, <2>2, <2>3, <2>4
<1>11. ASSUME NEW b \in Builders, FetchPiece(b) PROVE TypeOK'
  <2>1. at[b] \in Pieces /\ pub[at[b]] \in Contents
    OBVIOUS
  <2> QED
    BY <1>11, <2>1, ProceedType DEF FetchPiece
<1>12. ASSUME NEW b \in Builders, FetchRefused(b) PROVE TypeOK'
  <2> QED
    BY <1>12, ExitType DEF FetchRefused, Resting
<1>13. ASSUME NEW b \in Builders, FetchFault(b) PROVE TypeOK'
  <2>1. at[b] \in Pieces
    OBVIOUS
  <2>2. CASE phase[b] = "fetch" /\ at[b] \in {"iptables", "wpa_supplicant"}
    <3>1. PICK c \in {None, Part} : Proceed(b, at[b], c)
      BY <1>13, <2>2 DEF FetchFault
    <3>2. c \in Contents
      BY DEF Contents
    <3>3. UNCHANGED <<pubVars, cacheVars, hit, saveVars, quiet, resolves, want>> /\ faults' \in 0..MaxFaults
      BY <1>13, <2>2 DEF FetchFault
    <3> QED
      BY <2>1, <3>1, <3>2, <3>3, ProceedType
  <2>3. CASE ~(phase[b] = "fetch" /\ at[b] \in {"iptables", "wpa_supplicant"})
    <3>1. Exit(b, "error") /\ faults' \in 0..MaxFaults
      BY <1>13, <2>3 DEF FetchFault
    <3>2. UNCHANGED <<pubVars, cacheVars, hit, saveVars, quiet, resolves>>
      BY <1>13 DEF FetchFault
    <3>3. "error" \in Resting
      BY DEF Resting
    <3> QED
      BY <3>1, <3>2, <3>3, ExitType
  <2> QED
    BY <2>2, <2>3
<1>14. ASSUME NEW b \in Builders, Verify(b) PROVE TypeOK'
  <2>1. CASE want[b] # Nothing /\ Mismatched(b)
    BY <1>14, <2>1, ExitType DEF Verify, Resting
  <2>2. CASE ~(want[b] # Nothing /\ Mismatched(b))
    <3>1. \E ph \in {"save", "done"}, S \in SUBSET Fixed :
             phase' = [phase EXCEPT ![b] = ph] /\ todo' = [todo EXCEPT ![b] = S]
      <4> DEFINE F == {p \in Fixed : got[b][p] # None}
      <4>1. CASE Caching(b)
        <5>1. phase' = [phase EXCEPT ![b] = "save"] /\ todo' = [todo EXCEPT ![b] = F]
          BY <1>14, <2>2, <4>1, Zenon DEF Verify
        <5> QED
          BY <5>1
      <4>2. CASE ~Caching(b)
        <5>1. phase' = [phase EXCEPT ![b] = "done"] /\ todo' = [todo EXCEPT ![b] = {}]
          BY <1>14, <2>2, <4>2, Zenon DEF Verify
        <5> QED
          BY <5>1
      <4> QED
        BY <4>1, <4>2
    <3>2. phase' \in [Builders -> Phases] /\ todo' \in [Builders -> SUBSET Fixed]
      BY <3>1 DEF Phases, Resting
    <3>3. UNCHANGED <<at, want, got, pubVars, cacheVars, hit, fd, dirty, quiet, auxVars>>
      BY <1>14, <2>2, Zenon DEF Verify
    <3> QED
      BY <3>2, <3>3
  <2> QED
    BY <2>1, <2>2
<1>15. ASSUME NEW b \in Builders, SaveOpen(b) PROVE TypeOK'
  <2> USE <1>15 DEF SaveOpen
  <2>1. dirty' \in [Builders -> BOOLEAN]
    BY Zenon
  <2>2. at' \in [Builders -> Pieces] /\ tmp' \in [Pieces -> Contents]
    BY PieceNames DEF Contents
  <2>3. phase' \in [Builders -> Phases]
    BY DEF Phases
  <2> QED
    BY <2>1, <2>2, <2>3
<1>16. ASSUME NEW b \in Builders, SaveWrite(b) PROVE TypeOK'
  <2> USE <1>16 DEF SaveWrite
  <2>1. dirty' \in [Builders -> BOOLEAN]
    BY Zenon
  <2>2. \A p \in Pieces : got[b][p] \in Contents /\ Torn \in Contents
    BY DEF Contents
  <2>3. tmp' \in [Pieces -> Contents] /\ cache' \in [Pieces -> Contents]
    <3>1. PICK c \in {got[b][at[b]]} \cup (IF dirty[b] THEN {Torn} ELSE {}) :
            /\ tmp' = IF fd[b] = "tmp" THEN [tmp EXCEPT ![at[b]] = c] ELSE tmp
            /\ cache' = IF fd[b] = "cache" THEN [cache EXCEPT ![at[b]] = c] ELSE cache
      BY Zenon
    <3>2. c \in Contents
      BY <3>1, <2>2
    <3> QED
      BY <3>1, <3>2
  <2>4. phase' \in [Builders -> Phases]
    BY DEF Phases
  <2> QED
    BY <2>1, <2>3, <2>4
<1>17. ASSUME NEW b \in Builders, SaveRename(b) PROVE TypeOK'
  BY <1>17 DEF SaveRename, Renamed, Contents, Phases, Resting
<1>18. ASSUME NEW b \in Builders, SaveFails(b) PROVE TypeOK'
  BY <1>18 DEF SaveFails, Phases, Resting
<1>19. ASSUME NEW b \in Builders, BuilderKilled(b) PROVE TypeOK'
  <2> QED
    BY <1>19, ExitType DEF BuilderKilled, Resting
<1>20. CASE UNCHANGED vars
  BY <1>20 DEF vars
<1> QED
  BY <1>1, <1>2, <1>3, <1>4, <1>5, <1>6, <1>7, <1>8, <1>9, <1>10,
     <1>11, <1>12, <1>13, <1>14, <1>15, <1>16, <1>17, <1>18, <1>19, <1>20
  DEF Next, Prepare, Build

-----------------------------------------------------------------------------
\* A builder changes nothing of the published directory.
LEMMA BuildFrame ==
  ASSUME NEW b \in Builders, Build(b)
  PROVE  UNCHANGED pubVars
  BY Zenon DEF Build, FetchHashes, HashesFault, FetchSignature, LoadFromCache, FetchPiece, FetchRefused,
         FetchFault, Verify, SaveOpen, SaveWrite, SaveRename, SaveFails, BuilderKilled

\* A builder changes nothing of what another builder has read.
LEMMA OthersFrame ==
  ASSUME TypeOK, NEW b \in Builders, Build(b), NEW c \in Builders, c # b
  PROVE  /\ phase'[c] = phase[c] /\ at'[c] = at[c] /\ want'[c] = want[c]
         /\ got'[c] = got[c] /\ quiet'[c] = quiet[c]
<1> USE DEF TypeOK
<1>1. CASE FetchHashes(b)
  BY <1>1 DEF FetchHashes
<1>2. CASE FetchSignature(b)
  BY <1>2 DEF FetchSignature, Exit
<1>3. CASE LoadFromCache(b)
  BY <1>3 DEF LoadFromCache
<1>4. CASE FetchPiece(b)
  BY <1>4 DEF FetchPiece, Proceed
<1>5. CASE FetchRefused(b)
  BY <1>5 DEF FetchRefused, Exit
<1>6. CASE FetchFault(b)
  BY <1>6 DEF FetchFault, Proceed, Exit
<1>7. CASE Verify(b)
  BY <1>7 DEF Verify, Exit
<1>8. CASE SaveOpen(b)
  BY <1>8 DEF SaveOpen
<1>9. CASE SaveWrite(b)
  BY <1>9 DEF SaveWrite
<1>10. CASE SaveRename(b)
  BY <1>10 DEF SaveRename
<1>11. CASE SaveFails(b)
  BY <1>11 DEF SaveFails
<1>12. CASE BuilderKilled(b)
  BY <1>12 DEF BuilderKilled, Exit
<1>13. CASE HashesFault(b)
  BY <1>13 DEF HashesFault, Exit
<1> QED
  BY <1>1, <1>2, <1>3, <1>4, <1>5, <1>6, <1>7, <1>8, <1>9, <1>10, <1>11, <1>12, <1>13
  DEF Build

\* prepare changes nothing of what a builder has read; it only ends its quiet.
LEMMA PrepareFrame ==
  ASSUME TypeOK, Prepare
  PROVE  /\ UNCHANGED <<phase, at, want, got>>
         /\ \A b \in Builders : quiet'[b] => quiet[b] /\ prep # "idle"
         /\ signed \subseteq signed'
<1>1. CASE PrepareStart
  <2>1. \A b \in Builders : ~quiet'[b]
    BY <1>1, Zenon DEF PrepareStart
  <2> QED
    BY <1>1, <2>1 DEF PrepareStart
<1>2. CASE PieceTruncate \/ PieceWrite \/ WritePiecesHashes \/ SignPiecesHashes \/ PrepareKilled
  <2>1. prep # "idle" /\ UNCHANGED <<phase, at, want, got>> /\ signed \subseteq signed'
    BY <1>2 DEF PieceTruncate, PieceWrite, WritePiecesHashes, SignPiecesHashes, PrepareKilled,
                Pieces
  <2>2. quiet' = quiet
    BY <1>2 DEF PieceTruncate, PieceWrite, WritePiecesHashes, SignPiecesHashes, PrepareKilled
  <2> QED
    BY <2>1, <2>2
<1> QED
  BY <1>1, <1>2 DEF Prepare

-----------------------------------------------------------------------------
\* The profile decides which pieces a run writes.
LEMMA BuiltFacts ==
  ASSUME NEW v \in Versions
  PROVE  /\ Fixed \subseteq Built(v)
         /\ "wpa_supplicant" \in Built(v) <=> HasWifi(v)
         /\ "firmware" \in Built(v) <=> HasFirmware(v)
         /\ HasWifi(v) => HasFirmware(v)
  BY DEF Built, Fixed, HasWifi, HasFirmware

\* prepare keeps track of what it has written, publishes only complete
\* listings, and signs only what it has listed itself.
LEMMA PrepareStep ==
  ASSUME TypeOK, PrepareInv, Complete(sums), SignatureInv, Prepare
  PROVE  PrepareInv' /\ Complete(sums)' /\ SignatureInv'
<1> USE DEF PrepareInv, Written, TypeOK
<1>0. "vmlinuz" \in Pieces /\ "vmlinuz" \in Required /\ "manifest" \in Required
  BY DEF Pieces
<1>00. sums["vmlinuz"] \in Int /\ ver \in Int
  <2> HIDE DEF Written, PrepareInv
  <2>1. sums["vmlinuz"] \in Contents
    BY <1>0
  <2>2. \A c \in Contents : c \in Int
    BY DEF Contents
  <2> QED
    BY <2>1, <2>2
<1>1. CASE PrepareStart
  <2>1. ver' \in Versions /\ ver' = ver + 1 /\ prep' = "vmlinuz" /\ UNCHANGED <<pub, sums, sig, signed>>
    BY <1>1 DEF PrepareStart
  <2>2. "vmlinuz" \in Built(ver')
    BY <2>1, BuiltFacts, <1>0 DEF Fixed
  <2>3. sums'["vmlinuz"] < ver' /\ sums'["vmlinuz"] <= ver'
    BY <1>00, <2>1
  <2>4. Complete(sums)' /\ SignatureInv'
    BY <2>1 DEF Complete, SignatureInv
  <2>5. Written' = {}
    BY <2>1
  <2> HIDE DEF Written
  <2> QED
    BY <2>1, <2>2, <2>3, <2>4, <2>5
<1>2. CASE PieceTruncate
  <2>1. prep \notin Written
    BY <1>2, BuiltFacts DEF PieceTruncate, Pieces, Fixed
  <2>2. Complete(sums)' /\ SignatureInv'
    BY <1>2 DEF PieceTruncate, Complete, SignatureInv
  <2>3. Written' = Written /\ UNCHANGED <<prep, ver, sums>> /\ prep # "sign" /\ prep \in Pieces
    BY <1>2 DEF PieceTruncate, Pieces
  <2>4. pub' = [pub EXCEPT ![prep] = Cut]
    BY <1>2 DEF PieceTruncate
  <2>5. /\ \A p \in Pieces : pub'[p] \in Versions \cup {None, Cut}
        /\ \A p \in Written : pub'[p] = ver
    BY <2>1, <2>4
  <2> HIDE DEF Written
  <2> QED
    BY <2>2, <2>3, <2>5
<1>3. CASE PieceWrite
  <2>1. Complete(sums)' /\ SignatureInv'
    BY <1>3 DEF PieceWrite, Complete, SignatureInv
  <2>2. ver \in Versions /\ prep \in Built(ver)
    BY <1>3 DEF PieceWrite, Pieces
  <2>3. UNCHANGED <<ver, sums>> /\ prep' # "sign" /\ prep' # "idle"
    BY <1>3 DEF PieceWrite, Pieces, AfterWriting, AfterVmlinuz
  <2>4. Written' \subseteq Written \cup {prep}
    BY <1>3, <2>2, BuiltFacts DEF PieceWrite, Pieces, AfterWriting, AfterVmlinuz, Fixed, Built
  <2>5. prep' \in Pieces => prep' \in Built(ver)
    BY <1>3, <2>2, BuiltFacts DEF PieceWrite, Pieces, AfterWriting, AfterVmlinuz, Fixed
  <2>6. pub' = [pub EXCEPT ![prep] = ver] /\ prep \in Pieces
    BY <1>3 DEF PieceWrite
  <2>7. /\ \A p \in Pieces : pub'[p] \in Versions \cup {None, Cut}
        /\ \A p \in Written \cup {prep} : pub'[p] = ver
    <3> HIDE DEF Written
    <3> QED
      BY <2>2, <2>6
  <2>8. sums'["vmlinuz"] < ver' /\ sums'["vmlinuz"] <= ver'
    BY <1>0, <1>3, <2>3 DEF PieceWrite, Contents
  <2> HIDE DEF Written
  <2> QED
    BY <2>1, <2>2, <2>3, <2>4, <2>5, <2>7, <2>8
<1>4. CASE WritePiecesHashes
  <2>1. ver \in Versions /\ Written = Built(ver) /\ UNCHANGED <<pub, ver, sig, signed>> /\ sums' = pub
    BY <1>4 DEF WritePiecesHashes
  <2>2. "vmlinuz" \in Built(ver)
    BY <2>1, <1>0, BuiltFacts DEF Fixed
  <2>3. pub["vmlinuz"] = ver
    BY <2>1, <2>2
  <2>4. Complete(sums)' /\ SignatureInv'
    BY <2>1, <2>3 DEF Complete, SignatureInv
  <2>5. prep' \in {"sign", "idle"}
    BY <1>4 DEF WritePiecesHashes
  <2>6. ver \in Nat
    BY <2>1
  <2>7. Written' \subseteq Written
    BY <2>1, <2>5
  <2> QED
    BY <2>1, <2>3, <2>4, <2>5, <2>6, <2>7 DEF Pieces
<1>5. CASE SignPiecesHashes
  <2>1. ver \in Versions /\ Written = Built(ver) /\ UNCHANGED <<pub, ver, sums>> /\ sig' = sums
        /\ signed' = signed \cup {ver} /\ sums = pub /\ prep' = "idle"
    BY <1>5 DEF SignPiecesHashes
  <2>2. "vmlinuz" \in Built(ver)
    BY <2>1, <1>0, BuiltFacts DEF Fixed
  <2>3. sums["vmlinuz"] = ver
    BY <2>1, <2>2
  <2> QED
    BY <2>1, <2>3 DEF Complete, SignatureInv, Pieces
<1>6. CASE PrepareKilled
  BY <1>6 DEF PrepareKilled, Complete, SignatureInv, Pieces
<1> QED
  BY <1>1, <1>2, <1>3, <1>4, <1>5, <1>6 DEF Prepare

-----------------------------------------------------------------------------
\* A process that ended holds nothing.
LEMMA ExitOK ==
  ASSUME TypeOK, NEW b \in Builders, NEW how \in Resting \ {"done"}, Exit(b, how),
         UNCHANGED <<pubVars, quiet>>, BuilderOK(b), how = "mismatch" => ~quiet[b]
  PROVE  BuilderOK(b)'
<1>1. phase'[b] = how /\ want'[b] = Nothing /\ at'[b] = "vmlinuz" /\ got'[b] = Nothing
  BY DEF Exit, TypeOK
<1>2. ~Accepted(b)' /\ phase'[b] \notin {"sig", "load", "fetch", "verify", "save", "write", "rename", "done"}
  BY <1>1 DEF Accepted, Resting
<1>3. Complete(want[b])'
  BY <1>1 DEF Complete
<1>4. Pinned(b)' /\ Loading(b)' /\ Fetching(b)' /\ Resolved(b)'
  BY <1>2 DEF Pinned, Loading, Fetching, Resolved
<1>5. Undisturbed(b)'
  BY <1>1, <1>2 DEF Undisturbed, BuilderOK, Settled
<1> QED
  BY <1>3, <1>4, <1>5 DEF BuilderOK

\* Every piece is one of the seven.
LEMMA PieceCases ==
  ASSUME NEW p \in Pieces
  PROVE  p \in Required \/ p \in {"iptables", "pieces.json", "wpa_supplicant", "firmware"}
  BY DEF Pieces

\* A builder that starts reading the source with a trusted listing.
LEMMA StartFetchOK ==
  ASSUME NEW b \in Builders, phase'[b] = "fetch", got'[b] = Nothing, at'[b] = "vmlinuz"
  PROVE  Fetching(b)' /\ Loading(b)' /\ Resolved(b)'
  BY DEF Fetching, Loading, Resolved, Fetched, Nothing, Pieces, AskedFor

\* A builder that starts reading the cache.
LEMMA StartLoadOK ==
  ASSUME NEW b \in Builders, phase'[b] = "load", got'[b] = Nothing, at'[b] = "vmlinuz",
         want'[b] # Nothing
  PROVE  Fetching(b)' /\ Loading(b)' /\ Resolved(b)'
<1>1. at'[b] \in Fixed
  BY DEF Fixed
<1>2. \A p \in Pieces : got'[b][p] = None
  BY DEF Nothing
<1>3. {"pieces.json", "wpa_supplicant", "firmware", "iptables"} \subseteq Pieces
  BY DEF Pieces
<1> QED
  BY <1>1, <1>2, <1>3 DEF Fetching, Loading, Resolved

\* Nothing that a builder holds is had.
LEMMA HaveNothing ==
  ASSUME NEW b \in Builders, got'[b] = Nothing
  PROVE  \A p \in Pieces : ~Have(b, p)'
  BY DEF Have, Nothing

\* Fetching pieces.sha256 starts a Resolve with nothing in hand.
LEMMA FetchHashesOK ==
  ASSUME IInv, NEW b \in Builders, FetchHashes(b)
  PROVE  BuilderOK(b)'
<1> USE DEF IInv, TypeOK
<1>1. /\ want'[b] = sums /\ got'[b] = Nothing /\ at'[b] = "vmlinuz" /\ UNCHANGED pubVars
      /\ phase'[b] \in {"error", "badsig", "sig", "load", "fetch"}
      /\ phase'[b] = "sig" => PinKey
      /\ phase'[b] \in {"load", "fetch"} => ~PinKey
      /\ phase'[b] = "load" => sums # Nothing
  BY DEF FetchHashes, Trusted
<1>2. quiet'[b] => Settled
  BY Zenon DEF FetchHashes
<1> HIDE DEF IInv, TypeOK
<1>3. Complete(want[b])'
  BY <1>1 DEF IInv, Complete
<1>4. Pinned(b)'
  BY <1>1 DEF Pinned, Accepted, Resting
<1>5. Loading(b)' /\ Fetching(b)' /\ Resolved(b)'
  <2>1. CASE phase'[b] = "load"
    BY <1>1, <2>1, StartLoadOK
  <2>2. CASE phase'[b] = "fetch"
    BY <1>1, <2>2, StartFetchOK
  <2>3. CASE phase'[b] \in {"error", "badsig", "sig"}
    BY <2>3 DEF Loading, Fetching, Resolved
  <2> QED
    BY <1>1, <2>1, <2>2, <2>3
<1>6. Undisturbed(b)'
  BY <1>1, <1>2, HaveNothing DEF Undisturbed, Settled
<1> QED
  BY <1>3, <1>4, <1>5, <1>6 DEF BuilderOK

\* Only a listing that is the signed one gets past the signature check.
LEMMA FetchSignatureOK ==
  ASSUME IInv, NEW b \in Builders, FetchSignature(b)
  PROVE  BuilderOK(b)'
<1>0. BuilderOK(b) /\ phase[b] = "sig" /\ UNCHANGED <<pubVars, quiet>>
  BY DEF IInv, BuilderInv, FetchSignature
<1>1. CASE ~SignatureOK(sig, want[b])
  <2>1. Exit(b, "badsig") /\ "badsig" \in Resting \ {"done"}
    BY <1>1 DEF FetchSignature, Resting
  <2> QED
    BY <1>0, <2>1, ExitOK DEF IInv
<1>2. CASE SignatureOK(sig, want[b])
  <2>1. /\ phase'[b] \in {"load", "fetch"} /\ UNCHANGED <<at, want, got>>
        /\ phase'[b] = "load" => want[b] # Nothing
    BY <1>2 DEF FetchSignature, Trusted, IInv, TypeOK
  <2>2. PinKey /\ got[b] = Nothing /\ at[b] = "vmlinuz"
    BY <1>0 DEF BuilderOK, Pinned
  <2>3. want[b]["vmlinuz"] \in signed
    BY <1>2 DEF SignatureOK, IInv, SignatureInv
  <2>4. Complete(want[b])'
    BY <2>1, <1>0 DEF BuilderOK, Complete
  <2>5. Pinned(b)'
    BY <2>1, <2>3, <1>0 DEF Pinned
  <2>6. Loading(b)' /\ Fetching(b)' /\ Resolved(b)'
    BY <2>1, <2>2, StartLoadOK, StartFetchOK
  <2>7. Undisturbed(b)'
    BY <2>1, <2>2, <1>0, HaveNothing DEF Undisturbed, Settled, BuilderOK, Accepted, Resting
  <2> QED
    BY <2>4, <2>5, <2>6, <2>7 DEF BuilderOK
<1> QED
  BY <1>1, <1>2

\* Past the hash checks a builder keeps what it has.
LEMMA KeepOK ==
  ASSUME NEW b \in Builders, BuilderOK(b),
         phase[b] \in {"save", "write", "rename"},
         phase'[b] \in {"save", "write", "rename", "done"},
         UNCHANGED <<pubVars, quiet, want, got>>
  PROVE  BuilderOK(b)'
<1>1. Accepted(b) /\ Accepted(b)'
  BY DEF Accepted, Resting
<1> USE DEF BuilderOK
<1>2. Complete(want[b])' /\ Pinned(b)'
  BY <1>1 DEF Complete, Pinned
<1>3. Loading(b)' /\ Fetching(b)'
  BY DEF Loading, Fetching
<1>4. Resolved(b)'
  BY DEF Resolved, Have
<1>5. Undisturbed(b)'
  BY <1>1 DEF Undisturbed, Settled, Have
<1> QED
  BY <1>2, <1>3, <1>4, <1>5

\* A read of the cache either falls back to the source or adds a piece of
\* the run that the listing describes.
LEMMA LoadOK ==
  ASSUME IInv, NEW b \in Builders, LoadFromCache(b)
  PROVE  BuilderOK(b)'
<1> DEFINE p == at[b]
           c == cache[at[b]]
<1>0. /\ phase[b] = "load" /\ UNCHANGED <<pubVars, quiet, want>>
      /\ p \in Pieces /\ c \in Contents /\ got[b] \in [Pieces -> Contents]
  BY DEF LoadFromCache, IInv, TypeOK
<1>1. BuilderOK(b) /\ Accepted(b)
  BY <1>0 DEF IInv, BuilderInv, Accepted, Resting
<1>2. Complete(want[b])'
  BY <1>0, <1>1 DEF BuilderOK, Complete
<1>3. CASE CacheMiss(b, p, c)
  <2>1. phase'[b] = "fetch" /\ got'[b] = Nothing /\ at'[b] = "vmlinuz"
    BY <1>3 DEF LoadFromCache, IInv, TypeOK
  <2>2. Accepted(b)'
    BY <2>1 DEF Accepted, Resting
  <2>3. Pinned(b)'
    BY <1>0, <1>1, <2>1, <2>2 DEF BuilderOK, Pinned
  <2>4. Undisturbed(b)'
    BY <1>0, <1>1, <2>1, HaveNothing DEF BuilderOK, Undisturbed, Settled
  <2> QED
    BY <1>2, <2>1, <2>3, <2>4, StartFetchOK DEF BuilderOK
<1>4. CASE ~CacheMiss(b, p, c)
  <2>1. /\ got'[b] = [got[b] EXCEPT ![p] = c] /\ at'[b] = AfterLoading(p)
        /\ phase'[b] = IF p = "pieces.json" THEN "done" ELSE "load"
    BY <1>0, <1>4 DEF LoadFromCache, IInv, TypeOK
  <2>2. Accepted(b)'
    BY <2>1 DEF Accepted, Resting
  <2>3. Pinned(b)'
    BY <1>0, <1>1, <2>1, <2>2 DEF BuilderOK, Pinned
  <2>4. Loading(b) /\ p \in Fixed /\ want[b] # Nothing
    BY <1>0, <1>1 DEF BuilderOK, Loading
  <2>5. /\ \A q \in {"wpa_supplicant", "firmware"} : got[b][q] = None
        /\ got[b]["pieces.json"] = None
        /\ p # "pieces.json" => got[b]["iptables"] = None
        /\ p = "pieces.json" => got[b]["iptables"] = None \/ CheckHash(want[b], "iptables", got[b]["iptables"])
        /\ p \in {"iptables", "pieces.json"} => \A q \in Required : CheckHash(want[b], q, got[b][q])
    BY <1>0, <2>4 DEF Loading, Matches
  <2>6. ASSUME NEW q \in Pieces PROVE got'[b][q] = IF q = p THEN c ELSE got[b][q]
    BY <1>0, <2>1
  <2>7. {"vmlinuz", "busybox", "manifest", "iptables", "pieces.json", "wpa_supplicant", "firmware"}
           \cap Fixed \subseteq Pieces /\ Required \subseteq Pieces
        /\ {"iptables", "pieces.json", "wpa_supplicant", "firmware"} \subseteq Pieces
    BY PieceNames DEF Pieces
  <2>8. Required \cap {"iptables", "pieces.json", "wpa_supplicant", "firmware"} = {}
    OBVIOUS
  <2>9. /\ \A q \in {"wpa_supplicant", "firmware"} : got'[b][q] = None
        /\ p \in {"manifest", "iptables", "pieces.json"} =>
             \A q \in Required : CheckHash(want[b], q, got'[b][q])
        /\ p \in {"iptables", "pieces.json"} =>
             got'[b]["iptables"] = None \/ CheckHash(want[b], "iptables", got'[b]["iptables"])
        /\ p = "pieces.json" =>
             got'[b]["pieces.json"] = None \/ CheckHash(want[b], "pieces.json", got'[b]["pieces.json"])
    <3>1. /\ p = "manifest" =>
               \A q \in Required : CheckHash(want[b], q, IF q = p THEN c ELSE got[b][q])
          /\ p \notin Required => c = None \/ CheckHash(want[b], p, c)
      BY <1>4, Zenon DEF CacheMiss
    <3>2. \A q \in {"wpa_supplicant", "firmware"} : got'[b][q] = None
      BY <2>4, <2>5, <2>6, <2>7 DEF Fixed
    <3>3. p \in {"manifest", "iptables", "pieces.json"} =>
             \A q \in Required : CheckHash(want[b], q, got'[b][q])
      BY <2>5, <2>6, <2>7, <2>8, <3>1
    <3>4. /\ p \in {"iptables", "pieces.json"} =>
             got'[b]["iptables"] = None \/ CheckHash(want[b], "iptables", got'[b]["iptables"])
          /\ p = "pieces.json" =>
             got'[b]["pieces.json"] = None \/ CheckHash(want[b], "pieces.json", got'[b]["pieces.json"])
      BY <2>5, <2>6, <2>7, <2>8, <3>1
    <3> QED
      BY <3>2, <3>3, <3>4
  <2>10. CASE p = "pieces.json"
    <3>1. phase'[b] = "done"
      BY <2>1, <2>10
    <3>2. ASSUME NEW q \in Pieces, Have(b, q)' PROVE CheckHash(want[b], q, got'[b][q]) /\ q \in Fixed
      BY <2>9, <2>10, <3>2, PieceCases DEF Have, Fixed
    <3>3. ASSUME NEW q \in Required PROVE Have(b, q)'
      <4>1. CheckHash(want[b], q, got'[b][q])
        BY <2>9, <2>10
      <4>2. Complete(want[b]) /\ q \in Fixed
        BY <1>1, PieceNames DEF BuilderOK
      <4>3. want[b][q] \in Versions
        BY <2>4, <4>2, BuiltFacts DEF Complete
      <4> QED
        BY <4>1, <4>3 DEF CheckHash, Have
    <3>4. Resolved(b)'
      <4>1. ASSUME NEW q \in Pieces, Have(b, q)' PROVE got'[b][q] = want[b]["vmlinuz"]
        <5>1. CheckHash(want[b], q, got'[b][q]) /\ q \in Fixed
          BY <3>2, <4>1
        <5>2. want[b]["vmlinuz"] \in Versions /\ want[b][q] = want[b]["vmlinuz"]
          BY <1>1, <2>4, <5>1, BuiltFacts DEF BuilderOK, Complete
        <5> QED
          BY <5>1, <5>2 DEF CheckHash
      <4> QED
        BY <1>0, <3>3, <4>1 DEF Resolved
    <3>5. Undisturbed(b)'
      <4>1. quiet[b] => Settled /\ want[b] = sums
        BY <1>1 DEF BuilderOK, Undisturbed
      <4>2. quiet[b] => \A q \in Pieces : Have(b, q)' => got'[b][q] = pub[q]
        BY <3>2, <4>1 DEF Settled, CheckHash
      <4> QED
        BY <1>0, <3>1, <4>1, <4>2 DEF Undisturbed, Settled
    <3>6. Loading(b)' /\ Fetching(b)'
      BY <3>1 DEF Loading, Fetching
    <3> QED
      BY <1>2, <2>3, <3>4, <3>5, <3>6 DEF BuilderOK
  <2>11. CASE p # "pieces.json"
    <3>1. phase'[b] = "load"
      BY <2>1, <2>11
    <3>2. Fetching(b)' /\ Resolved(b)'
      BY <3>1 DEF Fetching, Resolved
    <3>3. Undisturbed(b)'
      BY <1>0, <1>1, <3>1 DEF BuilderOK, Undisturbed, Settled
    <3>4. at'[b] \in Fixed /\ at'[b] \in {"iptables", "pieces.json"} => p \in {"manifest", "iptables"}
      BY <2>1, <2>4, <2>11 DEF AfterLoading, AfterVmlinuz, Fixed
    <3>5. at'[b] = "pieces.json" => p = "iptables"
      BY <2>1, <2>4, <2>11 DEF AfterLoading, AfterVmlinuz, Fixed
    <3>6. at'[b] # "pieces.json" => p # "iptables"
      BY <2>1 DEF AfterLoading
    <3>7. got'[b]["pieces.json"] = None /\ (p # "iptables" => got'[b]["iptables"] = None)
      BY <2>5, <2>6, <2>7, <2>11
    <3>8. at'[b] \in Fixed
      BY <2>1, <2>4, <2>11 DEF AfterLoading, AfterVmlinuz, Fixed
    <3>9. Loading(b)'
      BY <1>0, <2>4, <2>9, <3>4, <3>5, <3>6, <3>7, <3>8 DEF Loading, Matches
    <3> QED
      BY <1>2, <2>3, <3>2, <3>3, <3>9 DEF BuilderOK
  <2> QED
    BY <2>10, <2>11
<1> QED
  BY <1>3, <1>4

\* A read of the source adds one piece and leads to the next one.
LEMMA ProceedOK ==
  ASSUME IInv, NEW b \in Builders, phase[b] = "fetch", NEW c \in Contents,
         at[b] \in Required => c \notin {None, Part},
         at[b] = "pieces.json" => c \in Versions \cup {None},
         quiet[b] => c \in {None, Part} \/ c = pub[at[b]],
         Proceed(b, at[b], c), UNCHANGED <<pubVars, quiet, want>>
  PROVE  BuilderOK(b)'
<1> DEFINE p == at[b]
<1>0. BuilderOK(b) /\ p \in Pieces /\ got[b] \in [Pieces -> Contents]
  BY DEF IInv, BuilderInv, TypeOK
<1>1. /\ got'[b] = [got[b] EXCEPT ![p] = c]
      /\ AfterFetching(p, c) = "verify" => phase'[b] = "verify" /\ at'[b] = "vmlinuz"
      /\ AfterFetching(p, c) # "verify" => phase'[b] = "fetch" /\ at'[b] = AfterFetching(p, c)
  BY DEF Proceed, IInv, TypeOK
<1>2. ASSUME NEW q \in Pieces PROVE got'[b][q] = IF q = p THEN c ELSE got[b][q]
  BY <1>0, <1>1
<1>3. Accepted(b) /\ Accepted(b)' /\ phase'[b] \in {"fetch", "verify"}
  BY <1>1 DEF Accepted, Resting
<1>4. Complete(want[b])' /\ Pinned(b)' /\ Loading(b)' /\ Resolved(b)'
  BY <1>0, <1>3 DEF BuilderOK, Complete, Pinned, Loading, Resolved
<1>5. Undisturbed(b)'
  <2>1. quiet[b] => Settled /\ want[b] = sums /\ \A q \in Pieces : Have(b, q) => got[b][q] = pub[q]
    BY <1>0, <1>3 DEF BuilderOK, Undisturbed
  <2>2. quiet[b] => \A q \in Pieces : Have(b, q)' => got'[b][q] = pub[q]
    BY <1>2, <2>1 DEF Have
  <2> QED
    BY <1>3, <2>1, <2>2 DEF Undisturbed, Settled
<1>6. Fetching(b)'
  <2>0. Fetching(b)
    BY <1>0 DEF BuilderOK
  <2>1. \A q \in Fetched(b) : Have(b, q)
    BY <2>0 DEF Fetching
  <2>2. Fetched(b)' \subseteq Fetched(b) \cup (Required \cap {p})
    BY <1>0, <1>1 DEF Fetched, AfterFetching, AfterVmlinuz, Pieces
  <2>3. \A q \in Fetched(b)' : Have(b, q)'
    <3>1. Fetched(b) \subseteq Pieces /\ Required \subseteq Pieces
      BY DEF Fetched, Pieces
    <3>2. \A q \in Required : q = p => Have(b, q)'
      BY <1>2, <3>1 DEF Have
    <3>3. \A q \in Fetched(b) : q # p => Have(b, q)'
      BY <1>2, <2>1, <3>1 DEF Have
    <3>4. ASSUME NEW q \in Fetched(b)' PROVE Have(b, q)'
      <4>1. q \in Fetched(b) \/ (q \in Required /\ q = p)
        BY <2>2
      <4>2. CASE q = p
        <5>1. q \in Required
          BY <4>1, <4>2, <2>2, <3>1, <3>4 DEF Fetched
        <5> QED
          BY <4>2, <5>1, <3>2
      <4>3. CASE q # p
        BY <4>1, <4>3, <3>3
      <4> QED
        BY <4>2, <4>3
    <3> QED
      BY <3>4
  <2>4. ASSUME NEW q \in {"wpa_supplicant", "firmware"},
               (phase'[b] = "fetch" /\ at'[b] = q) \/ got'[b][q] # None
        PROVE  AskedFor(b, q)'
    <3>0. q \in Pieces /\ "pieces.json" \in Pieces /\ q # "pieces.json"
      BY DEF Pieces
    <3>1. CASE p = "pieces.json"
      <4>1. got'[b]["pieces.json"] = c
        BY <1>2, <3>0, <3>1
      <4>2. CASE got'[b][q] # None
        <5>1. got[b][q] # None
          BY <1>2, <3>0, <3>1, <4>2
        <5> QED
          BY <2>0, <3>1, <5>1 DEF Fetching, Fixed
      <4>3. CASE at'[b] = q /\ phase'[b] = "fetch"
        <5>1. AfterFetching("pieces.json", c) = q
          BY <1>1, <3>1, <4>3 DEF AfterFetching
        <5>2. c # None /\ (q = "wpa_supplicant" => HasWifi(c)) /\ (q = "firmware" => HasFirmware(c))
          BY <5>1 DEF AfterFetching
        <5> QED
          BY <3>1, <4>1, <5>2, BuiltFacts DEF AskedFor
      <4> QED
        BY <2>4, <4>2, <4>3
    <3>2. CASE p # "pieces.json"
      <4>1. got'[b]["pieces.json"] = got[b]["pieces.json"]
        BY <1>2, <3>0, <3>2
      <4>2. CASE got'[b][q] # None
        <5>1. got[b][q] # None \/ p = q
          BY <1>2, <3>0, <4>2
        <5> QED
          BY <2>0, <4>1, <5>1 DEF Fetching, AskedFor
      <4>3. CASE at'[b] = q /\ phase'[b] = "fetch"
        <5>1. q = "firmware" /\ p = "wpa_supplicant"
          BY <1>0, <1>1, <3>2, <4>3 DEF AfterFetching, AfterVmlinuz, Pieces
        <5>2. AskedFor(b, "wpa_supplicant")
          BY <2>0, <5>1 DEF Fetching
        <5> QED
          BY <4>1, <5>1, <5>2, BuiltFacts DEF AskedFor
      <4> QED
        BY <2>4, <4>2, <4>3
    <3> QED
      BY <3>1, <3>2
  <2>5. ASSUME NEW q \in {"wpa_supplicant", "firmware"}, phase'[b] = "fetch", at'[b] \in Fixed
        PROVE  got'[b][q] = None
    <3>0. q \in Pieces /\ q \notin Fixed
      BY DEF Pieces, Fixed
    <3>1. at[b] \in Fixed
      BY <1>0, <1>1, <2>5 DEF AfterFetching, Fixed, Pieces
    <3>2. got[b][q] = None
      BY <2>0, <3>1 DEF Fetching
    <3> QED
      BY <1>2, <3>0, <3>1, <3>2
  <2> QED
    BY <2>3, <2>4, <2>5 DEF Fetching
<1> QED
  BY <1>4, <1>5, <1>6 DEF BuilderOK

\* Whatever a piece that could be read contains, the builder goes on.
LEMMA FetchPieceOK ==
  ASSUME IInv, NEW b \in Builders, FetchPiece(b)
  PROVE  BuilderOK(b)'
<1>1. /\ phase[b] = "fetch" /\ Proceed(b, at[b], pub[at[b]])
      /\ UNCHANGED <<pubVars, quiet, want>>
      /\ pub[at[b]] # None \/ at[b] \in {"iptables", "pieces.json", "wpa_supplicant"}
      /\ ~(at[b] = "pieces.json" /\ pub[at[b]] = Cut)
  BY DEF FetchPiece
<1>2. at[b] \in Pieces /\ pub[at[b]] \in Contents
  BY DEF IInv, TypeOK
<1>3. pub[at[b]] \in Versions \cup {None, Cut}
  BY <1>2 DEF IInv, PrepareInv
<1>4. at[b] \in Required => pub[at[b]] \notin {None, Part}
  BY <1>1, <1>3
<1>5. at[b] = "pieces.json" => pub[at[b]] \in Versions \cup {None}
  BY <1>1, <1>3
<1> QED
  BY <1>1, <1>2, <1>4, <1>5, ProceedOK

\* A failed read ends Resolve, or counts as an optional piece's absence.
LEMMA FetchFaultOK ==
  ASSUME IInv, NEW b \in Builders, FetchFault(b)
  PROVE  BuilderOK(b)'
<1>0. BuilderOK(b) /\ UNCHANGED <<pubVars, quiet>>
  BY DEF IInv, BuilderInv, FetchFault
<1>1. CASE phase[b] = "fetch" /\ at[b] \in {"iptables", "wpa_supplicant"}
  <2>1. PICK c \in {None, Part} : Proceed(b, at[b], c)
    BY <1>1 DEF FetchFault
  <2>2. c \in Contents /\ UNCHANGED want
    BY <1>1 DEF FetchFault, Contents
  <2>3. at[b] \notin Required /\ at[b] # "pieces.json"
    BY <1>1
  <2> QED
    BY <1>0, <1>1, <2>1, <2>2, <2>3, ProceedOK
<1>2. CASE ~(phase[b] = "fetch" /\ at[b] \in {"iptables", "wpa_supplicant"})
  <2>1. Exit(b, "error") /\ "error" \in Resting \ {"done"}
    BY <1>2 DEF FetchFault, Resting
  <2> QED
    BY <1>0, <2>1, ExitOK DEF IInv
<1> QED
  BY <1>1, <1>2

\* Pieces that pass the hash checks are the listing's run's own, and a quiet
\* source never fails them.
LEMMA VerifyOK ==
  ASSUME IInv, NEW b \in Builders, Verify(b)
  PROVE  BuilderOK(b)'
<1>0. BuilderOK(b) /\ UNCHANGED <<pubVars, quiet>> /\ phase[b] = "verify"
  BY DEF IInv, BuilderInv, Verify
<1>a. Accepted(b) /\ got[b] \in [Pieces -> Contents]
  BY <1>0 DEF Accepted, Resting, IInv, TypeOK
<1>1. CASE want[b] # Nothing /\ Mismatched(b)
  <2>1. Exit(b, "mismatch") /\ "mismatch" \in Resting \ {"done"}
    BY <1>1 DEF Verify, Resting
  <2>2. PICK p \in Pieces : Have(b, p) /\ ~CheckHash(want[b], p, got[b][p])
    BY <1>1 DEF Mismatched
  <2>3. quiet[b] => want[b] = pub /\ got[b][p] = pub[p]
    BY <1>0, <1>a, <2>2 DEF BuilderOK, Undisturbed, Settled
  <2>4. ~quiet[b]
    BY <2>2, <2>3 DEF CheckHash, Have
  <2> QED
    BY <1>0, <2>1, <2>4, ExitOK DEF IInv
<1>2. CASE ~(want[b] # Nothing /\ Mismatched(b))
  <2>1. UNCHANGED <<at, want, got>>
    BY <1>2, Zenon DEF Verify
  <2>2. phase'[b] \in {"save", "done"}
    <3>1. phase \in [Builders -> Phases]
      BY DEF IInv, TypeOK
    <3>2. CASE Caching(b)
      <4>1. phase' = [phase EXCEPT ![b] = "save"]
        BY <1>2, <3>2, Zenon DEF Verify
      <4> QED
        BY <3>1, <4>1
    <3>3. CASE ~Caching(b)
      <4>1. phase' = [phase EXCEPT ![b] = "done"]
        BY <1>2, <3>3, Zenon DEF Verify
      <4> QED
        BY <3>1, <4>1
    <3> QED
      BY <3>2, <3>3
  <2>3. Accepted(b)'
    BY <2>2 DEF Accepted, Resting
  <2>4. Complete(want[b])' /\ Pinned(b)'
    BY <1>0, <1>a, <2>1, <2>2, <2>3 DEF BuilderOK, Complete, Pinned
  <2>5. Loading(b)' /\ Fetching(b)'
    BY <2>2 DEF Loading, Fetching
  <2>6. Undisturbed(b)'
    BY <1>0, <1>a, <2>1, <2>2, <2>3 DEF BuilderOK, Undisturbed, Settled, Have
  <2>7. Resolved(b)'
    <3> SUFFICES ASSUME want[b] # Nothing
                 PROVE  /\ \A p \in Required : Have(b, p)
                        /\ \A p \in Pieces : Have(b, p) => got[b][p] = want[b]["vmlinuz"]
      BY <2>1 DEF Resolved, Have
    <3>1. ~Mismatched(b)
      BY <1>2
    <3>2. \A p \in Pieces : Have(b, p) => CheckHash(want[b], p, got[b][p])
      BY <3>1 DEF Mismatched
    <3>3. \A p \in Required : Have(b, p)
      BY <1>0 DEF BuilderOK, Fetching, Fetched
    <3>4. want[b]["vmlinuz"] \in Versions /\ Complete(want[b])
      BY <1>0 DEF BuilderOK, Complete
    <3>5. ASSUME NEW p \in Pieces, Have(b, p) PROVE p \in Built(want[b]["vmlinuz"])
      <4>1. CASE p \in Fixed
        BY <3>4, <4>1, BuiltFacts
      <4>2. CASE p \notin Fixed
        <5>1. p \in {"wpa_supplicant", "firmware"}
          BY <4>2, PieceCases DEF Fixed
        <5>2. got[b][p] # None
          BY <3>5 DEF Have
        <5>3. AskedFor(b, p)
          BY <1>0, <5>1, <5>2 DEF BuilderOK, Fetching
        <5>4. Have(b, "pieces.json") /\ "pieces.json" \in Pieces /\ "pieces.json" \in Fixed
          BY <5>3 DEF AskedFor, Have, Pieces, Fixed
        <5>5. got[b]["pieces.json"] = want[b]["pieces.json"]
          BY <3>2, <5>4 DEF CheckHash
        <5>6. want[b]["pieces.json"] = want[b]["vmlinuz"]
          BY <3>4, <5>4, BuiltFacts DEF Complete
        <5> QED
          BY <5>3, <5>5, <5>6 DEF AskedFor
      <4> QED
        BY <4>1, <4>2
    <3>6. ASSUME NEW p \in Pieces, Have(b, p) PROVE got[b][p] = want[b]["vmlinuz"]
      <4>1. CheckHash(want[b], p, got[b][p]) /\ p \in Built(want[b]["vmlinuz"])
        BY <3>2, <3>5, <3>6
      <4> QED
        BY <3>4, <4>1 DEF CheckHash, Complete
    <3> QED
      BY <3>3, <3>6
  <2> QED
    BY <2>4, <2>5, <2>6, <2>7 DEF BuilderOK
<1> QED
  BY <1>1, <1>2

\* Every step of a builder keeps its own part of the invariant.
LEMMA BuilderStep ==
  ASSUME IInv, NEW b \in Builders, Build(b)
  PROVE  BuilderOK(b)'
<1>0. BuilderOK(b) /\ TypeOK
  BY DEF IInv, BuilderInv
<1>1. CASE FetchRefused(b)
  <2>1. Exit(b, "error") /\ "error" \in Resting \ {"done"} /\ UNCHANGED <<pubVars, quiet>>
    BY <1>1 DEF FetchRefused, Resting
  <2> QED
    BY <1>0, <2>1, ExitOK
<1>2. CASE SaveOpen(b)
  <2>1. phase[b] = "save" /\ phase'[b] = "write" /\ UNCHANGED <<pubVars, quiet, want, got>>
    BY <1>0, <1>2 DEF SaveOpen, TypeOK
  <2> QED
    BY <1>0, <2>1, KeepOK
<1>3. CASE SaveWrite(b)
  <2>1. phase[b] = "write" /\ phase'[b] = "rename" /\ UNCHANGED <<pubVars, quiet, want, got>>
    BY <1>0, <1>3 DEF SaveWrite, TypeOK
  <2> QED
    BY <1>0, <2>1, KeepOK
<1>4. CASE SaveRename(b)
  <2>1. phase[b] = "rename" /\ phase'[b] \in {"save", "done"}
        /\ UNCHANGED <<pubVars, quiet, want, got>>
    BY <1>0, <1>4 DEF SaveRename, TypeOK
  <2> QED
    BY <1>0, <2>1, KeepOK
<1>5. CASE SaveFails(b)
  <2>1. phase[b] \in {"save", "write", "rename"} /\ phase'[b] = "done"
        /\ UNCHANGED <<pubVars, quiet, want, got>>
    BY <1>0, <1>5 DEF SaveFails, TypeOK
  <2> QED
    BY <1>0, <2>1, KeepOK
<1>6. CASE BuilderKilled(b)
  <2>1. Exit(b, "idle") /\ UNCHANGED pubVars /\ quiet' = [quiet EXCEPT ![b] = FALSE]
    BY <1>6 DEF BuilderKilled
  <2>2. phase'[b] = "idle" /\ want'[b] = Nothing /\ ~Accepted(b)'
    BY <1>0, <2>1 DEF Exit, TypeOK, Accepted, Resting
  <2>3. ~quiet'[b]
    BY <1>0, <2>1, Zenon DEF TypeOK
  <2>4. Complete(want[b])' /\ Pinned(b)' /\ Loading(b)' /\ Fetching(b)' /\ Resolved(b)'
    BY <2>2 DEF Complete, Pinned, Loading, Fetching, Resolved
  <2> QED
    BY <2>3, <2>4 DEF BuilderOK, Undisturbed
<1>7. CASE HashesFault(b)
  <2>1. Exit(b, "error") /\ "error" \in Resting \ {"done"} /\ UNCHANGED <<pubVars, quiet>>
    BY <1>7 DEF HashesFault, Resting
  <2> QED
    BY <1>0, <2>1, ExitOK
<1> QED
  BY <1>1, <1>2, <1>3, <1>4, <1>5, <1>6, <1>7, FetchHashesOK, FetchSignatureOK, LoadOK,
     FetchPieceOK, FetchFaultOK, VerifyOK
  DEF Build

-----------------------------------------------------------------------------
\* The inductive invariant holds in every reachable state.
THEOREM Inductive == Spec => []IInv
<1>1. Init => IInv
  <2> SUFFICES ASSUME Init PROVE IInv
    OBVIOUS
  <2>0. "vmlinuz" \in Pieces /\ Nothing["vmlinuz"] = 0
    BY DEF Pieces, Nothing
  <2>1. TypeOK
    BY PieceNames DEF Init, TypeOK, Phases, Resting, Pieces
  <2>2. PrepareInv
    BY <2>0 DEF Init, PrepareInv, Written, Nothing, Pieces
  <2>3. Complete(sums) /\ SignatureInv
    BY DEF Init, Complete, SignatureInv
  <2>4. ASSUME NEW b \in Builders PROVE BuilderOK(b)
    <3>1. phase[b] = "idle" /\ want[b] = Nothing /\ ~quiet[b]
      BY Zenon DEF Init
    <3>2. ~Accepted(b)
      BY <3>1 DEF Accepted, Resting
    <3> QED
      BY <3>1, <3>2 DEF BuilderOK, Complete, Pinned, Loading, Fetching, Resolved, Undisturbed
  <2> QED
    BY <2>1, <2>2, <2>3, <2>4 DEF IInv, BuilderInv
<1>2. IInv /\ [Next]_vars => IInv'
  <2> SUFFICES ASSUME IInv, [Next]_vars PROVE IInv'
    OBVIOUS
  <2>0. TypeOK'
    BY TypeStep DEF IInv
  <2>1. CASE Prepare
    <3>1. PrepareInv' /\ Complete(sums)' /\ SignatureInv'
      BY <2>1, PrepareStep DEF IInv
    <3>2. ASSUME NEW b \in Builders PROVE BuilderOK(b)'
      <4>1. BuilderOK(b) /\ UNCHANGED <<phase, at, want, got>> /\ signed \subseteq signed'
        BY <2>1, PrepareFrame DEF IInv, BuilderInv
      <4>2. ~quiet'[b]
        BY <2>1, <4>1, PrepareFrame DEF IInv, BuilderOK, Undisturbed, Settled
      <4>3. Complete(want[b])' /\ Loading(b)' /\ Fetching(b)' /\ Resolved(b)'
        BY <4>1 DEF BuilderOK, Complete, Loading, Matches, Fetching, Fetched, AskedFor,
                    Resolved, Have
      <4>4. Pinned(b)'
        BY <4>1 DEF BuilderOK, Pinned, Accepted
      <4> QED
        BY <4>2, <4>3, <4>4 DEF BuilderOK, Undisturbed
    <3> QED
      BY <2>0, <3>1, <3>2 DEF IInv, BuilderInv
  <2>2. ASSUME NEW b \in Builders, Build(b) PROVE IInv'
    <3>1. UNCHANGED pubVars
      BY <2>2, BuildFrame
    <3>2. PrepareInv' /\ Complete(sums)' /\ SignatureInv'
      BY <3>1 DEF IInv, PrepareInv, Written, Complete, SignatureInv
    <3>3. BuilderOK(b)'
      BY <2>2, BuilderStep
    <3>4. ASSUME NEW c \in Builders, c # b PROVE BuilderOK(c)'
      <4>1. /\ phase'[c] = phase[c] /\ at'[c] = at[c] /\ want'[c] = want[c]
            /\ got'[c] = got[c] /\ quiet'[c] = quiet[c] /\ BuilderOK(c)
        BY <2>2, <3>4, OthersFrame DEF IInv, BuilderInv
      <4>2. Complete(want[c])' /\ Pinned(c)' /\ Loading(c)' /\ Fetching(c)' /\ Resolved(c)'
        BY <3>1, <4>1 DEF BuilderOK, Complete, Pinned, Accepted, Loading, Matches, Fetching,
                          Fetched, AskedFor, Resolved, Have
      <4>3. Undisturbed(c)'
        BY <3>1, <4>1 DEF BuilderOK, Undisturbed, Settled, Accepted, Have
      <4> QED
        BY <4>2, <4>3 DEF BuilderOK
    <3> QED
      BY <2>0, <3>2, <3>3, <3>4 DEF IInv, BuilderInv
  <2>3. CASE UNCHANGED vars
    <3>1. PrepareInv' /\ Complete(sums)' /\ SignatureInv'
      BY <2>3 DEF vars, IInv, PrepareInv, Written, Complete, SignatureInv
    <3>2. ASSUME NEW b \in Builders PROVE BuilderOK(b)'
      BY <2>3 DEF vars, IInv, BuilderInv, BuilderOK, Complete, Pinned, Accepted, Loading,
                  Matches, Fetching, Fetched, AskedFor, Resolved, Have, Undisturbed, Settled
    <3> QED
      BY <2>0, <3>1, <3>2 DEF IInv, BuilderInv
  <2> QED
    BY <2>1, <2>2, <2>3 DEF Next
<1> QED
  BY <1>1, <1>2, PTL DEF Spec

\* Type correctness of prepare, of Resolve and of the cache.
THEOREM TypeCorrect == Spec => []TypeOK
  BY Inductive, PTL DEF IInv

\* A verified Set is the output of one prepare run, the one whose
\* pieces.sha256 this Resolve fetched.
THEOREM OneBuildAlways == Spec => []OneBuild
<1>1. IInv => OneBuild
  BY DEF IInv, BuilderInv, BuilderOK, Resolved, OneBuild, Verified
<1> QED
  BY <1>1, Inductive, PTL

\* With a pinned key, Resolve returns only pieces of a run that signed them.
THEOREM AuthenticAlways == Spec => []Authentic
<1>1. IInv => Authentic
  BY DEF IInv, BuilderInv, BuilderOK, Pinned, Accepted, Resting, Authentic
<1> QED
  BY <1>1, Inductive, PTL

\* A complete source that no prepare touches during a Resolve never fails the
\* hash checks, and what is returned is what is published.
THEOREM QuietSourceAlways == Spec => []QuietSource
<1>1. IInv => QuietSource
  BY DEF IInv, BuilderInv, BuilderOK, Undisturbed, Accepted, Resting, QuietSource
<1> QED
  BY <1>1, Inductive, PTL

-----------------------------------------------------------------------------
\* The runs in a Set depend on the Set alone.
LEMMA RunsFrame ==
  ASSUME NEW c \in Builders, got'[c] = got[c]
  PROVE  RunsIn(c)' = RunsIn(c)
<1>1. \A p \in Pieces : Have(c, p)' <=> Have(c, p)
  BY DEF Have
<1> QED
  BY <1>1 DEF RunsIn

\* A step inside a Resolve that does not end it is invisible to the store.
LEMMA WorkingStutters ==
  ASSUME NEW b \in Builders, UNCHANGED sums,
         StatusOf(phase[b]) = "working", StatusOf(phase'[b]) = "working",
         want'[b] = want[b],
         \A c \in Builders \ {b} : phase'[c] = phase[c] /\ want'[c] = want[c] /\ got'[c] = got[c]
  PROVE  UNCHANGED Store!vars
<1>1. phase[b] # "done" /\ phase'[b] # "done"
  BY DEF StatusOf
<1>2. storeStatus' = storeStatus
  BY DEF storeStatus
<1>3. storePicked' = storePicked
  BY DEF storePicked
<1>4. storeAnswer' = storeAnswer
  BY <1>1, RunsFrame DEF storeAnswer
<1> QED
  BY <1>2, <1>3, <1>4 DEF Store!vars

\* A process that ends without a Set is a failed request.
LEMMA ExitFails ==
  ASSUME TypeOK, NEW b \in Builders, NEW how \in Resting \ {"done"}, Exit(b, how), UNCHANGED sums,
         StatusOf(phase[b]) = "working"
  PROVE  Store!Fail(b)
<1>1. /\ \A c \in Builders \ {b} : phase'[c] = phase[c] /\ want'[c] = want[c] /\ got'[c] = got[c]
      /\ phase'[b] = how
  BY DEF Exit, TypeOK
<1>2. phase[b] # "done" /\ StatusOf(how) \in {"failed", "idle"} /\ how # "done"
  BY DEF StatusOf, Resting
<1>3. storeStatus' = [storeStatus EXCEPT ![b] = StatusOf(how)]
  BY <1>1 DEF storeStatus
<1>4. storePicked' = [storePicked EXCEPT ![b] = 0]
  BY <1>1, <1>2 DEF storePicked
<1>5. storeAnswer' = storeAnswer
  BY <1>1, <1>2, RunsFrame DEF storeAnswer
<1>6. storeStatus[b] = "working"
  BY DEF storeStatus
<1> QED
  BY <1>2, <1>3, <1>4, <1>5, <1>6 DEF Store!Fail

\* A builder that gets its Set gets the release it picked.
LEMMA DoneAnswers ==
  ASSUME NEW b \in Builders, TypeOK', BuilderOK(b)', UNCHANGED sums,
         StatusOf(phase[b]) = "working", phase'[b] = "done", want'[b] = want[b],
         \A c \in Builders \ {b} : phase'[c] = phase[c] /\ want'[c] = want[c] /\ got'[c] = got[c]
  PROVE  Store!Answer(b)
<1> DEFINE S == RunsIn(b)'
<1>0. phase[b] # "done" /\ StatusOf("done") = "answered"
  BY DEF StatusOf
<1>1. storeStatus' = [storeStatus EXCEPT ![b] = "answered"] /\ storeStatus[b] = "working"
  BY <1>0 DEF storeStatus
<1>2. storePicked' = storePicked /\ storePicked[b] = want[b]["vmlinuz"]
  BY <1>0 DEF storePicked
<1>3. storeAnswer' = [storeAnswer EXCEPT ![b] = S]
  BY <1>0, RunsFrame DEF storeAnswer
<1>4. S \in SUBSET (Versions \cup {Cut, Torn})
  BY DEF TypeOK, Contents, Have, RunsIn
<1>5. want[b]["vmlinuz"] # 0 => S = {want[b]["vmlinuz"]}
  <2> SUFFICES ASSUME want[b]["vmlinuz"] # 0 PROVE S = {want[b]["vmlinuz"]}
    OBVIOUS
  <2>1. "vmlinuz" \in Pieces /\ "vmlinuz" \in Required
    BY DEF Pieces
  <2>2. want'[b] # Nothing
    BY <2>1 DEF Nothing
  <2>3. /\ Have(b, "vmlinuz")'
        /\ \A p \in Pieces : Have(b, p)' => got'[b][p] = want[b]["vmlinuz"]
    BY <2>1, <2>2 DEF BuilderOK, Resolved
  <2> QED
    BY <2>1, <2>3 DEF RunsIn
<1> HIDE DEF S
<1> QED
  BY <1>1, <1>2, <1>3, <1>4, <1>5 DEF Store!Answer

\* A fetched listing is a request for the release that is published.
LEMMA HashesAsk ==
  ASSUME IInv, NEW b \in Builders, FetchHashes(b)
  PROVE  Store!Ask(b)
<1>1. /\ phase[b] \in Resting /\ want'[b] = sums /\ UNCHANGED sums
      /\ phase'[b] \in {"error", "badsig", "sig", "load", "fetch"}
      /\ \A c \in Builders \ {b} : phase'[c] = phase[c] /\ want'[c] = want[c] /\ got'[c] = got[c]
  BY DEF FetchHashes, Trusted, IInv, TypeOK
<1>2. storeStatus[b] # "working" /\ phase'[b] # "done"
  BY <1>1 DEF storeStatus, StatusOf, Resting
<1>3. storeAnswer' = [storeAnswer EXCEPT ![b] = {}]
  BY <1>1, <1>2, RunsFrame DEF storeAnswer
<1>4. CASE phase'[b] \in {"error", "badsig"}
  <2>1. StatusOf(phase'[b]) = "failed"
    BY <1>4 DEF StatusOf
  <2>2. /\ storeStatus' = [storeStatus EXCEPT ![b] = "failed"]
        /\ storePicked' = [storePicked EXCEPT ![b] = 0]
    BY <1>1, <2>1 DEF storeStatus, storePicked
  <2> QED
    BY <1>1, <1>2, <1>3, <2>2 DEF Store!Ask
<1>5. CASE phase'[b] \in {"sig", "load", "fetch"}
  <2>1. StatusOf(phase'[b]) = "working"
    BY <1>5 DEF StatusOf
  <2>2. /\ storeStatus' = [storeStatus EXCEPT ![b] = "working"]
        /\ storePicked' = [storePicked EXCEPT ![b] = sums["vmlinuz"]]
    BY <1>1, <2>1 DEF storeStatus, storePicked
  <2> QED
    BY <1>1, <1>2, <1>3, <2>2 DEF Store!Ask
<1> QED
  BY <1>1, <1>4, <1>5

\* A failed read of the listing is a request that fails at once.
LEMMA FaultAsks ==
  ASSUME IInv, NEW b \in Builders, HashesFault(b)
  PROVE  Store!Ask(b)
<1>1. /\ phase[b] \in Resting /\ phase'[b] = "error" /\ UNCHANGED sums
      /\ \A c \in Builders \ {b} : phase'[c] = phase[c] /\ want'[c] = want[c] /\ got'[c] = got[c]
  BY DEF HashesFault, Exit, IInv, TypeOK
<1>2. storeStatus[b] # "working" /\ StatusOf("error") = "failed"
  BY <1>1 DEF storeStatus, StatusOf, Resting
<1>3. storeAnswer' = [storeAnswer EXCEPT ![b] = {}]
  BY <1>1, RunsFrame DEF storeAnswer
<1>4. /\ storeStatus' = [storeStatus EXCEPT ![b] = "failed"]
      /\ storePicked' = [storePicked EXCEPT ![b] = 0]
  BY <1>1, <1>2 DEF storeStatus, storePicked
<1> QED
  BY <1>1, <1>2, <1>3, <1>4 DEF Store!Ask

\* Where any other step of a builder leads.
LEMMA OtherSteps ==
  ASSUME IInv, NEW b \in Builders, Build(b), ~FetchHashes(b), ~HashesFault(b)
  PROVE  /\ StatusOf(phase[b]) = "working"
         /\ \/ StatusOf(phase'[b]) = "working" /\ want'[b] = want[b]
            \/ phase'[b] = "done" /\ want'[b] = want[b]
            \/ \E how \in Resting \ {"done"} : Exit(b, how)
<1> USE DEF IInv, TypeOK, StatusOf
<1>1. CASE FetchSignature(b)
  BY <1>1 DEF FetchSignature, Trusted, Resting
<1>2. CASE LoadFromCache(b)
  BY <1>2 DEF LoadFromCache
<1>3. CASE FetchPiece(b)
  BY <1>3 DEF FetchPiece, Proceed
<1>4. CASE FetchRefused(b)
  BY <1>4 DEF FetchRefused, Resting
<1>5. CASE FetchFault(b)
  BY <1>5 DEF FetchFault, Proceed, Resting
<1>6. CASE Verify(b)
  <2>1. CASE want[b] # Nothing /\ Mismatched(b)
    BY <1>6, <2>1 DEF Verify, Resting
  <2>2. CASE ~(want[b] # Nothing /\ Mismatched(b)) /\ Caching(b)
    BY <1>6, <2>2 DEF Verify
  <2>3. CASE ~(want[b] # Nothing /\ Mismatched(b)) /\ ~Caching(b)
    BY <1>6, <2>3 DEF Verify
  <2> QED
    BY <2>1, <2>2, <2>3
<1>7. CASE SaveOpen(b)
  BY <1>7 DEF SaveOpen
<1>8. CASE SaveWrite(b)
  BY <1>8 DEF SaveWrite
<1>9. CASE SaveRename(b)
  BY <1>9 DEF SaveRename
<1>10. CASE SaveFails(b)
  BY <1>10 DEF SaveFails
<1>11. CASE BuilderKilled(b)
  BY <1>11 DEF BuilderKilled, Resting, Phases
<1> QED
  BY <1>1, <1>2, <1>3, <1>4, <1>5, <1>6, <1>7, <1>8, <1>9, <1>10, <1>11 DEF Build

\* prepare and Resolve implement the store: Resolve picks the published
\* release when it reads pieces.sha256 and brings that release or fails.
THEOREM Refinement == Spec => StorePromise
<1>1. Init => Store!Init
  <2> SUFFICES ASSUME Init PROVE Store!Init
    OBVIOUS
  <2>1. sums["vmlinuz"] = 0
    BY DEF Init, Nothing, Pieces
  <2>2. \A b \in Builders : phase[b] = "idle" /\ StatusOf("idle") = "idle"
    BY DEF Init, StatusOf
  <2> QED
    BY <2>1, <2>2 DEF Store!Init, storeStatus, storePicked, storeAnswer
<1>2. IInv /\ IInv' /\ [Next]_vars => [Store!Next]_(Store!vars)
  <2> SUFFICES ASSUME IInv, IInv', [Next]_vars PROVE Store!Next \/ UNCHANGED Store!vars
    OBVIOUS
  <2>1. CASE Prepare
    <3>1. UNCHANGED <<phase, want, got>>
      BY <2>1, PrepareFrame DEF IInv
    <3>2. UNCHANGED <<storeStatus, storePicked, storeAnswer>>
      BY <3>1 DEF storeStatus, storePicked, storeAnswer, RunsIn, Have
    <3>3. CASE WritePiecesHashes
      <4>1. prep = "sums" /\ sums' = pub
        BY <3>3 DEF WritePiecesHashes
      <4>2. ver \in Versions /\ Written = Built(ver) /\ sums["vmlinuz"] < ver
        BY <4>1 DEF IInv, PrepareInv, Written
      <4>3. "vmlinuz" \in Built(ver)
        BY <4>2, BuiltFacts DEF Fixed
      <4>4. sums'["vmlinuz"] = ver
        BY <4>1, <4>2, <4>3 DEF IInv, PrepareInv
      <4>5. ver > sums["vmlinuz"]
        <5>1. sums["vmlinuz"] \in Contents /\ \A c \in Contents : c \in Int
          BY DEF IInv, TypeOK, Contents, Pieces
        <5> QED
          BY <4>2, <5>1
      <4>6. Store!Publish
        BY <3>2, <4>2, <4>4, <4>5 DEF Store!Publish
      <4> QED
        BY <4>6 DEF Store!Next
    <3>4. CASE ~WritePiecesHashes
      <4>1. UNCHANGED sums
        BY <2>1, <3>4 DEF Prepare, PrepareStart, PieceTruncate, PieceWrite, SignPiecesHashes,
                          PrepareKilled
      <4> QED
        BY <3>2, <4>1 DEF Store!vars
    <3> QED
      BY <3>3, <3>4
  <2>2. ASSUME NEW b \in Builders, Build(b) PROVE Store!Next \/ UNCHANGED Store!vars
    <3>1. UNCHANGED sums
      BY <2>2, BuildFrame
    <3>2. \A c \in Builders \ {b} : phase'[c] = phase[c] /\ want'[c] = want[c] /\ got'[c] = got[c]
      BY <2>2, OthersFrame DEF IInv
    <3>3. CASE FetchHashes(b)
      BY <3>3, HashesAsk DEF Store!Next
    <3>5. CASE HashesFault(b)
      BY <3>5, FaultAsks DEF Store!Next
    <3>4. CASE ~FetchHashes(b) /\ ~HashesFault(b)
      <4>1. StatusOf(phase[b]) = "working"
        BY <2>2, <3>4, OtherSteps
      <4>2. CASE StatusOf(phase'[b]) = "working" /\ want'[b] = want[b]
        BY <3>1, <3>2, <4>1, <4>2, WorkingStutters
      <4>3. CASE phase'[b] = "done" /\ want'[b] = want[b]
        <5>1. TypeOK' /\ BuilderOK(b)'
          BY DEF IInv, BuilderInv
        <5>2. Store!Answer(b)
          BY <3>1, <3>2, <4>1, <4>3, <5>1, DoneAnswers
        <5> QED
          BY <5>2 DEF Store!Next
      <4>4. CASE \E how \in Resting \ {"done"} : Exit(b, how)
        <5>1. Store!Fail(b)
          BY <3>1, <4>1, <4>4, ExitFails DEF IInv
        <5> QED
          BY <5>1 DEF Store!Next
      <4> QED
        BY <2>2, <3>4, <4>2, <4>3, <4>4, OtherSteps
    <3> QED
      BY <3>3, <3>4, <3>5
  <2>3. CASE UNCHANGED vars
    BY <2>3 DEF vars, Store!vars, storeStatus, storePicked, storeAnswer, RunsIn, Have
  <2> QED
    BY <2>1, <2>2, <2>3 DEF Next
<1> QED
  BY <1>1, <1>2, Inductive, PTL DEF Spec, StorePromise, Store!Spec

-----------------------------------------------------------------------------
(* What a Set that was not taken from the cache contains. *)

Past == {"verify", "save", "write", "rename", "done"}

\* Past the last read, the firmware its pieces.json names has been read.
Whole(b) ==
    phase[b] \in Past /\ ~hit[b] /\ AskedFor(b, "firmware") => Have(b, "firmware")

\* The builder's next step is to read, or to give up.
LEMMA NotPast ==
  ASSUME TypeOK, NEW b \in Builders, phase'[b] \notin Past
  PROVE  Whole(b)'
  BY DEF Whole

LEMMA ExitWhole ==
  ASSUME TypeOK, NEW b \in Builders, NEW how \in Resting \ {"done"}, Exit(b, how)
  PROVE  Whole(b)'
<1>1. phase'[b] = how
  BY DEF Exit, TypeOK
<1>. QED
  BY <1>1, NotPast DEF Resting, Past

\* The firmware is the last thing Resolve reads, and it cannot be left out.
LEMMA ProceedWhole ==
  ASSUME TypeOK, NEW b \in Builders, NEW p \in Pieces, phase[b] = "fetch",
         NEW c \in Versions \cup {None, Cut, Part}, Proceed(b, p, c),
         p = "firmware" => c \notin {None, Part},
         p = "pieces.json" => c \in Versions \cup {None}
  PROVE  Whole(b)'
<1>1. CASE AfterFetching(p, c) # "verify"
  <2>1. phase'[b] = "fetch"
    BY <1>1 DEF Proceed, TypeOK
  <2>. QED
    BY <2>1, NotPast DEF Past
<1>2. CASE AfterFetching(p, c) = "verify"
  <2>1. p = "firmware" \/ (p = "pieces.json" /\ (c = None \/ ~HasFirmware(c)))
    <3>1. AfterVmlinuz # "verify"
      BY DEF AfterVmlinuz
    <3>2. p \in {"vmlinuz", "busybox", "manifest", "iptables", "pieces.json", "wpa_supplicant",
                "firmware"}
      BY RequiredAssumption DEF Pieces
    <3>3. CASE p = "pieces.json"
      BY <1>2, <3>3 DEF AfterFetching
    <3>4. CASE p # "pieces.json"
      BY <1>2, <3>1, <3>2, <3>4 DEF AfterFetching
    <3>. QED
      BY <3>3, <3>4
  <2>2. got'[b][p] = c
    BY DEF Proceed, TypeOK
  <2>3. CASE p = "firmware"
    BY <2>2, <2>3 DEF Whole, Have
  <2>4. CASE p = "pieces.json" /\ (c = None \/ ~HasFirmware(c))
    <3>1. c = None => c \notin Versions
      BY VersionsAssumption DEF None
    <3>2. "firmware" \notin Fixed
      BY RequiredAssumption DEF Fixed
    <3>3. ~AskedFor(b, "firmware")'
      BY <2>2, <2>4, <3>1, <3>2 DEF AskedFor, Built
    <3>. QED
      BY <3>3 DEF Whole
  <2>. QED
    BY <2>1, <2>3, <2>4
<1>. QED
  BY <1>1, <1>2

LEMMA WholeStep ==
  ASSUME IInv, NEW b \in Builders, Whole(b), Build(b)
  PROVE  Whole(b)'
<1>0. TypeOK /\ at[b] \in Pieces /\ \A p \in Pieces : pub[p] \in Versions \cup {None, Cut}
  BY DEF IInv, TypeOK, PrepareInv
<1>1. CASE FetchHashes(b)
  <2>1. phase'[b] \notin Past
    BY <1>0, <1>1 DEF FetchHashes, TypeOK, Trusted, Past
  <2>. QED
    BY <1>0, <2>1, NotPast
<1>2. CASE FetchSignature(b)
  <2>1. Exit(b, "badsig") \/ phase'[b] = Trusted(want[b])
    BY <1>0, <1>2 DEF FetchSignature, TypeOK
  <2>. QED
    BY <1>0, <2>1, NotPast, ExitWhole DEF Trusted, Past, Resting
<1>3. CASE LoadFromCache(b)
  <2>1. CASE phase'[b] = "done"
    <3>1. hit'[b]
      BY <1>0, <1>3, <2>1 DEF LoadFromCache, TypeOK
    <3>. QED
      BY <3>1 DEF Whole
  <2>2. CASE phase'[b] # "done"
    <3>1. phase'[b] \in {"load", "fetch"}
      BY <1>0, <1>3, <2>2 DEF LoadFromCache, TypeOK
    <3>. QED
      BY <1>0, <3>1, NotPast DEF Past
  <2>. QED
    BY <2>1, <2>2
<1>4. CASE FetchPiece(b)
  <2>1. /\ phase[b] = "fetch" /\ Proceed(b, at[b], pub[at[b]])
        /\ at[b] = "firmware" => pub[at[b]] # None
        /\ at[b] = "pieces.json" => pub[at[b]] # Cut
    BY <1>4, RequiredAssumption DEF FetchPiece
  <2>2. Part \notin {None, Cut} \cup Versions
    BY VersionsAssumption DEF Part, None, Cut
  <2>. QED
    BY <1>0, <2>1, <2>2, ProceedWhole
<1>5. CASE FetchFault(b)
  <2>1. \/ Exit(b, "error")
        \/ /\ phase[b] = "fetch" /\ at[b] \in {"iptables", "wpa_supplicant"}
           /\ \E c \in {None, Part} : Proceed(b, at[b], c)
    BY <1>5 DEF FetchFault
  <2>. QED
    BY <1>0, <2>1, ProceedWhole, ExitWhole DEF Resting
<1>6. CASE FetchRefused(b) \/ HashesFault(b) \/ BuilderKilled(b)
  <2>1. Exit(b, "error") \/ Exit(b, "idle")
    BY <1>6 DEF FetchRefused, HashesFault, BuilderKilled
  <2>. QED
    BY <1>0, <2>1, ExitWhole DEF Resting
<1>7. CASE Verify(b)
  <2>1. \/ Exit(b, "mismatch")
        \/ phase[b] = "verify" /\ UNCHANGED <<got, hit>>
    BY <1>7 DEF Verify
  <2>. QED
    BY <1>0, <2>1, ExitWhole DEF Resting, Whole, Past, AskedFor, Have
<1>8. CASE SaveOpen(b) \/ SaveWrite(b) \/ SaveRename(b) \/ SaveFails(b)
  <2>1. phase[b] \in Past /\ UNCHANGED <<got, hit>>
    BY <1>8 DEF SaveOpen, SaveWrite, SaveRename, SaveFails, Past
  <2>. QED
    BY <2>1 DEF Whole, AskedFor, Have
<1>. QED
  BY <1>1, <1>2, <1>3, <1>4, <1>5, <1>6, <1>7, <1>8 DEF Build

\* Beside a cache hit (HitLikeFetch) there is no way to a Set without the firmware its
\* own pieces.json names: whatever is published, lost or cut short meanwhile, a Set that
\* was fetched has it or is refused (pieces.go, Resolve).
THEOREM FetchedWhole ==
  Spec => [](\A b \in Builders :
                phase[b] = "done" /\ ~hit[b] /\ AskedFor(b, "firmware") => Have(b, "firmware"))
<1>. DEFINE W == \A b \in Builders : Whole(b)
            P == \A b \in Builders :
                    phase[b] = "done" /\ ~hit[b] /\ AskedFor(b, "firmware") => Have(b, "firmware")
<1>1. Init => W
  BY Zenon DEF Init, Whole, Past
<1>2. ASSUME IInv, W, [Next]_vars PROVE W'
  <2>0. TypeOK
    BY <1>2 DEF IInv
  <2>1. CASE Prepare
    <3>1. UNCHANGED <<phase, got, hit>>
      BY <2>0, <2>1, PrepareFrame DEF Prepare, PrepareStart, PieceTruncate, PieceWrite,
         WritePiecesHashes, SignPiecesHashes, PrepareKilled, readVars
    <3>. QED
      BY <1>2, <3>1 DEF Whole, AskedFor, Have
  <2>2. ASSUME NEW b \in Builders, Build(b) PROVE W'
    <3>1. ASSUME NEW c \in Builders, c # b PROVE Whole(c)'
      <4>1. phase'[c] = phase[c] /\ got'[c] = got[c]
        BY <2>0, <2>2, <3>1, OthersFrame
      <4>2. hit'[c] = hit[c]
        BY <2>0, <2>2, <3>1 DEF TypeOK, Build, FetchHashes, HashesFault, FetchSignature,
           LoadFromCache, FetchPiece, FetchRefused, FetchFault, Verify, SaveOpen, SaveWrite,
           SaveRename, SaveFails, BuilderKilled
      <4>. QED
        BY <1>2, <4>1, <4>2 DEF Whole, AskedFor, Have
    <3>2. Whole(b)'
      BY <1>2, <2>2, WholeStep
    <3>. QED
      BY <3>1, <3>2
  <2>3. CASE UNCHANGED vars
    BY <1>2, <2>3 DEF Whole, AskedFor, Have, vars, readVars
  <2>. QED
    BY <1>2, <2>1, <2>2, <2>3 DEF Next
<1>3. W => P
  BY DEF Whole, Past
<1>. QED
  BY <1>1, <1>2, <1>3, Inductive, PTL DEF Spec
=============================================================================
