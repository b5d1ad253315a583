------------------------------- MODULE Copies -------------------------------
(***************************************************************************)
(* COPY and ADD of a Nimbusfile: where the files they name end up in the   *)
(* image (cmd/cnimbus/build.go, resolveCopies).                            *)
(*                                                                         *)
(* A path is its string split at "/": "/app/" is <<"", "app", "">> and ""  *)
(* is <<"">>.  A directive is a record                                     *)
(*   kind   "url"; "tar", an ADD of a name that ends in .tar, .tar.gz or   *)
(*          .tgz; "local", a plain path; "glob"                            *)
(*   add    ADD, not COPY                                                  *)
(*   dest   the destination as the Nimbusfile writes it                    *)
(*   items  what the source is: the entries of a tarball, the matches of a *)
(*          path or a glob; empty when there is none.  An item has a name  *)
(*          (the last component of a match, the whole path of an entry),   *)
(*          a type ("file", "dir" or "link"), and the paths of the files   *)
(*          in it when it is a directory.                                  *)
(* The order of the files is left out: they are a set.                     *)
(***************************************************************************)
EXTENDS Integers, Sequences, SequencesExt

\* strings.TrimPrefix(p, "/"), strings.TrimSuffix(p, "/")
TrimPrefix(p) == IF Len(p) > 1 /\ p[1] = "" THEN Tail(p) ELSE p
TrimSuffix(p) == IF Len(p) > 1 /\ p[Len(p)] = "" THEN Front(p) ELSE p

Dest(d)      == TrimSuffix(TrimPrefix(d.dest))
DestIsDir(d) == Len(d.dest) > 1 /\ d.dest[Len(d.dest)] = ""

(***************************************************************************)
(* path.Clean: drops empty and "." components and resolves "..", which     *)
(* stays only at the start of a path that is not rooted.                   *)
(***************************************************************************)
Rooted(p) == Len(p) > 1 /\ p[1] = ""

\* One component more, after those that are done.
CleanStep(rooted, done, c) ==
    IF c \in {"", "."} THEN done
    ELSE IF c # ".." THEN Append(done, c)
    ELSE IF done # <<>> /\ done[Len(done)] # ".." THEN Front(done)
    ELSE IF rooted THEN done ELSE Append(done, "..")

Walked(p) ==
    LET walk[n \in 0..Len(p)] ==
            IF n = 0 THEN <<>> ELSE CleanStep(Rooted(p), walk[n - 1], p[n])
    IN  walk[Len(p)]

Clean(p) ==
    IF Rooted(p) THEN <<"">> \o (IF Walked(p) = <<>> THEN <<"">> ELSE Walked(p))
    ELSE IF Walked(p) = <<>> THEN <<".">> ELSE Walked(p)

\* A mutant of Inside: the entry is checked before it is joined and cleaned.
InsideUncleaned(dest, name) == IsPrefix(dest, dest \o name)

(***************************************************************************)
(* safeImagePath: the path an entry lands at, and whether it stays under   *)
(* the destination.                                                        *)
(***************************************************************************)
Joined(dest, name) == Clean(dest \o name)
Inside(dest, name) ==
    LET prefix == Clean(dest) IN IsPrefix(prefix, Joined(dest, name))

----------------------------------------------------------------------------
\* A file of the image: where it lands, and the directive it comes from.
File(path, d) == [path |-> path, from |-> d]

Failed   == [ok |-> FALSE, files |-> {}]
Found(S) == [ok |-> TRUE, files |-> S]

\* extractLocalTarball: regular entries only, all of them or none.
ExtractTarball(d) ==
    LET regular == {e \in ToSet(d.items) : e.type = "file"}
    IN IF \A e \in regular : Inside(Dest(d), e.name)
       THEN Found({File(Joined(Dest(d), e.name), d) : e \in regular})
       ELSE Failed

\* resolveLocalCopy and walkLocalDir: the contents of a directory under the
\* destination; a file at the destination, or under it when there are several
\* or the destination ends in "/".
LocalCopy(d) ==
    LET asDirPrefix == Len(d.items) > 1 \/ DestIsDir(d)
        Of(m) == IF m.type = "dir"
                 THEN {File(Dest(d) \o p, d) : p \in ToSet(m.files)}
                 ELSE {File(IF asDirPrefix THEN Dest(d) \o m.name ELSE Dest(d), d)}
    IN IF d.items = <<>> THEN Failed
       ELSE Found(UNION {Of(m) : m \in ToSet(d.items)})

ResolveCopy(d) ==
    CASE d.kind = "url" -> IF d.add THEN Found({File(Dest(d), d)}) ELSE Failed
      [] d.kind = "tar" -> ExtractTarball(d)
      [] OTHER          -> LocalCopy(d)

\* resolveCopies: the first directive that fails ends it.
ResolveCopies(copies) ==
    IF \A c \in ToSet(copies) : ResolveCopy(c).ok
    THEN Found(UNION {ResolveCopy(c).files : c \in ToSet(copies)})
    ELSE Failed

----------------------------------------------------------------------------
\* Every file of a tarball lies under the destination of its directive, however
\* the name of its entry climbs and descends, and a destination that does not
\* itself climb out of the image leaves none that does (safeImagePath).
Contained(files) ==
    \A f \in files :
        f.from.kind = "tar" =>
            LET top == Clean(Dest(f.from))
            IN  /\ IsPrefix(top, f.path)
                /\ top[1] # ".." => \A c \in DOMAIN f.path : f.path[c] # ".."
=============================================================================
