---------------------------- MODULE MCBuildDisk ----------------------------
(***************************************************************************)
(* Small instances of BuildDisk.  Three revisions of a Nimbusfile (an ISO  *)
(* whose EFI payload is exactly as large as El Torito allows, one with a   *)
(* tarball that climbs out, a VHD that asks for WiFi) and three sets of    *)
(* pieces (one with an older pieces.json, one with a kernel a sector too   *)
(* large, one for WiFi).                                                   *)
(***************************************************************************)
EXTENDS BuildDisk

CONSTANTS b1, b2, g1

\* ADD of a tarball whose entries climb inside, and out of, the destination.
Entry(name)  == [name |-> name, type |-> "file", files |-> <<>>]
TarInside    == [kind |-> "tar", add |-> TRUE, dest |-> <<"", "srv", "app">>,
                 items |-> <<Entry(<<"a", "..", "b">>), Entry(<<".", "c">>)>>]
TarOutside   == [TarInside EXCEPT !.items = <<Entry(<<"a", "..", "..", "etc">>)>>]
Dir          == [name |-> <<"dist">>, type |-> "dir",
                 files |-> <<<<"index">>, <<"js", "x">>>>]
Bin          == [name |-> <<"hello">>, type |-> "file", files |-> <<>>]
GlobBin      == [kind |-> "glob", add |-> FALSE, dest |-> <<"", "usr", "bin", "">>,
                 items |-> <<Bin, Dir>>]

Nf == [arch |-> "amd64", vga |-> FALSE, boot |-> "none", format |-> "iso",
       initramfs |-> 10 * MiB, squashfs |-> 64 * 1024, copies |-> <<TarInside, GlobBin>>]

\* The EFI payload of the first set's kernel with Nf is 65535 sectors.
Vm == 65535 * 512 - 8 * MiB - 10 * MiB

McNimbusfiles ==
    << Nf, [Nf EXCEPT !.copies = <<TarOutside>>],
       [Nf EXCEPT !.format = "vhd", !.boot = "wifi", !.initramfs = 190 * MiB + 1,
                  !.squashfs = 0] >>
McSets ==
    << [prov |-> TRUE, arch |-> "", vga |-> FALSE, boot |-> "", vmlinuz |-> Vm],
       [prov |-> TRUE, arch |-> "amd64", vga |-> FALSE, boot |-> "none", vmlinuz |-> Vm + 1],
       [prov |-> TRUE, arch |-> "amd64", vga |-> FALSE, boot |-> "wifi", vmlinuz |-> Vm - 4096] >>
McCommands ==
    { [secure |-> "off", uki |-> FALSE, lock |-> TRUE],
      [secure |-> "auto", uki |-> FALSE, lock |-> TRUE],
      [secure |-> "own", uki |-> TRUE, lock |-> FALSE] }

\* A complete pair is never replaced, whoever else is in the key directory: what
\* PairKept says without its condition, and what two builds at a time violate.
NeverReplaced ==
    [][keyFile # 0 /\ certFile # 0 => UNCHANGED <<keyFile, certFile>>]_keyVars
AutoOnly == { [secure |-> "auto", uki |-> FALSE, lock |-> FALSE] }
=============================================================================
