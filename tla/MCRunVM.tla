------------------------------ MODULE MCRunVM ------------------------------
(***************************************************************************)
(* Small instances of RunVM: three commands that share a VM name, an image *)
(* and a host port, on any of the four hypervisors.                        *)
(***************************************************************************)
EXTENDS RunVM, TLC

CONSTANTS r1, r2, r3

\* The commands differ only in what they are asked for.
Symmetry == Permutations(Runs)

Iso == [backend |-> "vbox", name |-> "cnimbus-run", image |-> "iso", iso |-> TRUE,
        arch |-> "amd64", uefi |-> FALSE, keep |-> FALSE, host |-> 8080, guest |-> 8080,
        bind |-> "loopback"]
Raw == [Iso EXCEPT !.image = "raw", !.iso = FALSE]

McSpecs ==
    { Raw, [Iso EXCEPT !.keep = TRUE], [Iso EXCEPT !.host = 0],
      [Iso EXCEPT !.backend = "hyperv"], [Raw EXCEPT !.backend = "hyperv"],
      [Raw EXCEPT !.backend = "hyperv", !.keep = TRUE, !.bind = "lan"],
      [Raw EXCEPT !.backend = "vmware"], [Raw EXCEPT !.backend = "qemu", !.host = 65535],
      [Iso EXCEPT !.backend = "vmware", !.arch = "arm64"],
      [Iso EXCEPT !.backend = "qemu", !.uefi = TRUE],
      [Iso EXCEPT !.backend = "qemu", !.arch = "arm64"],
      [Iso EXCEPT !.backend = "qemu", !.uefi = TRUE, !.keep = TRUE] }
=============================================================================
