----------------------------- MODULE MCThunder -----------------------------
(***************************************************************************)
(* A small instance of Thunder: six symbols, of which WLAN needs USB and   *)
(* IPTABLES a gate that only newer kernels have; a vga fragment that       *)
(* contradicts the VM's and an agent fragment whose gate nobody sets; a    *)
(* container with more CPUs than memory.                                   *)
(***************************************************************************)
EXTENDS Thunder, TLC

McSymbols == {"VIRTIO", "IPTABLES", "LEGACY", "USB", "WLAN", "IOPERM"}
McNeeds == ("VIRTIO" :> {} @@ "IPTABLES" :> {"LEGACY"} @@ "LEGACY" :> {} @@ "USB" :> {}
            @@ "WLAN" :> {"USB"} @@ "IOPERM" :> {"WLAN"})
McTiny == ("VIRTIO" :> "unset" @@ "IPTABLES" :> "none" @@ "LEGACY" :> "unset"
           @@ "USB" :> "unset" @@ "WLAN" :> "none" @@ "IOPERM" :> "none")

Sets(lines) == lines @@ [s \in McSymbols |-> "none"]
McFragment ==
    ("minimal" :> Sets("IPTABLES" :> "y") @@ "vm" :> Sets("VIRTIO" :> "y")
     @@ "vga" :> Sets("VIRTIO" :> "n") @@ "eth" :> Sets("USB" :> "y")
     @@ "usb" :> Sets("USB" :> "y") @@ "agent" :> Sets("IOPERM" :> "y")
     @@ "wifi" :> Sets("WLAN" :> "y") @@ "legacy" :> Sets("LEGACY" :> "y")
     @@ "baseline" :> Sets("IOPERM" :> "none"))

McMachine == [cpus |-> 8, memory |-> 2560, quota |-> 350, period |-> 100]

Plain == [profile |-> "none", vga |-> FALSE, vmware |-> FALSE, busybox |-> "busybox",
          signed |-> TRUE, skip |-> FALSE, jobs |-> 0]
McRequests ==
    { Plain, [Plain EXCEPT !.profile = "wifi", !.skip = TRUE],
      [Plain EXCEPT !.profile = "eth+wifi"], [Plain EXCEPT !.vga = TRUE],
      [Plain EXCEPT !.vmware = TRUE, !.busybox = "busybox-other"] }
=============================================================================
