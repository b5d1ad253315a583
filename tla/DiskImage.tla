----------------------------- MODULE DiskImage -----------------------------
(***************************************************************************)
(* The arithmetic of the three image formats of cnimbus build-disk: the    *)
(* El Torito entry of FORMAT iso (internal/isoimage), the GPT disk of      *)
(* FORMAT raw (internal/rawimage) and the footer that makes it a Fixed VHD *)
(* (cmd/cnimbus/run_vhd.go).  Sizes are in bytes unless they are called    *)
(* sectors; an integer that the code stores in 8 or 16 bits keeps its      *)
(* width.                                                                  *)
(***************************************************************************)
EXTENDS Integers

SectorSize == 512
MiB        == 1024 * 1024
MibSectors == MiB \div SectorSize

RoundUpSectors(size)  == (size + SectorSize - 1) \div SectorSize
RoundUpToMiB(sector)  ==
    IF sector % MibSectors = 0 THEN sector
    ELSE sector + (MibSectors - (sector % MibSectors))

(***************************************************************************)
(* FORMAT iso.  The FAT16 image with the kernel and the initramfs, and the *)
(* 16-bit count of sectors the El Torito entry makes the firmware load.    *)
(***************************************************************************)
EfiBootImageSize(vmlinuz, initramfs) ==
    LET size == 8 * MiB + vmlinuz + initramfs
    IN IF size < 3 * MiB THEN 3 * MiB ELSE size

EfiLoadSectors(vmlinuz, initramfs) ==
    (EfiBootImageSize(vmlinuz, initramfs) + 511) \div 512

FitsElTorito(vmlinuz, initramfs) == EfiLoadSectors(vmlinuz, initramfs) <= 65535

\* uint16(efiLoadSectors)
LoadBlocks(vmlinuz, initramfs) == EfiLoadSectors(vmlinuz, initramfs) % 65536

(***************************************************************************)
(* FORMAT raw.  The two partitions and the size of the disk.               *)
(***************************************************************************)
EspStartSector     == 2 * MibSectors
EspSize            == 200 * MiB
EspContentHeadroom == 16 * MiB
GptOverhead        == 3 * MiB

EspSectors(vmlinuz, initramfs) ==
    LET content == vmlinuz + initramfs + EspContentHeadroom
    IN RoundUpSectors(IF content > EspSize THEN content ELSE EspSize)

RootStartSector(vmlinuz, initramfs) ==
    RoundUpToMiB(EspStartSector + EspSectors(vmlinuz, initramfs))

RootSectors(squashfs) ==
    IF RoundUpSectors(squashfs) = 0 THEN 1 ELSE RoundUpSectors(squashfs)

DiskSize(vmlinuz, initramfs, squashfs) ==
    LET size == (RootStartSector(vmlinuz, initramfs) + RootSectors(squashfs)) * SectorSize
                  + GptOverhead
    IN IF size % MiB = 0 THEN size ELSE size + (MiB - (size % MiB))

(***************************************************************************)
(* FORMAT vhd.  vhdCHSGeometry: cylinders, heads and sectors per track.    *)
(* The results are the untruncated integers; Fits16 and Fits8 say that the *)
(* conversions to uint16 and uint8 lose nothing.                           *)
(***************************************************************************)
ChsMax == 65535 * 16 * 255

Chs(sectors) ==
    LET total == IF sectors > ChsMax THEN ChsMax ELSE sectors
        G(spt, heads) == [c |-> (total \div spt) \div heads, h |-> heads, s |-> spt]
        h17   == LET h == ((total \div 17) + 1023) \div 1024
                 IN IF h < 4 THEN 4 ELSE h
        not17 == (total \div 17) >= h17 * 1024 \/ h17 > 16
    IN IF total >= 65535 * 16 * 63 THEN G(255, 16)
       ELSE IF ~not17 THEN G(17, h17)
       ELSE IF (total \div 31) < 16 * 1024 THEN G(31, 16)
       ELSE G(63, 16)

----------------------------------------------------------------------------
\* The firmware is told to load the whole payload: the count of the El Torito
\* entry, as stored, covers the FAT image (isoimage.go, "silently truncating
\* past that would produce an EFI entry whose declared load size doesn't match
\* the real payload").
LoadsAll(vmlinuz, initramfs, blocks) ==
    blocks * 512 >= EfiBootImageSize(vmlinuz, initramfs)

\* The partitions of a raw disk lie one after the other, start on a whole MiB,
\* hold their contents, and leave the last 33 sectors to the second partition
\* table; the disk is a whole number of MiB, as an Azure upload wants it.
LayoutSound(vmlinuz, initramfs, squashfs) ==
    LET esp  == EspStartSector + EspSectors(vmlinuz, initramfs)
        root == RootStartSector(vmlinuz, initramfs)
        disk == DiskSize(vmlinuz, initramfs, squashfs)
    IN /\ esp <= root
       /\ root % MibSectors = 0
       /\ EspSectors(vmlinuz, initramfs) * SectorSize >= vmlinuz + initramfs
       /\ RootSectors(squashfs) * SectorSize >= squashfs
       /\ (root + RootSectors(squashfs) + 33) * SectorSize <= disk
       /\ disk % MiB = 0

\* The geometry of a VHD addresses no sector past the end of the disk, and fits
\* the fields of the footer.
GeometrySound(sectors) ==
    LET g == Chs(sectors)
    IN /\ g.c * g.h * g.s <= sectors
       /\ g.c < 65536 /\ g.h < 256 /\ g.s < 256
=============================================================================
