---------------------------- MODULE MCBootMemory ----------------------------
(***************************************************************************)
(* Machines with a PC's layout: low memory, a hole, and high memory that   *)
(* starts at 1 MiB with the kernel and may be interrupted by ACPI data.    *)
(* Ends of extents fall on and off frames, and on and off bytes of the     *)
(* bitmap.                                                                 *)
(***************************************************************************)
EXTENDS BootMemory

E(begin, end) == FromRangeExclusive(begin, end)

MCMaps ==
  {<< MapEntry(E(0, low), "Available"), MapEntry(E(low, 20), "Reserved"),
      MapEntry(E(20, high), "Available"), MapEntry(E(high, 64), type),
      MapEntry(E(64, top), "Available") >> :
     low \in {13, 16, 19}, high \in {43, 48, 58}, type \in {"Acpi", "Reserved"}, top \in {70, 80, 86}}

\* boot_info is below 1 MiB, just above the kernel or the init module, where a
\* boot loader is free to put it, or high above the frames of the page tables.
MCBoots ==
  {b \in [map : MCMaps,
          module : {E(26, 28), E(27, 32), E(30, 37), E(44, 51), E(26, 51)},
          kernel : {E(20, 24), E(20, 25), E(21, 26)},
          info : {E(18, 20), E(28, 30), E(37, 39), E(66, 69)}] :
     /\ ~HasOverlap(b.module, b.kernel)
     /\ ~HasOverlap(b.module, b.info)
     /\ ~HasOverlap(b.kernel, b.info)
     /\ EndAddress(b.module) <= EndAddress(b.map[3].extent)}

MCGarbage == {0, 1, 8}
==============================================================================
