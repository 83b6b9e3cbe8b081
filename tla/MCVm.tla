-------------------------------- MODULE MCVm --------------------------------
(***************************************************************************)
(* Instances of VirtualMemory for TLC: tables of four entries, low memory  *)
(* for the early tables, and the kernel image in a hole of the usable      *)
(* memory above the first megabyte, or inside a usable region, where the   *)
(* linker script puts it.                                                  *)
(***************************************************************************)
EXTENDS VirtualMemory

Entry(start, end) == [start |-> start, end |-> end]

ImageInHole == <<Entry(0, 10), Entry(12, 20), Entry(27, 32)>>
ImageInRegion == <<Entry(0, 10), Entry(12, 28), Entry(29, 32)>>

MCMemoryMaps == {ImageInHole, ImageInRegion}

MCExtendFlags == {{"W"}, {}}

MCDirectFlags == {{"W", "GUARD"}, {"W", "U"}}

MCWritable == {{"W"}}

=============================================================================
