------------------------------ MODULE Regions ------------------------------
(***************************************************************************)
(* Regions of physical memory, as setup_memory_capabilities computes with  *)
(* them (src/arch/rv64/kernel/setup.cpp).                                  *)
(***************************************************************************)
EXTENDS Naturals

(* region_t: the addresses from start up to, and without, end.             *)
Region(start, end) == [start |-> start, end |-> end]

Nothing == Region(0, 0)

(* The addresses of a region.                                              *)
In(x, r) == r.start <= x /\ x < r.end

(* Mutated form of SubtractRegion: what lies behind b is lost.             *)
SubtractRegionFront(a, b) ==
  IF a.start < b.start
  THEN <<Region(a.start, IF a.end <= b.start THEN a.end ELSE b.start), Nothing>>
  ELSE IF b.end < a.end THEN <<IF b.end <= a.start THEN a ELSE Region(b.end, a.end), Nothing>>
       ELSE <<Nothing, Nothing>>

(* subtract_region                                                         *)
SubtractRegion(a, b) ==
  IF a.start < b.start
  THEN IF a.end <= b.start THEN <<a, Nothing>>
       ELSE IF a.end <= b.end THEN <<Region(a.start, b.start), Nothing>>
            ELSE <<Region(a.start, b.start), Region(b.end, a.end)>>
  ELSE IF b.end < a.end
       THEN IF b.end <= a.start THEN <<a, Nothing>> ELSE <<Region(b.end, a.end), Nothing>>
       ELSE <<Nothing, Nothing>>
=============================================================================
