---------------------------- MODULE MCBootMemory ----------------------------
(* BootMemory on addresses below 64: a cell is an octal digit, a page has  *)
(* four addresses.  The regions of the memory, of the firmware and of a    *)
(* device vary; so do the places of a no-op and of the end of the stream.  *)
EXTENDS BootInvariant

Two(n) == <<n \div 8, n % 8>>

(* A board: memory and firmware with cells of the root node, a device with *)
(* the default cells, a CPU with no size, and a flash with partitions.     *)
Board(mem, resv, dev) == <<
  Node(1, "", <<Prop("#address-cells", <<2>>), Prop("#size-cells", <<2>>)>>),
  Node(2, "memory", <<Prop("reg", Two(mem[1]) \o Two(mem[2])), Prop("reg", <<0, 1, 0, 1>>)>>),
  Node(2, "reserved-memory", <<Prop("#size-cells", <<1>>)>>),
  Node(3, "mmode_resv0", <<Prop("reg", Two(resv[1]) \o <<resv[2]>>)>>),
  Node(2, "cpus", <<Prop("#address-cells", <<1>>), Prop("#size-cells", <<0>>)>>),
  Node(3, "cpu", <<Prop("reg", <<0>>)>>),
  Node(2, "soc", <<>>),
  Node(3, "uart", <<Prop("reg", Two(dev[1]) \o <<dev[2]>>)>>),
  Node(3, "flash", <<Prop("#address-cells", <<1>>)>>),
  Node(4, "partitions", <<Prop("#address-cells", <<1>>), Prop("#size-cells", <<1>>)>>),
  Node(5, "partition", <<Prop("reg", <<1, 2>>)>>),
  Node(2, "chosen", <<>>)>>

(* Two banks of memory; a second device; a node with no address cells.     *)
Banks(extra) == <<
  Node(1, "", <<Prop("#address-cells", <<1>>)>>),
  Node(2, "memory", <<Prop("reg", <<3, 2, 6, 1>>)>>),
  Node(2, "bus", <<Prop("#address-cells", <<IF extra = "no address" THEN 0 ELSE 2>>)>>)>>
  \o (IF extra = "banks" THEN <<Node(3, "memory", <<Prop("reg", <<1, 0, 4>>)>>)>>
      ELSE IF extra = "high" THEN <<Node(3, "flash", <<Prop("reg", <<7, 4, 4>>)>>)>>
      ELSE <<Node(3, "rtc", <<Prop("reg", <<0, 5, 2, 1, 1, 3>>)>>)>>)

TokenCount(nodes) == Len(Serialised(nodes))

Whole(nodes) == <<nodes, {}, TokenCount(nodes)>>

Sample == Board(<<5, 30>>, <<8, 5>>, <<42, 3>>)

MCTrees ==
  {Whole(Board(<<m, l>>, <<r, k>>, d)) :
     m \in {0, 7, 8}, l \in {7, 22, 33}, r \in {4, 15, 21, 30}, k \in {1, 7},
     d \in {<<42, 3>>, <<44, 0>>, <<21, 6>>}}
  \cup {<<Sample, {i, i + 1}, TokenCount(Sample) + 2>> : i \in 1..(TokenCount(Sample) - 1)}
  \cup {<<Sample, {}, n>> : n \in 1..TokenCount(Sample)}
  \cup {Whole(Banks(extra)) : extra \in {"devices", "banks", "high", "no address"}}

MCKernel == Region(12, 16)
MCPayload == Region(16, 20)
MCStack == Region(20, 24)
MCBootPages == {<<1, 2, 1>>, <<2, 1, 3>>}
=============================================================================
