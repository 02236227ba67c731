------------------------------- MODULE MCStart ------------------------------
(***************************************************************************)
(* Instances of Start for TLC: a kernel of 17 KB and 23 KB of .bss, as the *)
(* sources compile to, machines of up to 64 MB, and what the firmware of   *)
(* such a machine may leave: one page of tables, tables on several pages,  *)
(* one MADT, none, or one that nobody looks at; the length of a table may  *)
(* read as one or two ends of a line, and lie on the next page.            *)
(***************************************************************************)
EXTENDS Start, TLC

MiB == 1024 * KiB
Region(base, length, usable) == [base |-> base, length |-> length, usable |-> usable]
Low == <<Region(0, 639 * KiB, TRUE), Region(639 * KiB, KiB, FALSE), Region(960 * KiB, 64 * KiB, FALSE)>>

\* In order; with a hole at 15 MB; without the megabyte behind the first; with
\* memory in front of 1 MB that does not begin at 0.
MCMaps ==
  {Low \o <<Region(MiB, 63 * MiB - 8000, TRUE), Region(64 * MiB - 8000, 8000, FALSE)>>,
   Low \o <<Region(MiB, 14 * MiB, TRUE), Region(16 * MiB, 48 * MiB, TRUE)>>,
   Low \o <<Region(MiB, 15 * MiB, FALSE), Region(16 * MiB, 48 * MiB, TRUE)>>,
   <<Region(0, 512 * KiB, TRUE), Region(600 * KiB, 39 * KiB, TRUE), Region(MiB, 63 * MiB, TRUE)>>}

MCBssLength == 23392
MCKernelLengths == {17504 + MCBssLength, 40960, 18496 + MCBssLength}
MCBss ==
  ("start"      :> [at |-> 0,     length |-> 16]    @@ "acpi"     :> [at |-> 16,    length |-> 16] @@
   "alloc"      :> [at |-> 32,    length |-> 80]    @@ "fat"      :> [at |-> 128,   length |-> 1020] @@
   "interrupts" :> [at |-> 1152,  length |-> 4096]  @@ "pmm"      :> [at |-> 5248,  length |-> 152] @@
   "scheduler"  :> [at |-> 5408,  length |-> 772]   @@ "terminal" :> [at |-> 6208,  length |-> 16872] @@
   "vesa"       :> [at |-> 23104, length |-> 256]   @@ "vmm"      :> [at |-> 23384, length |-> 8])

MCBootData ==
  {Extent("memory map", 33728, 120), Extent("video mode", 33216, 256),
   Extent("loader tables", 57344, 28672)}

\* Tables in the last page of memory, in the one before it, over its end.
Page == 16000 * 4096
Facp == Page + 256
Hpet == Page + 1024
Madt0 == Page + 512
Far == Page - 2048
Split == Page + 4096 - 60
Alone == Page - 8192
Edge == Page - 12292      \* the signature ends the page
Rsdt == Page + 2048
Xsdt == Page + 3072

Cpu == [type |-> LocalApic, length |-> 8]
Nmi == [type |-> 2, length |-> 10]
Chip(a) == [type |-> IoApic, length |-> 12, address |-> a]
Empty == [type |-> 2, length |-> 0]

MadtOf(local, records) == [signature |-> "APIC", local |-> local, records |-> records]
Other(length) == [signature |-> "other", length |-> length]

MCRecords ==
  {<<Cpu, Chip(7)>>, <<Cpu, Cpu, Chip(7), Nmi, Chip(8)>>, <<Nmi>>, <<Cpu, Empty, Chip(7)>>}
  \cup {[n \in 1 .. cpus |-> Cpu] \o <<Chip(7)>> : cpus \in {37, 39, 40, 41, 44, 45}}

MCLists ==
  {<<Facp, Madt0, Hpet>>, <<Madt0, Facp>>, <<Facp, Hpet>>, <<Facp, Hpet, Far>>, <<Far, Facp, Split>>,
   <<Facp, Alone>>, <<Madt0, Facp, Far>>, <<Facp, Edge, Madt0>>,
   <<Facp, Hpet, Madt0>>}

Machine(rsdp, revision, xsdt, list, behind, local, records) ==
  [found |-> rsdp, revision |-> revision, rsdt |-> Rsdt, xsdt |-> xsdt, list |-> list, behind |-> behind,
   tables |-> (Facp :> Other(266) @@ Hpet :> Other(2570) @@ Edge :> Other(56) @@ Madt0 :> MadtOf(local, records)
               @@ Far :> MadtOf(local, <<Chip(9)>>) @@ Split :> MadtOf(local, records)
               @@ Alone :> MadtOf(local, records))]

MCFirmwares ==
  {Machine(TRUE, v, x, l, Page, ApicRegisters, r) : v \in {0, 2}, x \in {Xsdt}, l \in MCLists, r \in MCRecords}
  \cup {Machine(TRUE, v, x, <<Facp, Madt0, Hpet>>, Page, a, <<Cpu, Chip(7)>>) :
          v \in {0, 2}, x \in {0, Xsdt}, a \in {ApicRegisters, 5000}}
  \cup {Machine(FALSE, 0, 0, <<>>, 0, ApicRegisters, <<>>)}
  \cup {Machine(TRUE, v, Xsdt, <<Facp, Hpet>>, Far, ApicRegisters, <<Cpu>>) : v \in {0, 2}}

\* What the theorems ask of the machines.
ASSUME MCStartAssumption ==
  NoneAcross /\ KernelRegionsLong /\ HeapFits /\ LayoutSound /\ IoApicsSized /\ TablesFit

\* Every firmware on one machine, and every machine with two of them.
MCPaired ==
  \/ map[Len(map)].usable = FALSE /\ klength = 17504 + MCBssLength /\ sectors # 0
  \/ firmware \in {Machine(TRUE, v, Xsdt, <<Facp, Madt0, Hpet>>, Page, ApicRegisters, <<Cpu, Chip(7)>>) : v \in {0, 2}}

MCInit == StartInit /\ MCPaired
MCSpec == MCInit /\ [][StartNext]_startVars /\ WF_startVars(StartNext)
=============================================================================
