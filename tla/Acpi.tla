-------------------------------- MODULE Acpi --------------------------------
(***************************************************************************)
(* parse_acpi: from the root pointer over the table list of version 1      *)
(* (RSDT) or 2 (XSDT) to the first MADT, and over its records to the       *)
(* addresses of the local APIC and the I/O APIC.                           *)
(*                                                                         *)
(* Addresses are bytes, below 4 GB as everything the firmware of such a    *)
(* machine hands over, the APICs are named by their page.  A read of a     *)
(* page that is not mapped is the end (Fault): no handler maps it.  What   *)
(* the walk prints matters because the terminal scrolls at its last row,   *)
(* and the sti of scroll enables interrupts; no line of it reaches the     *)
(* width of the terminal.                                                  *)
(***************************************************************************)
EXTENDS Integers, Sequences, FiniteSetsExt, Functions

CONSTANTS
  Firmwares,      \* [found, revision, rsdt, xsdt, list, behind, tables]; a table is
                  \*   [signature, length], a MADT [signature, local, records]
  RsdtEntries,    \* entries parse_rsdt looks at: 25
  Height          \* rows of the terminal

\* The two kinds of records the walk looks into.
LocalApic == 0
IoApic == 1

MadtRecord ==
  [type : Nat \ {IoApic}, length : Nat] \cup [type : {IoApic}, length : Nat, address : Nat]

ASSUME AcpiAssumption ==
  /\ RsdtEntries \in Nat /\ Height \in Nat \ {0}
  /\ \A f \in Firmwares :
       /\ f.list \in Seq(Nat) /\ {f.rsdt, f.xsdt, f.behind} \subseteq Nat
       /\ \A a \in DOMAIN f.tables :
            IF f.tables[a].signature = "APIC"
              THEN f.tables[a].records \in Seq(MadtRecord) /\ f.tables[a].local \in Nat
              ELSE f.tables[a].length \in 0 .. 2^24 - 1   \* or print goes on behind the length

VARIABLES
  firmware,       \* what the firmware left in memory
  space,          \* mapped pages, as intervals [from, to) of page numbers
  apic,           \* apic.local_apic and apic.io_apic
  step,           \* where the walk is
  index,          \* sdt_index, from 1
  table,          \* the table looked at
  offset,         \* of the record looked at
  row,            \* terminal.y
  interrupts      \* RFLAGS.IF of the boot thread

acpiVars == <<firmware, space, apic, step, index, table, offset, row, interrupts>>

PageBytes == 4096
NoApic == 0       \* apic lies in .bss

InitAcpi ==
  /\ firmware \in Firmwares
  /\ apic = [local |-> NoApic, io |-> NoApic]
  /\ step = "start" /\ index = 1 /\ table = 0 /\ offset = 0
  /\ row = 0 /\ interrupts = FALSE

Mapped(at, length) ==
  \A p \in at \div PageBytes .. (at + length - 1) \div PageBytes :
    \E r \in space : r.from <= p /\ p < r.to

\* map_page(at, at).
WithPage_Forgotten(at) == space            \* mutant: map_page is forgotten
WithPage(at) == space \cup {[from |-> at \div PageBytes, to |-> at \div PageBytes + 1]}

\* The cursor after n lines of text, and the sti of the scrolls among them.
RowAfter_NoScroll(n) == row + n            \* mutant: the cursor leaves the screen
RowAfter(n) == Min({row + n, Height - 1})

Output(n) ==
  /\ row' = RowAfter(n)
  /\ interrupts' = (interrupts \/ row + n >= Height)

------------------------------------------------------------------------------
\* The head of parse_acpi.
UsesXsdt == firmware.revision >= 2 /\ firmware.xsdt # 0

\* find_xsdp finds nothing: hlt with interrupts disabled.
NoXsdp ==
  /\ step = "start" /\ ~firmware.found
  /\ step' = "halted"
  /\ Output(1)
  /\ UNCHANGED <<firmware, space, apic, index, table, offset>>

OpenList ==
  /\ step = "start" /\ firmware.found
  /\ space' = WithPage(IF UsesXsdt THEN firmware.xsdt ELSE firmware.rsdt)
  /\ Output(IF UsesXsdt THEN 2 ELSE 1)
  /\ step' = "list"
  /\ UNCHANGED <<firmware, apic, index, table, offset>>

------------------------------------------------------------------------------
\* The list.  The RSDT is read as if it had 25 entries.  Eight byte entries begin
\* at offset 36, but the compiler aligns the array to offset 40: an element is the
\* upper half of one entry and the lower half of the next, and swap_upper_lower
\* makes the address of the next entry from them.

Entry(i) == IF i <= Len(firmware.list) THEN firmware.list[i] ELSE firmware.behind

LastIndex == IF UsesXsdt THEN Len(firmware.list) ELSE RsdtEntries

TableAddress(i) == IF UsesXsdt THEN Entry(i + 1) ELSE Entry(i)

\* What reading the next address touches; the checksum reads the whole XSDT first.
ListRead ==
  IF ~UsesXsdt THEN [at |-> firmware.rsdt + 36 + 4 * (index - 1), length |-> 4]
  ELSE IF index = 1 THEN [at |-> firmware.xsdt, length |-> 36 + 8 * Len(firmware.list)]
  ELSE [at |-> firmware.xsdt + 40 + 8 * (index - 1), length |-> 8]

NextTable ==
  /\ step = "list" /\ index <= LastIndex
  /\ Mapped(ListRead.at, ListRead.length)
  /\ table' = TableAddress(index)
  /\ step' = "table"
  /\ IF UsesXsdt
       THEN space' = WithPage(table') /\ Output(IF index = 1 THEN 2 ELSE 1)
       ELSE UNCHANGED <<space, row, interrupts>>
  /\ UNCHANGED <<firmware, apic, index, offset>>

EndOfList ==
  /\ step = "list" /\ index > LastIndex
  /\ step' = "done"
  /\ UNCHANGED <<firmware, space, apic, index, table, offset, row, interrupts>>

------------------------------------------------------------------------------
\* A table.  Its header is 36 bytes, a MADT has 8 more before its records.

IsMadt(a) == a \in DOMAIN firmware.tables /\ firmware.tables[a].signature = "APIC"
Madt == firmware.tables[table]

RecordOffset(m, n) ==
  LET at[k \in 1 .. Len(m.records) + 1] ==
        IF k = 1 THEN 44 ELSE at[k - 1] + m.records[k - 1].length
  IN  at[n]

\* print(signature) in parse_xsdt: no zero byte ends the four letters, it goes on with
\* the bytes of the length up to a zero one.  Where no table lies the memory is zero.
LengthOf(t) == IF t.signature = "APIC" THEN RecordOffset(t, Len(t.records) + 1) ELSE t.length
Bytes(n) == <<n % 256, (n \div 256) % 256, (n \div 65536) % 256, 0>>
PrintedOf(n) == {k \in 1 .. 3 : \A j \in 1 .. k : Bytes(n)[j] # 0}

SignatureBytes(a) ==
  IF a \in DOMAIN firmware.tables THEN 5 + Cardinality(PrintedOf(LengthOf(firmware.tables[a]))) ELSE 1

NewLine == 10
SignatureLines(a) ==
  IF a \in DOMAIN firmware.tables
    THEN LET length == LengthOf(firmware.tables[a])
         IN  Cardinality({k \in PrintedOf(length) : Bytes(length)[k] = NewLine})
    ELSE 0

\* strcmp looks at up to four bytes.
TableRead ==
  [at |-> table,
   length |-> IF IsMadt(table) THEN 44 ELSE IF UsesXsdt THEN SignatureBytes(table) ELSE 4]

PrintSignature == IF UsesXsdt THEN Output(SignatureLines(table)) ELSE UNCHANGED <<row, interrupts>>

SkipTable ==
  /\ step = "table" /\ ~IsMadt(table)
  /\ Mapped(TableRead.at, TableRead.length)
  /\ PrintSignature
  /\ index' = index + 1
  /\ step' = "list"
  /\ UNCHANGED <<firmware, space, apic, table, offset>>

OpenMadt ==
  /\ step = "table" /\ IsMadt(table)
  /\ Mapped(TableRead.at, TableRead.length)
  /\ PrintSignature
  /\ apic' = [apic EXCEPT !.local = Madt.local]
  /\ offset' = 44
  /\ step' = "records"
  /\ UNCHANGED <<firmware, space, index, table>>

------------------------------------------------------------------------------
\* The records, by their offset: where the record before says that it ends.

MadtEnd_OneShort == RecordOffset(Madt, Len(Madt.records))  \* mutant: the last is left out
MadtEnd == RecordOffset(Madt, Len(Madt.records) + 1)

Record == Madt.records[Min({n \in DOMAIN Madt.records : RecordOffset(Madt, n) = offset})]

\* The bytes that are looked at: type and length, the id, the address.
RecordRead == [at |-> table + offset,
               length |-> IF Record.type = LocalApic THEN 3 ELSE IF Record.type = IoApic THEN 8 ELSE 2]

OffsetAfter_KnownOnly(r) ==                \* mutant: the cases of the switch advance
  IF r.type \in {LocalApic, IoApic} THEN offset + r.length ELSE offset
OffsetAfter(r) == offset + r.length

\* The walk over the RSDT finds an I/O APIC without a word.
LinesOf(r) == IF r.type = LocalApic \/ (r.type = IoApic /\ UsesXsdt) THEN 1 ELSE 0

NextRecord ==
  /\ step = "records" /\ offset < MadtEnd
  /\ Mapped(RecordRead.at, RecordRead.length)
  /\ apic' = IF Record.type = IoApic THEN [apic EXCEPT !.io = Record.address] ELSE apic
  /\ Output(LinesOf(Record))
  /\ offset' = OffsetAfter(Record)
  /\ UNCHANGED <<firmware, space, step, index, table>>

\* The break behind the walk leaves the list.
EndOfRecords ==
  /\ step = "records" /\ offset >= MadtEnd
  /\ step' = "done"
  /\ UNCHANGED <<firmware, space, apic, index, table, offset, row, interrupts>>

\* The read that comes next is not mapped.
Fault ==
  /\ \/ step = "list" /\ index <= LastIndex /\ ~Mapped(ListRead.at, ListRead.length)
     \/ step = "table" /\ ~Mapped(TableRead.at, TableRead.length)
     \/ step = "records" /\ offset < MadtEnd /\ ~Mapped(RecordRead.at, RecordRead.length)
  /\ step' = "fault"
  /\ UNCHANGED <<firmware, space, apic, index, table, offset, row, interrupts>>

ParseAcpi ==
  \/ NoXsdp
  \/ OpenList
  \/ NextTable
  \/ EndOfList
  \/ SkipTable
  \/ OpenMadt
  \/ NextRecord
  \/ EndOfRecords
  \/ Fault

------------------------------------------------------------------------------
AcpiTypeOK ==
  /\ apic \in [local : Nat, io : Nat]
  /\ step \in {"start", "list", "table", "records", "done", "halted", "fault"}
  /\ index \in 1 .. Max({RsdtEntries, Len(firmware.list)}) + 1
  /\ table \in Nat /\ offset \in Nat
  /\ row \in 0 .. Height - 1 /\ interrupts \in BOOLEAN
  /\ \A r \in space : r.from \in Int /\ r.to \in Int

\* Inductive: the walk is at a table of the list, or at a record of a MADT.
WalkInv ==
  /\ AcpiTypeOK /\ firmware \in Firmwares
  /\ step = "table" => index <= LastIndex
  /\ step = "records" =>
       IsMadt(table) /\ \E k \in 1 .. Len(Madt.records) + 1 : offset = RecordOffset(Madt, k)

\* The entries the walk looks at: the first of an XSDT is not among them.
InList == {i \in DOMAIN firmware.list : IF UsesXsdt THEN i > 1 ELSE i <= RsdtEntries}
FirstMadt == firmware.tables[firmware.list[Min({i \in InList : IsMadt(firmware.list[i])})]]
IoApics(m) == {n \in DOMAIN m.records : m.records[n].type = IoApic}

\* When parse_acpi returns, apic holds what the first MADT of the list says: the
\* local APIC, and the last I/O APIC.  Without a MADT it is as it was.
ApicFound ==
  step = "done" =>
    IF \E i \in InList : IsMadt(firmware.list[i])
      THEN /\ apic.local = FirstMadt.local
           /\ apic.io = IF IoApics(FirstMadt) = {} THEN NoApic
                        ELSE FirstMadt.records[Max(IoApics(FirstMadt))].address
      ELSE IsMadt(firmware.behind) \/ apic = [local |-> NoApic, io |-> NoApic]

\* What the walk needs to be right: an I/O APIC has a record with a length.
IoApicsSized ==
  \A f \in Firmwares : \A a \in DOMAIN f.tables :
    f.tables[a].signature = "APIC" => \A n \in DOMAIN f.tables[a].records :
      f.tables[a].records[n].type = IoApic => f.tables[a].records[n].length > 0

\* Inductive: no MADT was passed over, and the I/O APIC is that of the last record
\* behind which the walk has come.
Place(i) == IF UsesXsdt THEN i + 1 ELSE i
NonePassed == \A i \in InList : i < Place(index) => ~IsMadt(firmware.list[i])

LastIoApic(k) ==
  LET passed == {n \in IoApics(Madt) : n < k}
  IN  IF passed = {} THEN NoApic ELSE Madt.records[Max(passed)].address

AtFirstMadt ==
  /\ IsMadt(table) /\ apic.local = Madt.local
  /\ IF \E i \in InList : IsMadt(firmware.list[i])
       THEN Madt = FirstMadt ELSE IsMadt(firmware.behind)

AcpiInv ==
  /\ firmware \in Firmwares
  /\ index \in Nat \ {0}
  /\ step \in {"start", "list", "table"} =>
       NonePassed /\ apic = [local |-> NoApic, io |-> NoApic]
  /\ step = "table" => index <= LastIndex /\ table = TableAddress(index)
  /\ step = "records" =>
       /\ AtFirstMadt
       /\ \E k \in 1 .. Len(Madt.records) + 1 :
            offset = RecordOffset(Madt, k) /\ apic = [local |-> Madt.local, io |-> LastIoApic(k)]
  /\ ApicFound
=============================================================================
