-------------------------------- MODULE Ata ---------------------------------
(***************************************************************************)
(* The disk driver: read_sector programs the registers of the drive, polls *)
(* its status and reads one sector through the data port.  The drive is    *)
(* external: it takes its time to raise BSY, then either raises DRQ with   *)
(* the sector its registers name, or reports an error without DRQ.         *)
(* Byte n of sector s is named <<s, n>>.                                   *)
(***************************************************************************)
EXTENDS Integers, Sequences

CONSTANTS
  Lbas,       \* the lba arguments callers pass
  ByteSpan,   \* values of one byte of an lba: 256
  HeadSpan,   \* values of the low nibble of HEAD: 16
  Words,      \* words of a sector: 256
  Unread      \* a byte of the buffer not yet read

ASSUME AtaAssumption ==
  /\ Lbas \subseteq Nat /\ ByteSpan \in Nat \ {0} /\ HeadSpan \in Nat \ {0}
  /\ Words \in Nat \ {0}

VARIABLES
  pc,         \* "idle", "program", "busy" and "request" (the two polls), "transfer"
  lba, data,  \* the arguments of read_sector
  step,       \* registers written, then words read
  regs,       \* the registers of the drive
  drive,      \* "ready", "accepting", "busy" (BSY), "data" (DRQ), "failed" (ERR)
  left        \* words the drive has not delivered yet

vars == <<pc, lba, data, step, regs, drive, left>>

\* The order in which they are written; the last one starts the command.
Registers == <<"HEAD", "SECTOR_COUNT", "LBALOW", "LBAMID", "LBAHIGH", "COMMAND">>
RegisterNames == {"HEAD", "SECTOR_COUNT", "LBALOW", "LBAMID", "LBAHIGH", "COMMAND"}

\* A shift by one byte, and the register a byte is cut to.
Shifted(n) == n \div ByteSpan
LowByte(n) == n % ByteSpan

Value(r) ==
  CASE r = "HEAD" -> [drive |-> "master",
                      lba |-> Shifted(Shifted(Shifted(lba))) % HeadSpan]
    [] r = "SECTOR_COUNT" -> 1
    [] r = "LBALOW" -> LowByte(lba)
    [] r = "LBAMID" -> LowByte(Shifted(lba))
    [] r = "LBAHIGH" -> LowByte(Shifted(Shifted(lba)))
    [] r = "COMMAND" -> 32

Init ==
  /\ pc = "idle" /\ lba = 0 /\ step = 0 /\ drive = "ready" /\ left = 0
  /\ data = [n \in 0 .. 2 * Words - 1 |-> Unread]
  /\ regs = [r \in RegisterNames |->
              IF r = "HEAD" THEN [drive |-> "master", lba |-> 0] ELSE 0]

Call ==
  /\ pc = "idle"
  /\ lba' \in Lbas
  /\ data' = [n \in DOMAIN data |-> Unread]
  /\ pc' = "program" /\ step' = 0
  /\ UNCHANGED <<regs, drive, left>>

WriteRegister ==
  /\ pc = "program"
  /\ LET r == Registers[step + 1]
     IN  /\ regs' = [regs EXCEPT ![r] = Value(r)]
         /\ drive' = IF r = "COMMAND" THEN "accepting" ELSE drive
         /\ pc' = IF r = "COMMAND" THEN "busy" ELSE pc
         /\ step' = IF r = "COMMAND" THEN 0 ELSE step + 1
  /\ UNCHANGED <<lba, data, left>>

\* The two polls; until they have seen what they wait for they spin.
HasFinished_Inverted == drive = "busy"   \* mutant: BSY is awaited instead
HasFinished == drive # "busy"

PollBusy ==
  /\ pc = "busy"
  /\ pc' = IF HasFinished THEN "request" ELSE pc
  /\ UNCHANGED <<lba, data, step, regs, drive, left>>

HasRequest_NotBusy == drive # "busy"   \* mutant: not being busy is taken for DRQ
HasRequest == drive = "data"

PollRequest ==
  /\ pc = "request"
  /\ pc' = IF HasRequest THEN "transfer" ELSE pc
  /\ UNCHANGED <<lba, data, step, regs, drive, left>>

\* The word the drive has next, or nothing it has to say.
Addressed ==
  ((regs["HEAD"].lba * ByteSpan + regs["LBAHIGH"]) * ByteSpan + regs["LBAMID"])
     * ByteSpan + regs["LBALOW"]
Port(half) == IF left = 0 THEN Unread ELSE <<Addressed, 2 * (Words - left) + half>>

WordsRead_OneShort == Words - 1   \* mutant: the last word is left in the drive
WordsRead == Words

ReadWord ==
  /\ pc = "transfer" /\ step < WordsRead
  /\ data' = [data EXCEPT ![2 * step] = Port(0), ![2 * step + 1] = Port(1)]
  /\ left' = IF left = 0 THEN 0 ELSE left - 1
  /\ drive' = IF left = 1 THEN "ready" ELSE drive
  /\ step' = step + 1
  /\ UNCHANGED <<pc, lba, regs>>

Return ==
  /\ pc = "transfer" /\ step = WordsRead
  /\ pc' = "idle" /\ step' = 0
  /\ UNCHANGED <<lba, data, regs, drive, left>>

RaiseBusy ==
  /\ drive = "accepting"
  /\ drive' = "busy"
  /\ UNCHANGED <<pc, lba, data, step, regs, left>>

Answer ==
  /\ drive = "busy"
  /\ \/ drive' = "data" /\ left' = Words
     \/ drive' = "failed" /\ UNCHANGED left
  /\ UNCHANGED <<pc, lba, data, step, regs>>

Driver == Call \/ WriteRegister \/ PollBusy \/ PollRequest \/ ReadWord \/ Return
Drive == RaiseBusy \/ Answer

Next == Driver \/ Drive

Spec == Init /\ [][Next]_vars /\ WF_vars(Driver) /\ WF_vars(Drive)

------------------------------------------------------------------------------
\* The driver touches the registers, and returns, only while the drive has
\* nothing under way, although it never looks before it writes.
OnlyWhenReady == pc \in {"idle", "program"} => drive = "ready"

\* The address has 28 bits.
AddressSpan == HeadSpan * ByteSpan * ByteSpan * ByteSpan

\* A call that has returned has filled its buffer with the bytes of the sector it
\* was asked for, in order.
RightSector ==
  pc = "transfer" /\ step = WordsRead /\ lba < AddressSpan =>
    \A n \in DOMAIN data : data[n] = <<lba, n>>

\* Types of the state; the content of the buffer is RightSector's.
TypeOK ==
  /\ pc \in {"idle", "program", "busy", "request", "transfer"}
  /\ lba \in Nat
  /\ DOMAIN data = 0 .. 2 * Words - 1
  /\ step \in Nat
  /\ DOMAIN regs = RegisterNames
  /\ drive \in {"ready", "accepting", "busy", "data", "failed"}
  /\ left \in 0 .. Words

\* The inductive invariant: which registers are written, how far the drive is while
\* the driver polls and transfers, and which bytes have arrived.
Programmed(k) == \A i \in 1 .. k : regs[Registers[i]] = Value(Registers[i])
AllProgrammed == Programmed(6)

IInv ==
  /\ TypeOK
  /\ OnlyWhenReady
  /\ drive \notin {"data", "ready"} => left = 0 /\ pc \in {"busy", "request"}
  /\ drive = "ready" => left = 0
  /\ pc = "program" => step < 6 /\ Programmed(step)
  /\ pc \in {"busy", "request"} =>
       /\ step = 0
       /\ AllProgrammed
       /\ drive # "ready"
       /\ drive = "data" => left = Words
  /\ pc = "transfer" =>
       /\ AllProgrammed
       /\ step <= Words
       /\ left = Words - step
       /\ drive = IF left = 0 THEN "ready" ELSE "data"
       /\ \A n \in 0 .. 2 * step - 1 : data[n] = <<Addressed, n>>

\* Every call returns, unless the drive reports an error, which nobody looks for.
ReadEnds == pc = "program" ~> (pc = "idle" \/ drive = "failed")
=============================================================================
