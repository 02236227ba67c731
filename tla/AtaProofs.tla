------------------------------ MODULE AtaProofs ------------------------------
(***************************************************************************)
(* For addresses, registers and sectors of every size: read_sector touches *)
(* the drive only while it rests and fills the buffer with the bytes of    *)
(* the sector it was asked for, as long as the address fits the registers. *)
(***************************************************************************)
EXTENDS Ata, TLAPS

LEMMA RegisterOrder ==
  /\ \A i \in 1 .. 6 : /\ Registers[i] \in RegisterNames
                       /\ Registers[i] = "COMMAND" <=> i = 6
                       /\ \A j \in 1 .. 6 : Registers[i] = Registers[j] <=> i = j
  /\ Registers[1] = "HEAD" /\ Registers[3] = "LBALOW"
  /\ Registers[4] = "LBAMID" /\ Registers[5] = "LBAHIGH"
BY DEF Registers, RegisterNames

\* A number is its upper part and the part that a division cuts off.
LEMMA Divided ==
  ASSUME NEW n \in Nat, NEW d \in Nat \ {0}
  PROVE  /\ n \div d \in Nat /\ n % d \in Nat
         /\ n = (n \div d) * d + (n % d)
  OBVIOUS

\* One shift takes one factor off a bound.
LEMMA ShiftedBound ==
  ASSUME NEW n \in Nat, NEW b \in Nat, n < b * ByteSpan
  PROVE  Shifted(n) < b
<1> USE AtaAssumption
<1>1. n = Shifted(n) * ByteSpan + (n % ByteSpan) /\ Shifted(n) \in Nat
      /\ n % ByteSpan \in Nat
  BY Divided DEF Shifted
<1>2. SUFFICES ASSUME Shifted(n) >= b PROVE FALSE
  BY <1>1
<1>3. Shifted(n) * ByteSpan >= b * ByteSpan
  BY <1>1, <1>2
<1> QED
  BY <1>1, <1>3

\* The four registers name the sector: the bytes and the nibble the driver cuts an
\* address into make up the address again, if it has no further bits.
LEMMA AddressedSector ==
  ASSUME lba \in Nat, lba < AddressSpan, AllProgrammed
  PROVE  Addressed = lba
<1> USE AtaAssumption
<1> DEFINE s1 == Shifted(lba)
           s2 == Shifted(s1)
           s3 == Shifted(s2)
<1>1. \A n \in Nat : /\ Shifted(n) \in Nat /\ LowByte(n) \in Nat
                     /\ n = Shifted(n) * ByteSpan + LowByte(n)
  BY Divided DEF Shifted, LowByte
<1>2. s1 \in Nat /\ s2 \in Nat /\ s3 \in Nat
  BY <1>1
<1>3. s3 < HeadSpan
  <2>1. HeadSpan * ByteSpan * ByteSpan \in Nat /\ HeadSpan * ByteSpan \in Nat
    OBVIOUS
  <2>2. s1 < HeadSpan * ByteSpan * ByteSpan
    BY <2>1, ShiftedBound DEF AddressSpan
  <2>3. s2 < HeadSpan * ByteSpan
    BY <2>1, <2>2, <1>2, ShiftedBound
  <2> QED
    BY <2>3, <1>2, ShiftedBound
<1>4. s3 % HeadSpan = s3
  BY <1>2, <1>3
<1>5. /\ regs["HEAD"].lba = s3 /\ regs["LBAHIGH"] = LowByte(s2)
      /\ regs["LBAMID"] = LowByte(s1) /\ regs["LBALOW"] = LowByte(lba)
  BY <1>4, RegisterOrder DEF AllProgrammed, Programmed, Value
<1>6. s2 = s3 * ByteSpan + LowByte(s2) /\ s1 = s2 * ByteSpan + LowByte(s1)
      /\ lba = s1 * ByteSpan + LowByte(lba)
  BY <1>1, <1>2
<1> QED
  BY <1>5, <1>6 DEF Addressed

\* Only lba and the registers of the drive decide what is programmed.
LEMMA ProgrammedKept ==
  ASSUME UNCHANGED <<lba, regs>>
  PROVE  /\ \A k \in Nat : Programmed(k)' <=> Programmed(k)
         /\ AllProgrammed' <=> AllProgrammed
         /\ Addressed' = Addressed
<1>1. \A r : Value(r)' = Value(r)
  BY DEF Value, Shifted, LowByte
<1> QED
  BY <1>1 DEF Programmed, AllProgrammed, Registers, Addressed

LEMMA InitInv == Init => IInv
<1> SUFFICES ASSUME Init PROVE IInv
  OBVIOUS
<1> QED
  BY AtaAssumption, RegisterOrder DEF Init, IInv, TypeOK, OnlyWhenReady, Programmed

LEMMA StepInv ==
  ASSUME IInv, [Next]_vars
  PROVE  IInv'
<1> USE AtaAssumption
<1>1. /\ TypeOK /\ step \in Nat /\ left \in 0 .. Words /\ Words \in Nat \ {0}
      /\ DOMAIN data = 0 .. 2 * Words - 1
  BY DEF IInv, TypeOK
<1>2. ASSUME Call PROVE IInv'
  <2>1. Programmed(0)'
    BY DEF Programmed
  <2>2. lba' \in Nat
    BY <1>2 DEF Call
  <2> QED
    BY <1>1, <1>2, <2>1, <2>2, RegisterOrder DEF Call, IInv, TypeOK, OnlyWhenReady
<1>3. ASSUME WriteRegister PROVE IInv'
  <2> DEFINE r == Registers[step + 1]
  <2>1. pc = "program" /\ drive = "ready" /\ left = 0 /\ step \in 0 .. 5
        /\ Programmed(step) /\ UNCHANGED <<lba, data, left>>
    BY <1>1, <1>3, RegisterOrder DEF WriteRegister, IInv, TypeOK, OnlyWhenReady
  <2>2. /\ DOMAIN regs' = DOMAIN regs
        /\ regs' = [regs EXCEPT ![r] = Value(r)]
    BY <1>3 DEF WriteRegister
  <2>3. \A i \in 1 .. step + 1 : regs'[Registers[i]] = Value(Registers[i])'
    <3>1. \A x : Value(x)' = Value(x)
      BY <2>1 DEF Value, Shifted, LowByte
    <3>2. \A i \in 1 .. step : regs'[Registers[i]] = Value(Registers[i])
      BY <2>1, <2>2, RegisterOrder DEF Programmed
    <3>3. regs'[r] = Value(r)
      BY <1>1, <2>1, <2>2, RegisterOrder DEF TypeOK
    <3> QED
      BY <3>1, <3>2, <3>3, <2>1 DEF Programmed
  <2>4. CASE step = 5
    <3>1. drive' = "accepting" /\ pc' = "busy" /\ step' = 0
      BY <2>4, <1>3, RegisterOrder DEF WriteRegister
    <3>2. AllProgrammed'
      BY <2>3, <2>4 DEF AllProgrammed, Programmed
    <3> QED
      BY <1>1, <2>1, <2>2, <3>1, <3>2 DEF IInv, TypeOK, OnlyWhenReady
  <2>5. CASE step # 5
    <3>1. drive' = drive /\ pc' = pc /\ step' = step + 1
      BY <2>1, <2>5, <1>3, RegisterOrder DEF WriteRegister
    <3>2. Programmed(step)'
      BY <2>3, <3>1 DEF Programmed
    <3> QED
      BY <1>1, <2>1, <2>2, <2>5, <3>1, <3>2 DEF IInv, TypeOK, OnlyWhenReady
  <2> QED
    BY <2>4, <2>5
<1>4. ASSUME PollBusy \/ PollRequest PROVE IInv'
  <2>1. /\ UNCHANGED <<lba, data, step, regs, drive, left>>
        /\ pc \in {"busy", "request"}
        /\ pc' \in {"busy", "request", "transfer"}
        /\ pc' = "transfer" => drive = "data"
    BY <1>4 DEF PollBusy, PollRequest, HasRequest
  <2>2. AllProgrammed' /\ AllProgrammed
    BY <2>1, ProgrammedKept DEF IInv
  <2>3. TypeOK'
    BY <2>1, <1>1 DEF TypeOK
  <2> QED
    BY <1>1, <2>1, <2>2, <2>3 DEF IInv, OnlyWhenReady
<1>5. ASSUME ReadWord PROVE IInv'
  <2>1. pc = "transfer" /\ step < Words /\ left = Words - step /\ left > 0
        /\ drive = "data" /\ AllProgrammed
        /\ UNCHANGED <<pc, lba, regs>>
    BY <1>1, <1>5 DEF ReadWord, WordsRead, IInv
  <2>2. step' = step + 1 /\ left' = left - 1
        /\ drive' = IF left' = 0 THEN "ready" ELSE "data"
    BY <1>1, <1>5, <2>1 DEF ReadWord
  <2>3. AllProgrammed'
    BY <2>1, ProgrammedKept
  <2>4. Port(0) = <<Addressed, 2 * step>> /\ Port(1) = <<Addressed, 2 * step + 1>>
    BY <1>1, <2>1 DEF Port
  <2>5. DOMAIN data' = DOMAIN data /\ Addressed' = Addressed
    BY <1>5, <2>1 DEF ReadWord, Addressed
  <2>6. \A n \in 0 .. 2 * step' - 1 : data'[n] = <<Addressed', n>>
    <3> SUFFICES ASSUME NEW n \in 0 .. 2 * step + 1
                 PROVE  data'[n] = <<Addressed, n>>
      BY <2>2, <2>5, <1>1
    <3>1. n \in DOMAIN data /\ 2 * step \in DOMAIN data
          /\ 2 * step + 1 \in DOMAIN data
      BY <1>1, <2>1
    <3>2. CASE n = 2 * step
      BY <3>1, <3>2, <1>1, <1>5, <2>4 DEF ReadWord
    <3>3. CASE n = 2 * step + 1
      BY <3>1, <3>3, <1>1, <1>5, <2>4 DEF ReadWord
    <3>4. CASE n \in 0 .. 2 * step - 1
      BY <3>1, <3>4, <1>1, <1>5, <2>1 DEF ReadWord, IInv
    <3> QED
      BY <3>2, <3>3, <3>4, <1>1
  <2>7. TypeOK'
    BY <1>1, <2>1, <2>2, <2>5 DEF TypeOK
  <2> QED
    BY <1>1, <2>1, <2>2, <2>3, <2>6, <2>7 DEF IInv, OnlyWhenReady
<1>6. ASSUME Return PROVE IInv'
  <2>1. pc = "transfer" /\ step = Words /\ left = 0 /\ drive = "ready"
        /\ pc' = "idle" /\ step' = 0 /\ UNCHANGED <<lba, data, regs, drive, left>>
    BY <1>1, <1>6 DEF Return, WordsRead, IInv
  <2> QED
    BY <1>1, <2>1 DEF IInv, TypeOK, OnlyWhenReady
<1>7. ASSUME RaiseBusy \/ Answer PROVE IInv'
  <2>1. UNCHANGED <<pc, lba, data, step, regs>> /\ drive \in {"accepting", "busy"}
        /\ \/ drive' \in {"busy", "failed"} /\ left' = left
           \/ drive' = "data" /\ left' = Words
    BY <1>7 DEF RaiseBusy, Answer
  <2>2. pc \in {"busy", "request"} /\ left = 0
    BY <2>1 DEF IInv
  <2>3. AllProgrammed'
    BY <2>1, <2>2, ProgrammedKept DEF IInv
  <2> QED
    BY <1>1, <2>1, <2>2, <2>3 DEF IInv, TypeOK, OnlyWhenReady
<1>8. ASSUME UNCHANGED vars PROVE IInv'
  BY <1>1, <1>8, ProgrammedKept DEF vars, IInv, TypeOK, OnlyWhenReady
<1> QED
  BY <1>2, <1>3, <1>4, <1>5, <1>6, <1>7, <1>8 DEF Next, Driver, Drive

\* How far the drive is, at every step of read_sector: a transfer has as many words
\* left as the driver has still to read, so the drive rests when the call returns.
THEOREM AtaInvariant == Spec => []IInv
<1>1. IInv /\ [Next]_vars => IInv'
  BY StepInv
<1> QED
  BY <1>1, InitInv, PTL DEF Spec

\* read_sector never looks at the status before it writes the registers, and never
\* needs to: every call leaves the drive with an empty data port.
THEOREM OnlyWhenReadyHolds == Spec => []OnlyWhenReady
<1>1. IInv => OnlyWhenReady
  BY DEF IInv
<1> QED
  BY <1>1, AtaInvariant, PTL

\* The buffer of a finished call holds the bytes of the sector asked for, in order.
THEOREM RightSectorHolds == Spec => []RightSector
<1>1. IInv => RightSector
  <2> SUFFICES ASSUME IInv, pc = "transfer", step = Words, lba < AddressSpan,
                      NEW n \in DOMAIN data
               PROVE  data[n] = <<lba, n>>
    BY DEF RightSector, WordsRead
  <2>1. Addressed = lba
    BY AddressedSector DEF IInv, TypeOK
  <2>2. n \in 0 .. 2 * step - 1
    BY DEF IInv, TypeOK
  <2> QED
    BY <2>1, <2>2 DEF IInv
<1> QED
  BY <1>1, AtaInvariant, PTL
=============================================================================
