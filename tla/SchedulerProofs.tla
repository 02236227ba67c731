--------------------------- MODULE SchedulerProofs ---------------------------
(***************************************************************************)
(* For every number of processes and every set of register values: as long *)
(* as the machine raises only vectors the handler switches on, IInv is an  *)
(* invariant and the scheduler implements VirtualCpus.  Whatever vectors   *)
(* it raises, interrupts do not nest and no process runs on another one's  *)
(* stack.                                                                  *)
(***************************************************************************)
EXTENDS Scheduler, TLAPS

\* Only vectors that make the handler switch contexts are raised.
OnlySwitchVectors == Vectors \subseteq SwitchVectors

LEMMA AdvanceCounterType ==
  ASSUME NEW c \in Pid
  PROVE  /\ AdvanceCounter(c) \in Pid
         /\ NumProcesses > 1 => AdvanceCounter(c) # c
  BY SchedulerAssumption DEF AdvanceCounter, Pid

\* The comparison of the source computes the successor modulo the table.
LEMMA NextInTurn ==
  ASSUME NEW c \in Pid
  PROVE  AdvanceCounter(c) = (c + 1) % NumProcesses
<1> USE SchedulerAssumption
<1>1. CASE c = NumProcesses - 1
  <2>1. NumProcesses % NumProcesses = 0
    OBVIOUS
  <2> QED
    BY <1>1, <2>1 DEF AdvanceCounter, Pid
<1>2. CASE c # NumProcesses - 1
  <2>1. c + 1 \in 0 .. NumProcesses - 1
    BY <1>2 DEF Pid
  <2>2. (c + 1) % NumProcesses = c + 1
    BY <2>1
  <2> QED
    BY <1>2, <2>2 DEF AdvanceCounter
<1> QED
  BY <1>1, <1>2

LEMMA InitInv == Init => IInv
<1> SUFFICES ASSUME Init PROVE IInv
  OBVIOUS
<1> USE SchedulerAssumption
<1>0. 0 \in Pid /\ NumProcesses \in 0 .. NumProcesses
      /\ \A p \in Pid : p \in 0 .. NumProcesses
  BY DEF Pid
<1>1. cpu \in Context /\ cpu.rip = 0 /\ cpu.rsp = 0 /\ cpu.flags
  <2>1. PICK v \in Values, w \in Values :
             cpu = [FreshContext(0) EXCEPT !.gpr = v, !.rbx = w]
    BY DEF Init
  <2>2. cpu = [rip |-> 0, rsp |-> 0, gpr |-> v, rbx |-> w, flags |-> TRUE]
    BY <2>1 DEF FreshContext
  <2> QED
    BY <2>2, <1>0 DEF Context
<1>2. NullContext \in Context
  BY <1>0 DEF Context, NullContext, NoCode
<1>3. \A p \in Pid : FreshContext(p) \in Context
  BY <1>0 DEF Context, FreshContext
<1>4. processes \in [Pid -> Context]
      /\ \A p \in Pid : p # 0 => processes[p] = FreshContext(p)
  BY <1>2, <1>3 DEF Init
<1>5. 1 % TickModulus \in 0 .. TickModulus - 1
  OBVIOUS
<1>6. TypeOK
  BY <1>0, <1>1, <1>2, <1>4, <1>5 DEF Init, TypeOK, Stages
<1>7. SlotIntegrity
  BY <1>1, <1>4 DEF Init, SlotIntegrity, SlotIsStale, FreshContext
<1> QED
  BY <1>0, <1>1, <1>6, <1>7 DEF Init, IInv, CounterNamesRunning, OwnStack

LEMMA StepInv ==
  ASSUME OnlySwitchVectors, IInv, [Next]_vars
  PROVE  IInv'
<1> USE SchedulerAssumption
<1>1. TypeOK /\ cpu \in Context /\ processes \in [Pid -> Context] /\ counter \in Pid
      /\ frame \in Context /\ cpu.rip \in Pid
  BY DEF IInv, TypeOK
<1>2. ASSUME NEW v \in Vectors, Raise(v) PROVE IInv'
  BY <1>2, <1>1 DEF Raise, IInv, TypeOK, SlotIntegrity, SlotIsStale,
     CounterNamesRunning, OwnStack
<1>3. ASSUME NEW v \in Vectors, Interrupt(v) PROVE IInv'
  <2>1. stage = "run" /\ cpu.flags
    BY <1>3 DEF Interrupt, Deliverable, IInv
  <2>2. cpu' = [cpu EXCEPT !.flags = FALSE] /\ frame' = cpu /\ stage' = "stub"
    BY <1>3, <2>1 DEF Interrupt, FlagAfterGate
  <2>3. /\ cpu' \in Context /\ ~cpu'.flags
        /\ cpu'.rip = cpu.rip /\ cpu'.rsp = cpu.rsp
    BY <2>2, <1>1 DEF Context
  <2>4. TypeOK'
    BY <1>1, <2>2, <2>3, <1>3 DEF TypeOK, Interrupt, Stages
  <2> QED
    BY <1>1, <2>1, <2>2, <2>3, <2>4, <1>3 DEF Interrupt, IInv, SlotIntegrity,
       SlotIsStale, CounterNamesRunning, OwnStack
<1>4. ASSUME Execute \/ Cli \/ Sti PROVE IInv'
  <2>1. /\ stage = "run"
        /\ UNCHANGED <<processes, counter, stage, frame, vector, ret, pending,
                       inService, val>>
    BY <1>4 DEF Execute, Cli, Sti, CanExecute
  <2>2. cpu' \in Context /\ cpu'.rip = cpu.rip /\ cpu'.rsp = cpu.rsp
    <3>1. CASE Execute
      <4>1. PICK v, w \in Values : cpu' = [cpu EXCEPT !.gpr = v, !.rbx = w]
        BY <3>1 DEF Execute
      <4> QED
        BY <4>1, <1>1 DEF Context
    <3>2. CASE Cli \/ Sti
      <4>1. PICK b \in BOOLEAN : cpu' = [cpu EXCEPT !.flags = b]
        BY <3>2 DEF Cli, Sti
      <4> QED
        BY <4>1, <1>1 DEF Context
    <3> QED
      BY <1>4, <3>1, <3>2
  <2> QED
    BY <2>1, <2>2, <1>1 DEF IInv, TypeOK, SlotIntegrity, SlotIsStale,
       CounterNamesRunning, OwnStack
<1>5. ASSUME Stub PROVE IInv'
  <2>1. stage = "stub" /\ counter = cpu.rip /\ frame.rip = cpu.rip
        /\ frame.rsp = cpu.rip /\ frame.flags
    BY <1>5 DEF Stub, IInv, CounterNamesRunning
  <2>2. /\ cpu' \in Context /\ ~cpu'.flags
        /\ cpu'.rip = cpu.rip /\ cpu'.rsp = cpu.rsp
    BY <1>5, <1>1 DEF Stub, Context
  <2> DEFINE saved == SavedContext(processes[counter], frame)
  <2>3. /\ saved \in Context
        /\ saved.rip = frame.rip /\ saved.rsp = frame.rsp
        /\ saved.gpr = frame.gpr /\ saved.flags = frame.flags
    BY <1>1 DEF SavedContext, Context
  <2>4. /\ processes' \in [Pid -> Context]
        /\ processes'[counter] = saved
        /\ \A p \in Pid \ {counter} : processes'[p] = processes[p]
    BY <1>5, <1>1, <2>3 DEF Stub
  <2>5. stage' = "dispatch" /\ counter' = AdvanceCounter(counter)
        /\ UNCHANGED <<frame, vector, ret, pending, inService, val>>
    BY <1>5 DEF Stub
  <2>6. TypeOK'
    BY <1>1, <2>2, <2>4, <2>5, AdvanceCounterType DEF TypeOK, Stages
  <2>7. SlotIntegrity'
    <3> SUFFICES ASSUME NEW p \in Pid
                 PROVE  /\ processes'[p].rip = p
                        /\ processes'[p].rsp = p
                        /\ processes'[p].flags
      BY DEF SlotIntegrity
    <3>1. CASE p = counter
      BY <3>1, <2>1, <2>3, <2>4
    <3>2. CASE p # counter
      BY <3>2, <2>1, <2>4 DEF IInv, SlotIntegrity, SlotIsStale
    <3> QED
      BY <3>1, <3>2
  <2> QED
    BY <1>1, <2>1, <2>2, <2>3, <2>4, <2>5, <2>6, <2>7 DEF IInv,
       CounterNamesRunning, OwnStack
<1>6. ASSUME SwitchContext PROVE IInv'
  <2>1. (val + 1) % TickModulus \in 0 .. TickModulus - 1
    BY <1>1 DEF TypeOK
  <2>2. TypeOK'
    BY <1>6, <1>1, <2>1 DEF SwitchContext, ReturnedSlot, TypeOK, Stages
  <2> QED
    BY <1>6, <1>1, <2>2 DEF SwitchContext, ReturnedSlot, IInv, SlotIntegrity, SlotIsStale,
       CounterNamesRunning, OwnStack
<1>7. ~IgnoreVector /\ ~Halt
  BY <1>1 DEF IgnoreVector, Halt, OnlySwitchVectors, SwitchVectors, HaltVector,
     TypeOK
<1>8. ASSUME Return PROVE IInv'
  <2>1. stage = "return" /\ ret = counter /\ counter # OnStack
        /\ stage' = "run" /\ cpu' = processes[counter]
        /\ UNCHANGED <<processes, counter, vector, ret, pending, inService, val>>
    BY <1>8, <1>1 DEF Return, IInv, OnStack, Pid
  <2>2. cpu'.rip = counter /\ cpu'.rsp = counter /\ cpu' \in Context
    BY <2>1, <1>1 DEF IInv, SlotIntegrity, SlotIsStale
  <2>3. frame' \in Context
    BY <1>8 DEF Return, NullContext, Context, NoCode
  <2>4. TypeOK'
    BY <1>1, <2>1, <2>2, <2>3 DEF TypeOK, Stages
  <2>5. SlotIntegrity'
    BY <2>1, <2>2 DEF IInv, SlotIntegrity, SlotIsStale
  <2> QED
    BY <1>1, <2>1, <2>2, <2>4, <2>5 DEF IInv, CounterNamesRunning, OwnStack
<1>9. ASSUME UNCHANGED vars PROVE IInv'
  BY <1>9 DEF vars, IInv, TypeOK, SlotIntegrity, SlotIsStale,
     CounterNamesRunning, OwnStack
<1> QED
  BY <1>2, <1>3, <1>4, <1>5, <1>6, <1>7, <1>8, <1>9 DEF Next

\* Every slot but the running process's can be resumed as it is, counter names
\* the process whose slot comes next, and interrupts never nest: the three
\* facts save_context, schedule and the stub rely on.
THEOREM SchedulerInvariant == OnlySwitchVectors => (Spec => []IInv)
<1> SUFFICES ASSUME OnlySwitchVectors PROVE Spec => []IInv
  OBVIOUS
<1>1. IInv /\ [Next]_vars => IInv'
  BY StepInv
<1> QED
  BY <1>1, InitInv, PTL DEF Spec

\* Every slot but the running process's holds the code and stack of the process
\* it belongs to, with interrupts enabled, although save_context and schedule
\* find the slots through counter alone.
THEOREM SlotIntegrityHolds == OnlySwitchVectors => (Spec => []SlotIntegrity)
<1>1. IInv => SlotIntegrity
  BY DEF IInv
<1> QED
  BY <1>1, SchedulerInvariant, PTL

\* interrupt_general_handler acknowledges the timer before the stub resumes the
\* next process, so that no tick is blocked.
THEOREM AckedBeforeResumeHolds ==
  OnlySwitchVectors => (Spec => []AckedBeforeResume)
<1>1. IInv => AckedBeforeResume
  BY DEF IInv, AckedBeforeResume
<1> QED
  BY <1>1, SchedulerInvariant, PTL

\* README: "Simple round robin scheduler".  What a spurious vector breaks holds as
\* long as none is raised: an interrupt resumes the process behind the one it
\* preempted.
THEOREM RoundRobinHolds == OnlySwitchVectors => (Spec => RoundRobin)
<1> SUFFICES ASSUME OnlySwitchVectors PROVE Spec => RoundRobin
  OBVIOUS
<1>1. ASSUME IInv, IInv', [Next]_vars, stage = "return", stage' = "run"
      PROVE  cpu'.rip = (cpu.rip + 1) % NumProcesses
  <2>1. Return
    BY <1>1 DEF Next, vars, Raise, Interrupt, Execute, Cli, Sti, CanExecute,
       Stub, SwitchContext, IgnoreVector, Halt
  <2>2. /\ ret = counter /\ counter = AdvanceCounter(cpu.rip) /\ cpu.rip \in Pid
        /\ counter \in Pid /\ counter # OnStack
    BY <1>1 DEF IInv, TypeOK, Pid, OnStack
  <2>3. cpu' = processes[counter] /\ stage = "return"
    BY <2>1, <2>2 DEF Return
  <2>4. cpu'.rip = AdvanceCounter(cpu.rip)
    BY <1>1, <2>2, <2>3 DEF IInv, SlotIntegrity, SlotIsStale
  <2>5. AdvanceCounter(cpu.rip) = (cpu.rip + 1) % NumProcesses
    BY <2>2, NextInTurn
  <2> QED
    BY <2>4, <2>5
<1>2. TypeOK => vector \in SwitchVectors
  BY DEF TypeOK, OnlySwitchVectors
<1>3. IInv /\ IInv' /\ [Next]_vars =>
        [stage = "return" /\ stage' = "run" =>
           cpu'.rip = IF vector \in SwitchVectors
                        THEN (cpu.rip + 1) % NumProcesses
                        ELSE cpu.rip]_vars
  BY <1>1, <1>2 DEF IInv
<1> QED
  BY <1>3, SchedulerInvariant, PTL DEF Spec, RoundRobin

------------------------------------------------------------------------------
\* The machine may raise any vector from here on.

LEMMA StrayInit == Init => StrayInv
<1> SUFFICES ASSUME Init PROVE StrayInv
  OBVIOUS
<1>1. TypeOK /\ OwnStack /\ cpu.rip \in Pid
  BY InitInv DEF IInv
<1>2. \A p \in Pid : p # 0 => Resumable(processes[p])
  BY DEF Init, FreshContext, Resumable
<1> QED
  BY <1>1, <1>2 DEF Init, StrayInv, NoNesting

LEMMA StrayStep ==
  ASSUME StrayInv, [Next]_vars
  PROVE  StrayInv'
<1> USE SchedulerAssumption
<1>1. /\ cpu \in Context /\ frame \in Context /\ counter \in Pid
      /\ processes \in [Pid -> Context] /\ cpu.rip \in Pid /\ cpu.rsp = cpu.rip
  BY DEF StrayInv, TypeOK, OwnStack
<1>2. ASSUME NEW v \in Vectors, Raise(v) PROVE StrayInv'
  BY <1>2 DEF Raise, StrayInv, TypeOK, OwnStack, NoNesting, Resumable
<1>3. ASSUME NEW v \in Vectors, Interrupt(v) PROVE StrayInv'
  <2>1. stage = "run" /\ cpu.flags
    BY <1>3 DEF Interrupt, Deliverable, StrayInv, NoNesting, TypeOK, Stages
  <2>2. cpu' = [cpu EXCEPT !.flags = FALSE] /\ frame' = cpu /\ stage' = "stub"
    BY <1>3, <2>1 DEF Interrupt, FlagAfterGate
  <2>3. /\ cpu' \in Context /\ ~cpu'.flags
        /\ cpu'.rip = cpu.rip /\ cpu'.rsp = cpu.rsp
    BY <2>2, <1>1 DEF Context
  <2>4. Resumable(frame')
    BY <1>1, <2>1, <2>2 DEF Resumable
  <2>5. TypeOK'
    BY <1>1, <2>2, <2>3, <1>3 DEF StrayInv, TypeOK, Interrupt, Stages
  <2> QED
    BY <1>1, <1>3, <2>1, <2>2, <2>3, <2>4, <2>5
       DEF Interrupt, StrayInv, OwnStack, NoNesting, Resumable
<1>4. ASSUME Execute \/ Cli \/ Sti PROVE StrayInv'
  <2>1. /\ stage = "run"
        /\ UNCHANGED <<processes, counter, stage, frame, vector, ret, pending,
                       inService, val>>
    BY <1>4 DEF Execute, Cli, Sti, CanExecute
  <2>2. cpu' \in Context /\ cpu'.rip = cpu.rip /\ cpu'.rsp = cpu.rsp
    <3>1. CASE Execute
      <4>1. PICK v, w \in Values : cpu' = [cpu EXCEPT !.gpr = v, !.rbx = w]
        BY <3>1 DEF Execute
      <4> QED
        BY <4>1, <1>1 DEF Context
    <3>2. CASE Cli \/ Sti
      <4>1. PICK b \in BOOLEAN : cpu' = [cpu EXCEPT !.flags = b]
        BY <3>2 DEF Cli, Sti
      <4> QED
        BY <4>1, <1>1 DEF Context
    <3> QED
      BY <1>4, <3>1, <3>2
  <2> QED
    BY <2>1, <2>2, <1>1 DEF StrayInv, TypeOK, OwnStack, NoNesting, Resumable
<1>5. ASSUME Stub PROVE StrayInv'
  <2>1. stage = "stub" /\ Resumable(frame)
    BY <1>5 DEF Stub, StrayInv
  <2>2. /\ cpu' \in Context /\ ~cpu'.flags
        /\ cpu'.rip = cpu.rip /\ cpu'.rsp = cpu.rsp
    <3>1. cpu' = [cpu EXCEPT !.flags = FALSE]
      BY <1>5 DEF Stub
    <3> QED
      BY <3>1, <1>1 DEF Context
  <2> DEFINE saved == SavedContext(processes[counter], frame)
  <2>3. saved \in Context /\ Resumable(saved)
    BY <1>1, <2>1 DEF SavedContext, Context, Resumable
  <2>4. /\ processes' \in [Pid -> Context]
        /\ processes'[counter] = saved
        /\ \A p \in Pid \ {counter} : processes'[p] = processes[p]
    BY <1>5, <1>1, <2>3 DEF Stub
  <2>5. stage' = "dispatch" /\ counter' = AdvanceCounter(counter)
        /\ UNCHANGED <<frame, vector, ret, pending, inService, val>>
    BY <1>5 DEF Stub
  <2>6. TypeOK'
    BY <1>1, <2>2, <2>4, <2>5, AdvanceCounterType DEF StrayInv, TypeOK, Stages
  <2>7. \A p \in Pid : Resumable(processes'[p])
    <3> SUFFICES ASSUME NEW p \in Pid PROVE Resumable(processes'[p])
      OBVIOUS
    <3>1. CASE p = counter
      BY <3>1, <2>3, <2>4
    <3>2. CASE p # counter
      BY <3>2, <2>4 DEF StrayInv
    <3> QED
      BY <3>1, <3>2
  <2> QED
    BY <1>1, <2>1, <2>2, <2>5, <2>6, <2>7
       DEF StrayInv, OwnStack, NoNesting, Resumable
<1>6. ASSUME SwitchContext \/ IgnoreVector \/ Halt PROVE StrayInv'
  <2>1. stage = "dispatch" /\ stage' \in {"return", "halted"}
        /\ UNCHANGED <<cpu, processes, counter, frame, vector, pending>>
    BY <1>6 DEF SwitchContext, IgnoreVector, Halt
  <2>2. ret' \in Pid \cup {OnStack} /\ inService' \subseteq {TimerVector}
        /\ val' \in 0 .. TickModulus - 1
    <3>1. (val + 1) % TickModulus \in 0 .. TickModulus - 1
      <4>1. val \in 0 .. TickModulus - 1 /\ TickModulus \in Nat \ {0}
        BY Zenon DEF StrayInv, TypeOK, SchedulerAssumption
      <4> QED
        BY ONLY <4>1
    <3>2. /\ ret \in Pid \cup {OnStack} /\ inService \subseteq {TimerVector}
          /\ val \in 0 .. TickModulus - 1
      BY Zenon DEF StrayInv, TypeOK
    <3>3. CASE SwitchContext
      BY ONLY <1>1, <3>1, <3>3 DEF SwitchContext, ReturnedSlot
    <3>4. CASE IgnoreVector \/ Halt
      BY ONLY <3>2, <3>4 DEF IgnoreVector, Halt
    <3> QED
      BY <1>6, <3>3, <3>4
  <2>3. TypeOK'
    BY <2>1, <2>2 DEF StrayInv, TypeOK, Stages
  <2> QED
    BY <2>1, <2>3 DEF StrayInv, OwnStack, NoNesting, Resumable
<1>7. ASSUME Return PROVE StrayInv'
  <2>1. stage = "return" /\ stage' = "run" /\ frame' = NullContext
        /\ UNCHANGED <<processes, counter, vector, ret, pending, inService, val>>
    BY <1>7 DEF Return
  <2>2. cpu' \in Context /\ Resumable(cpu')
    <3>1. CASE ret = OnStack
      BY <3>1, <1>7, <1>1 DEF Return, StrayInv
    <3>2. CASE ret # OnStack
      <4>1. ret \in Pid /\ cpu' = processes[ret]
        BY <3>2, <1>7 DEF Return, StrayInv, TypeOK
      <4> QED
        BY <4>1, <2>1, <1>1 DEF StrayInv
    <3> QED
      BY <3>1, <3>2
  <2>3. frame' \in Context
    BY <2>1 DEF NullContext, Context, NoCode
  <2>4. TypeOK'
    BY <2>1, <2>2, <2>3 DEF StrayInv, TypeOK, Stages
  <2> QED
    BY <2>1, <2>2, <2>4 DEF StrayInv, OwnStack, NoNesting, Resumable
<1>8. ASSUME UNCHANGED vars PROVE StrayInv'
  BY <1>8 DEF vars, StrayInv, TypeOK, OwnStack, NoNesting, Resumable
<1> QED
  BY <1>2, <1>3, <1>4, <1>5, <1>6, <1>7, <1>8 DEF Next

\* Whatever vectors are raised, a frame or slot that is resumed was running with
\* interrupts enabled, its zeroed initial value never is, and the handler runs
\* with interrupts disabled.
THEOREM StrayInvariant == Spec => []StrayInv
<1>1. StrayInv /\ [Next]_vars => StrayInv'
  BY StrayStep
<1> QED
  BY <1>1, StrayInit, PTL DEF Spec

\* The interrupt gate, the cli of the stub and the shadow of its sti leave no
\* window for a second interrupt, whatever vectors are raised.
THEOREM NoNestingHolds == Spec => []NoNesting
<1>1. StrayInv => NoNesting
  BY DEF StrayInv
<1> QED
  BY <1>1, StrayInvariant, PTL

\* Registers and stack pointer of what runs belong to the same process, whatever
\* vectors are raised: a spurious one may lose a process, not mix two of them.
THEOREM OwnStackHolds == Spec => []OwnStack
<1>1. StrayInv => OwnStack
  BY DEF StrayInv
<1> QED
  BY <1>1, StrayInvariant, PTL

------------------------------------------------------------------------------
\* The refinement.  Frame conditions on the mapped registers come first.

LEMMA VirtualRegsType ==
  ASSUME IInv
  PROVE  \A p \in Pid : /\ VirtualRegs[p] \in Virtual!Registers(p)
                        /\ p # cpu.rip => VirtualRegs[p] = Visible(processes[p])
<1> SUFFICES ASSUME NEW p \in Pid
             PROVE  /\ VirtualRegs[p] \in Virtual!Registers(p)
                    /\ p # cpu.rip => VirtualRegs[p] = Visible(processes[p])
  OBVIOUS
<1>1. /\ cpu \in Context /\ frame \in Context /\ processes[p] \in Context
      /\ cpu.rsp = cpu.rip
  BY DEF IInv, TypeOK, OwnStack
<1>2. CASE p # cpu.rip
  <2>1. processes[p].rip = p /\ processes[p].rsp = p
    BY <1>2 DEF IInv, SlotIntegrity, SlotIsStale
  <2> QED
    BY <1>1, <1>2, <2>1 DEF VirtualRegs, Visible, Virtual!Registers, Context
<1>3. CASE p = cpu.rip /\ stage = "run"
  BY <1>1, <1>3 DEF VirtualRegs, Visible, Virtual!Registers, Context
<1>4. CASE p = cpu.rip /\ stage # "run"
  <2>1. frame.rip = p /\ frame.rsp = p
    BY <1>4 DEF IInv
  <2> QED
    BY <1>1, <1>4, <2>1 DEF VirtualRegs, Visible, Virtual!Registers, Context
<1> QED
  BY <1>2, <1>3, <1>4

LEMMA InitRefines == Init => Virtual!Init
<1> SUFFICES ASSUME Init PROVE Virtual!Init
  OBVIOUS
<1>1. IInv
  BY InitInv
<1>2. cpu.rip = 0 /\ stage = "run" /\ cpu.flags
  BY DEF Init, FreshContext
<1>3. \A p \in Pid : VirtualRegs[p].flags
  <2> SUFFICES ASSUME NEW p \in Pid PROVE VirtualRegs[p].flags
    OBVIOUS
  <2>1. CASE p = 0
    BY <2>1, <1>2 DEF VirtualRegs, Visible
  <2>2. CASE p # 0
    BY <2>2, <1>2 DEF Init, FreshContext, VirtualRegs, Visible
  <2> QED
    BY <2>1, <2>2
<1>4. VirtualRegs = [p \in Virtual!Pid |-> VirtualRegs[p]]
  BY DEF VirtualRegs, Pid, Virtual!Pid
<1> QED
  BY <1>1, <1>2, <1>3, <1>4, VirtualRegsType DEF Virtual!Init, Pid, Virtual!Pid

LEMMA StepRefines ==
  ASSUME OnlySwitchVectors, IInv, IInv', [Next]_vars
  PROVE  [Virtual!Next]_(Virtual!vars)
<1> USE SchedulerAssumption
<1>1. /\ cpu \in Context /\ processes \in [Pid -> Context] /\ cpu.rip \in Pid
      /\ counter \in Pid /\ frame \in Context
      /\ cpu' \in Context /\ cpu'.rip \in Pid
  BY DEF IInv, TypeOK
<1>2. ASSUME UNCHANGED vars \/ (\E v \in Vectors : Raise(v)) \/ SwitchContext
      PROVE  UNCHANGED <<cpu.rip, VirtualRegs>>
  <2>1. UNCHANGED <<cpu, processes, frame>> /\ (stage = "run" <=> stage' = "run")
    BY <1>2 DEF vars, Raise, SwitchContext, ReturnedSlot
  <2> QED
    BY <2>1 DEF VirtualRegs
<1>3. ASSUME NEW v \in Vectors, Interrupt(v)
      PROVE  UNCHANGED <<cpu.rip, VirtualRegs>>
  <2>1. /\ stage = "run" /\ stage' = "stub" /\ frame' = cpu
        /\ cpu'.rip = cpu.rip /\ processes' = processes
    BY <1>3, <1>1 DEF Interrupt, Deliverable, IInv, Context
  <2> QED
    BY <2>1 DEF VirtualRegs
<1>4. ASSUME Stub
      PROVE  UNCHANGED <<cpu.rip, VirtualRegs>>
  <2>1. /\ stage = "stub" /\ stage' = "dispatch" /\ frame' = frame
        /\ cpu'.rip = cpu.rip /\ counter = cpu.rip
        /\ \A p \in Pid \ {counter} : processes'[p] = processes[p]
    BY <1>4, <1>1 DEF Stub, IInv, CounterNamesRunning, Context
  <2> QED
    BY <2>1 DEF VirtualRegs
<1>5. ASSUME Execute \/ Cli \/ Sti
      PROVE  Virtual!Execute
  <2>1. /\ stage = "run" /\ stage' = "run" /\ processes' = processes
        /\ frame' = frame
    BY <1>5 DEF Execute, Cli, Sti, CanExecute
  <2>2. cpu'.rip = cpu.rip
    <3>1. CASE Execute
      <4>1. PICK v, w \in Values : cpu' = [cpu EXCEPT !.gpr = v, !.rbx = w]
        BY <3>1 DEF Execute
      <4> QED
        BY <4>1, <1>1 DEF Context
    <3>2. CASE Cli \/ Sti
      BY <3>2, <1>1 DEF Cli, Sti, Context
    <3> QED
      BY <1>5, <3>1, <3>2
  <2>3. VirtualRegs' = [VirtualRegs EXCEPT ![cpu.rip] = Visible(cpu')]
    BY <2>1, <2>2, <1>1 DEF VirtualRegs
  <2>4. Visible(cpu') \in Virtual!Registers(cpu.rip)
    BY <1>1, <2>2 DEF IInv, OwnStack, Visible, Virtual!Registers, Context
  <2> QED
    BY <2>2, <2>3, <2>4 DEF Virtual!Execute
<1>6. ASSUME Return
      PROVE  Virtual!Switch
  <2>1. /\ stage = "return" /\ stage' = "run" /\ processes' = processes
        /\ cpu' = processes[counter] /\ counter = AdvanceCounter(cpu.rip)
        /\ processes[cpu.rip].gpr = frame.gpr
        /\ frame.rip = cpu.rip /\ frame.rsp = cpu.rip /\ frame.flags
    BY <1>6, <1>1 DEF Return, IInv, OnStack, Pid
  <2>2. \A p \in Pid : /\ processes[p].rip = p /\ processes[p].rsp = p
                       /\ processes[p].flags
    BY <2>1 DEF IInv, SlotIntegrity, SlotIsStale
  <2>3. Visible(processes[cpu.rip]) = Visible(frame)
    <3>1. processes[cpu.rip].flags = TRUE /\ frame.flags = TRUE
      BY <2>1, <2>2, <1>1 DEF Context
    <3> QED
      BY <2>1, <2>2, <3>1, <1>1 DEF Visible
  <2>4. cpu'.rip = counter
    BY <2>1, <2>2, <1>1
  <2>5. \A p \in Pid : VirtualRegs[p] = Visible(processes[p])
    BY <2>1, <2>3 DEF VirtualRegs
  <2>6. \A p \in Pid : VirtualRegs'[p] = Visible(processes[p])
    BY <2>1, <2>4 DEF VirtualRegs
  <2>7. VirtualRegs' = VirtualRegs
    BY <2>5, <2>6 DEF VirtualRegs
  <2>8. VirtualRegs[cpu.rip].flags
    <3>1. VirtualRegs[cpu.rip] = Visible(processes[cpu.rip])
      BY <2>5, <1>1
    <3>2. processes[cpu.rip].flags = TRUE
      BY <2>2, <1>1 DEF Context
    <3>3. Visible(processes[cpu.rip]).flags = TRUE
      BY <3>2 DEF Visible
    <3> QED
      BY <3>1, <3>3
  <2> QED
    BY <2>1, <2>4, <2>7, <2>8 DEF Virtual!Switch, Virtual!Successor, AdvanceCounter
<1>7. ~IgnoreVector /\ ~Halt
  BY DEF IgnoreVector, Halt, OnlySwitchVectors, SwitchVectors, HaltVector,
     IInv, TypeOK
<1> QED
  BY <1>2, <1>3, <1>4, <1>5, <1>6, <1>7 DEF Next, Virtual!Next, Virtual!vars

\* Every process has a processor of its own, rbx excepted: its registers,
\* stack and interrupt flag wait untouched while the others run, and the turn
\* passes round robin.
THEOREM SchedulerImplementsVirtualCpus ==
  OnlySwitchVectors => (Spec => ImplementsVirtualCpus)
<1> SUFFICES ASSUME OnlySwitchVectors PROVE Spec => ImplementsVirtualCpus
  OBVIOUS
<1>1. IInv /\ IInv' /\ [Next]_vars => [Virtual!Next]_(Virtual!vars)
  BY StepRefines
<1>2. Spec => []IInv
  BY SchedulerInvariant
<1> QED
  BY <1>1, <1>2, InitRefines, PTL DEF Spec, ImplementsVirtualCpus, Virtual!Spec
==============================================================================
