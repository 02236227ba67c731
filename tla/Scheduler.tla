------------------------------ MODULE Scheduler ------------------------------
(***************************************************************************)
(* The preemptive scheduler of the kernel: the local APIC timer, the       *)
(* interrupt stub, interrupt_general_handler with save_context and         *)
(* schedule, and the four processes they multiplex on one processor.       *)
(*                                                                         *)
(* The module starts where init_apic ends: init_scheduler has filled       *)
(* processes[1..3], the boot thread goes on as process 0 with interrupts   *)
(* enabled.  An interrupt is taken in four steps: the processor pushes the *)
(* frame (Interrupt), the stub pushes the registers and the handler saves  *)
(* them (Stub), the handler chooses what to resume (SwitchContext,         *)
(* IgnoreVector, Halt), the stub pops it (Return).                         *)
(***************************************************************************)
EXTENDS Naturals

CONSTANTS
  NumProcesses,   \* length of processes[], 4 in the source
  Printers,       \* processes whose loop disables interrupts while it prints
  Values,         \* abstract contents of a register
  Zero,           \* the content of a zeroed register
  Vectors,        \* the vectors the machine may raise
  TickModulus     \* val counts modulo this bound (2^32 in the source)

TimerVector == 32                \* 0x20, LVT timer entry
SpuriousVector == 255            \* 0xFF, APIC_SVR
SwitchVectors_DecimalTimer == {8, 20, 50}   \* mutant: 20 written for 0x20
SwitchVectors == {8, 32, 50}     \* cases 0x8, 0x20, 0x32 of the handler
HaltVector == 20                 \* case 0x14 of the handler
ErrorCodeVectors == {8} \cup 10 .. 14

ASSUME SchedulerAssumption ==
  /\ NumProcesses \in Nat \ {0}
  /\ Printers \subseteq 0 .. NumProcesses - 1
  /\ Zero \in Values
  /\ TimerVector \in Vectors
  /\ Vectors \subseteq 0 .. 255
  /\ TickModulus \in Nat \ {0}

\* The stubs of these leave the error code to the processor, which pushes none for an
\* interrupt of a device: the frame would be one word short.
ASSUME VectorsAssumption == Vectors \cap ErrorCodeVectors = {}

VARIABLES
  cpu,            \* program visible registers of the processor
  processes,      \* saved contexts, processes[i].context
  counter,        \* slot save_context fills next, and schedule resumes from
  stage,          \* how far the current interrupt has been handled
  frame,          \* cpu_status_t that processor and stub pushed on the stack
  vector,         \* vector_number of that frame
  ret,            \* what the handler returned: a slot, or OnStack
  pending,        \* vectors raised and not yet delivered
  inService,      \* vectors delivered and not yet acknowledged (EOI)
  val             \* the tick counter of the timer

vars == <<cpu, processes, counter, stage, frame, vector, ret, pending,
          inService, val>>

Pid == 0 .. NumProcesses - 1
OnStack == NumProcesses          \* the handler returned its own argument
NoCode == NumProcesses           \* a zeroed rip or rsp: nobody's code or stack

Stages == {"run", "stub", "dispatch", "return", "halted", "nested"}

(***************************************************************************)
(* A context: whose code rip points to, whose stack rsp points to, the     *)
(* general purpose registers that save_context copies (one abstract value  *)
(* for all of them and the position in the code), rbx, and RFLAGS.IF.      *)
(***************************************************************************)
Context == [rip : 0 .. NumProcesses, rsp : 0 .. NumProcesses,
            gpr : Values, rbx : Values, flags : BOOLEAN]

NullContext == [rip |-> NoCode, rsp |-> NoCode,
                gpr |-> Zero, rbx |-> Zero, flags |-> FALSE]

\* What init_scheduler stores for process p, over the zeroed .bss.
FreshContext(p) == [rip |-> p, rsp |-> p,
                    gpr |-> Zero, rbx |-> Zero, flags |-> TRUE]

Init ==
  /\ \E v, w \in Values : cpu = [FreshContext(0) EXCEPT !.gpr = v, !.rbx = w]
  /\ processes = [p \in Pid |-> IF p = 0 THEN NullContext ELSE FreshContext(p)]
  /\ counter = 0
  /\ stage = "run"
  /\ frame = NullContext
  /\ vector = TimerVector
  /\ ret = OnStack
  /\ pending = {}
  /\ inService = {}
  /\ val = 1 % TickModulus

------------------------------------------------------------------------------
\* The interrupt controller.

\* A spurious interrupt has no in-service bit and waits for nobody's EOI.
Deliverable(v) ==
  /\ v \in pending
  /\ cpu.flags
  /\ v = TimerVector => inService = {}

\* A vector is raised; raising the periodic timer again before its delivery
\* leaves one pending bit, and the tick is lost.
Raise(v) ==
  /\ stage # "halted"
  /\ v \notin pending
  /\ pending' = pending \cup {v}
  /\ UNCHANGED <<cpu, processes, counter, stage, frame, vector, ret,
                 inService, val>>

------------------------------------------------------------------------------
\* The running process.  The processor takes a deliverable interrupt before
\* it executes another instruction.

CanExecute == stage = "run" /\ \A v \in Vectors : ~Deliverable(v)

\* Any instructions of the running process that leave the interrupt flag alone.
Execute ==
  /\ CanExecute
  /\ \E v, w \in Values : cpu' = [cpu EXCEPT !.gpr = v, !.rbx = w]
  /\ UNCHANGED <<processes, counter, stage, frame, vector, ret, pending,
                 inService, val>>

\* asm("cli") in front of the prints of processA and processB.
Cli ==
  /\ CanExecute
  /\ cpu.rip \in Printers /\ cpu.flags
  /\ cpu' = [cpu EXCEPT !.flags = FALSE]
  /\ UNCHANGED <<processes, counter, stage, frame, vector, ret, pending,
                 inService, val>>

\* asm("sti") behind them.
Sti ==
  /\ CanExecute
  /\ cpu.rip \in Printers /\ ~cpu.flags
  /\ cpu' = [cpu EXCEPT !.flags = TRUE]
  /\ UNCHANGED <<processes, counter, stage, frame, vector, ret, pending,
                 inService, val>>

------------------------------------------------------------------------------
\* The interrupt path.

\* The gate type set_idt_entry writes: 0b1110, an interrupt gate, which
\* clears IF on entry.
FlagAfterGate_Trap(flag) == flag            \* mutant: a trap gate
FlagAfterGate(flag) == FALSE

\* The processor pushes ss, rsp, rflags, cs and rip on the stack in use and
\* goes through the gate to vector_N_handler.  Taken inside the handler, the
\* frame would lie on top of one still in use.
Interrupt(v) ==
  /\ Deliverable(v)
  /\ pending' = pending \ {v}
  /\ inService' = IF v = TimerVector THEN inService \cup {v} ELSE inService
  /\ frame' = cpu
  /\ vector' = v
  /\ cpu' = [cpu EXCEPT !.flags = FlagAfterGate(@)]
  /\ stage' = IF stage = "run" THEN "stub" ELSE "nested"
  /\ UNCHANGED <<processes, counter, ret, val>>

\* The copy save_context makes: every register of the frame except rbx,
\* which keeps what the slot held.
SavedContext_NoRsp(slot, f) ==              \* mutant: iret_rsp forgotten too
  [f EXCEPT !.rbx = slot.rbx, !.rsp = slot.rsp]
SavedContext_NoGpr(slot, f) ==              \* mutant: one more register forgotten
  [f EXCEPT !.rbx = slot.rbx, !.gpr = slot.gpr]
SavedContext(slot, f) == [f EXCEPT !.rbx = slot.rbx]

AdvanceCounter_SkipLast(c) ==               \* mutant: wraps one slot early
  IF c + 2 >= NumProcesses THEN 0 ELSE c + 1
AdvanceCounter(c) == IF c = NumProcesses - 1 THEN 0 ELSE c + 1

\* interrupt_stub up to the first call in interrupt_general_handler: cli,
\* push the registers, save_context.
Stub ==
  /\ stage = "stub"
  /\ cpu' = [cpu EXCEPT !.flags = FALSE]
  /\ processes' = [processes EXCEPT ![counter] = SavedContext(@, frame)]
  /\ counter' = AdvanceCounter(counter)
  /\ stage' = "dispatch"
  /\ UNCHANGED <<frame, vector, ret, pending, inService, val>>

\* schedule(): the slot behind the one save_context filled.
ReturnedSlot_Next == AdvanceCounter(counter)   \* mutant: schedule advances too
ReturnedSlot == counter

\* Cases 0x8, 0x20 and 0x32: acknowledge, count, and schedule().
SwitchContext ==
  /\ stage = "dispatch" /\ vector \in SwitchVectors
  /\ inService' = {}
  /\ val' = (val + 1) % TickModulus
  /\ ret' = ReturnedSlot
  /\ stage' = "return"
  /\ UNCHANGED <<cpu, processes, counter, frame, vector, pending>>

\* Every other vector returns the frame it was given.
IgnoreVector ==
  /\ stage = "dispatch" /\ vector \notin SwitchVectors \cup {HaltVector}
  /\ ret' = OnStack
  /\ stage' = "return"
  /\ UNCHANGED <<cpu, processes, counter, frame, vector, pending, inService,
                 val>>

\* Case 0x14: hlt with interrupts disabled.
Halt ==
  /\ stage = "dispatch" /\ vector = HaltVector
  /\ stage' = "halted"
  /\ UNCHANGED <<cpu, processes, counter, frame, vector, ret, pending,
                 inService, val>>

\* mov rsp, rax; pop the registers; sti; iretq.  The sti takes effect behind
\* the iretq (interrupt shadow), so the two are one step.
Return ==
  /\ stage = "return"
  /\ cpu' = IF ret = OnStack THEN frame ELSE processes[ret]
  /\ frame' = NullContext
  /\ stage' = "run"
  /\ UNCHANGED <<processes, counter, vector, ret, pending, inService, val>>

Next ==
  \/ \E v \in Vectors : Raise(v)
  \/ \E v \in Vectors : Interrupt(v)
  \/ Execute
  \/ Cli
  \/ Sti
  \/ Stub
  \/ SwitchContext
  \/ IgnoreVector
  \/ Halt
  \/ Return

Spec == Init /\ [][Next]_vars

(***************************************************************************)
(* The APIC timer is periodic, the processor takes deliverable interrupts  *)
(* and finishes the handler, and a print between cli and sti ends.         *)
(***************************************************************************)
Fairness ==
  /\ WF_vars(Raise(TimerVector))
  /\ WF_vars(Interrupt(TimerVector))
  /\ WF_vars(Sti)
  /\ WF_vars(Stub)
  /\ WF_vars(SwitchContext)
  /\ WF_vars(IgnoreVector)
  /\ WF_vars(Return)

FairSpec == Spec /\ Fairness

------------------------------------------------------------------------------
\* Types of the state.
TypeOK ==
  /\ cpu \in Context
  /\ processes \in [Pid -> Context]
  /\ counter \in Pid
  /\ stage \in Stages
  /\ frame \in Context
  /\ vector \in Vectors
  /\ ret \in Pid \cup {OnStack}
  /\ pending \subseteq Vectors
  /\ inService \subseteq {TimerVector}
  /\ val \in 0 .. TickModulus - 1

\* Between save_context and iretq the running process's context is in its
\* slot; before, it is in the processor or in the frame.
SlotIsStale(p) == p = cpu.rip /\ stage \in {"run", "stub"}

\* Every slot but the running process's holds a context that can be resumed
\* as it is: the code and stack of the process the slot belongs to, with
\* interrupts enabled.  save_context and schedule agree on whose slot is whose
\* only through counter, which is never compared with what really runs.
SlotIntegrity ==
  \A p \in Pid : \/ SlotIsStale(p)
                 \/ /\ processes[p].rip = p
                    /\ processes[p].rsp = p
                    /\ processes[p].flags

\* While a process runs, counter names it: the next save_context fills its slot.
CounterNamesRunning == stage \in {"run", "stub"} => counter = cpu.rip

\* No interrupt is taken while the frame of another one is being handled: the
\* gate, the cli of the stub and the shadow of its sti leave no window.
NoNesting == stage # "nested"

\* No process is resumed while the timer interrupt that preempted its
\* predecessor is unacknowledged, which would block every later tick.
AckedBeforeResume == stage = "run" => inService = {}

\* A process never runs on another one's stack, whatever vectors are raised.
OwnStack == cpu.rsp = cpu.rip

\* README: "Simple round robin scheduler".  Whatever is resumed after an
\* interrupt is the interrupted process or the one after it, and a timer
\* interrupt always resumes the one after it.
RoundRobin ==
  [][stage = "return" /\ stage' = "run" =>
       cpu'.rip = IF vector \in SwitchVectors
                    THEN (cpu.rip + 1) % NumProcesses
                    ELSE cpu.rip]_vars

\* Round robin without starvation: every process gets the processor again and
\* again, the ones behind a process that keeps printing with interrupts
\* disabled included.
EveryProcessRuns == \A p \in Pid : []<>(stage = "run" /\ cpu.rip = p)

\* The inductive invariant behind the properties above, for a machine that
\* raises only vectors the handler switches on.
IInv ==
  /\ TypeOK
  /\ SlotIntegrity
  /\ CounterNamesRunning
  /\ OwnStack
  /\ cpu.rip \in Pid
  /\ stage \in {"run", "stub", "dispatch", "return"}
  /\ stage # "run" => /\ ~cpu.flags
                      /\ frame.rip = cpu.rip
                      /\ frame.rsp = cpu.rip
                      /\ frame.flags
  /\ stage \in {"dispatch", "return"} =>
       /\ counter = AdvanceCounter(cpu.rip)
       /\ processes[cpu.rip].gpr = frame.gpr
  /\ stage = "return" => ret = counter
  /\ stage \in {"run", "return"} => inService = {}

\* What is left of it when the machine raises any vector at all: frames and saved
\* contexts may belong to the wrong slot, but each is a context that was running
\* with interrupts enabled, the handler runs with interrupts disabled, and the
\* zeroed slot 0 is filled before anything is resumed from it.
Resumable(c) == c.rip \in Pid /\ c.rsp = c.rip /\ c.flags

StrayInv ==
  /\ TypeOK
  /\ cpu.rip \in Pid
  /\ OwnStack
  /\ NoNesting
  /\ stage # "run" => Resumable(frame)
  /\ stage \in {"stub", "dispatch", "return", "halted"} => ~cpu.flags
  /\ \A p \in Pid : \/ Resumable(processes[p])
                    \/ p = 0 /\ counter = 0 /\ stage \in {"run", "stub"}

------------------------------------------------------------------------------
(***************************************************************************)
(* The scheduler implements one virtual processor per process, for the     *)
(* registers save_context copies.                                          *)
(***************************************************************************)
Visible(c) == [rip |-> c.rip, rsp |-> c.rsp, gpr |-> c.gpr, flags |-> c.flags]

VirtualRegs ==
  [p \in Pid |-> Visible(IF p # cpu.rip THEN processes[p]
                         ELSE IF stage = "run" THEN cpu ELSE frame)]

Virtual == INSTANCE VirtualCpus WITH running <- cpu.rip, regs <- VirtualRegs

\* No register of a process other than rbx changes while it does not run, and
\* the turn passes in order, from a process with interrupts enabled.
ImplementsVirtualCpus == Virtual!Spec
==============================================================================
