----------------------------- MODULE VirtualCpus -----------------------------
(***************************************************************************)
(* What the scheduler promises to the processes: each has a processor of   *)
(* its own.  A process changes only its own registers, registers wait      *)
(* untouched while other processes run, and the turn passes round robin,   *)
(* never out of a region in which the process has interrupts disabled.     *)
(***************************************************************************)
EXTENDS Naturals

CONSTANTS
  NumProcesses,   \* processes take turns in the order 0, 1, ..., NumProcesses-1
  Values          \* abstract contents of the general purpose registers

VARIABLES
  running,        \* the process whose turn it is
  regs            \* registers of every process

vars == <<running, regs>>

Pid == 0 .. NumProcesses - 1

\* The process whose turn comes after p's.
Successor(p) == IF p = NumProcesses - 1 THEN 0 ELSE p + 1

\* Code and stack belong to one process; data and the interrupt flag vary.
Registers(p) == [rip : {p}, rsp : {p}, gpr : Values, flags : BOOLEAN]

Init ==
  /\ running = 0
  /\ regs \in [Pid -> UNION {Registers(p) : p \in Pid}]
  /\ \A p \in Pid : regs[p] \in Registers(p) /\ regs[p].flags

Execute ==
  /\ \E r \in Registers(running) : regs' = [regs EXCEPT ![running] = r]
  /\ UNCHANGED running

Switch ==
  /\ regs[running].flags
  /\ running' = Successor(running)
  /\ UNCHANGED regs

Next == Execute \/ Switch

Spec == Init /\ [][Next]_vars
==============================================================================
