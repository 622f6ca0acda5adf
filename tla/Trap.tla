-------------------------------- MODULE Trap --------------------------------
(***************************************************************************)
(* Exceptions from the vector to the eret: vector.S, context.c, traps.c's  *)
(* svc_handler, the GIC driver, irq_*.c, timer.c and the order in which    *)
(* init_kernel sets them up.                                               *)
(*                                                                         *)
(* Of the registers a context has, X0 to X30, SP, PC and PSTATE, the model *)
(* keeps PC and X0.  The others a program has, V0 to V31, FPCR, FPSR and   *)
(* TPIDR_EL0, are in no context, although EL0 may use the FPU              *)
(* (CONFIG_ARCH_FPU) and musl keeps its thread pointer in TPIDR_EL0: of    *)
(* them the model keeps whose values they hold.  The kernel is one thread  *)
(* that runs with interrupts masked.  Which task schedule() leaves current *)
(* is Scheduler's matter: here it may be any.  decode_irq and svc_handler  *)
(* do not return: they end in restore_current_context.                     *)
(***************************************************************************)
EXTENDS Integers

CONSTANTS
  Users,      \* user tasks
  Idle,       \* the idle task
  Timer,      \* IRQN_EL1_VIRT_TIMER
  Other,      \* another private interrupt, which no driver attaches
  Spurious,   \* 1023
  Boot,       \* the stack init_kernel runs on
  Handled,    \* system calls with an entry in svc_handlers
  Unhandled,  \* NULL entries and numbers beyond the table
  Results,    \* what the handlers may return
  ENOSYS,     \* -ENOSYS
  Positions   \* bound: a program has positions 0 .. Positions - 1

ASSUME TrapAssumption ==
  /\ Idle \notin Users
  /\ Boot \notin Users \cup {Idle}
  /\ Timer # Other /\ Spurious \notin {Timer, Other}
  /\ Handled \cap Unhandled = {}
  /\ Positions \in Nat \ {0}

Tasks == Users \cup {Idle}
Irqs == {Timer, Other}
Registers == [pc : 0 .. Positions - 1, x0 : Results \cup {ENOSYS, 0}]

VARIABLES
  kpc,        \* where the kernel is; "run" when it has returned to a task
  current,    \* g_current_task
  regs,       \* the processor's registers while a task runs
  sp_el1,     \* whose context.regs SP_EL1 points to, or Boot
  ctx,        \* task->context
  iar,        \* ICC_IAR1_EL1 as decode_irq read it
  enabled,    \* GIC: enabled interrupts
  active,     \* GIC: acknowledged, not ended
  attached,   \* interrupts with a handler in g_irqvector
  timer,      \* the generic timer: "off", "armed" or "fired"
  other,      \* the line of the interrupt Other
  unsaved,    \* who last wrote V0-V31, FPCR, FPSR and TPIDR_EL0
  want,       \* what each task is entitled to find in its registers
  ran         \* user tasks that have executed

gic == <<enabled, active, attached>>
lines == <<timer, other>>
user == <<unsaved, want, ran>>
vars == <<kpc, current, regs, sp_el1, ctx, iar, gic, lines, user>>

line(i) == IF i = Timer THEN timer = "fired" ELSE other
\* All interrupts have priority GIC_PRI_IRQ: none is taken over an active one.
pending == {i \in enabled : line(i) /\ active = {}}

fresh == [pc |-> 0, x0 |-> 0]

\* After a reset the GIC and the timer hold whatever the firmware left.
Init ==
  /\ kpc = "irq_initialize"
  /\ current = Idle
  /\ regs = fresh
  /\ sp_el1 = Boot
  /\ ctx = [t \in Tasks |-> fresh]
  /\ iar = Spurious
  /\ enabled \in SUBSET Irqs
  /\ active \in SUBSET Irqs
  /\ attached = {}
  /\ timer \in {"off", "armed", "fired"}
  /\ other \in BOOLEAN
  /\ unsaved = Boot
  /\ want = [t \in Tasks |-> fresh]
  /\ ran = {}

-----------------------------------------------------------------------------
\* gic_initialize: private interrupts disabled and deactivated.
gic_initialize ==
  /\ enabled' = {}
  /\ active' = {}

irq_initialize ==
  /\ kpc = "irq_initialize"
  /\ kpc' = "generic_timer_init"
  /\ attached' = {}
  /\ gic_initialize
  /\ UNCHANGED <<current, regs, sp_el1, ctx, iar, lines, user>>

\* timer_init: the timer runs before its handler is attached.
generic_timer_init ==
  /\ kpc = "generic_timer_init"
  /\ kpc' = "irq_attach"
  /\ timer' = "armed"
  /\ UNCHANGED <<current, regs, sp_el1, ctx, iar, gic, other, user>>

irq_attach ==
  /\ kpc = "irq_attach"
  /\ kpc' = "irq_enable"
  /\ attached' = attached \cup {Timer}
  /\ UNCHANGED <<current, regs, sp_el1, ctx, iar, enabled, active, lines, user>>

up_enable_irq ==
  /\ kpc = "irq_enable"
  /\ kpc' = "arch_local_irq_enable"
  /\ enabled' = enabled \cup {Timer}
  /\ UNCHANGED <<current, regs, sp_el1, ctx, iar, active, attached, lines, user>>

\* arch_local_irq_enable, then idle() on the stack of init_kernel.
arch_local_irq_enable ==
  /\ kpc = "arch_local_irq_enable"
  /\ kpc' = "run"
  /\ UNCHANGED <<current, regs, sp_el1, ctx, iar, gic, lines, user>>

-----------------------------------------------------------------------------
\* store_context: the registers of a context go to where SP_EL1 points, on the
\* first interrupt over frames of init_kernel, to which nothing returns.
store_context ==
  ctx' = IF sp_el1 = Boot THEN ctx ELSE [ctx EXCEPT ![sp_el1] = regs]

\* The processor takes a pending interrupt: cur_el_irq or lower_el_irq.
take_irq ==
  /\ kpc = "run"
  /\ pending # {}
  /\ kpc' = "decode_irq"
  /\ store_context
  /\ UNCHANGED <<current, regs, sp_el1, iar, gic, lines, user>>

\* A device may withdraw its interrupt before it is acknowledged.
acknowledge ==
  /\ kpc = "decode_irq"
  /\ kpc' = "irq_dispatch"
  /\ IF pending = {} THEN iar' = Spurious /\ active' = active
     ELSE \E i \in pending : iar' = i /\ active' = active \cup {i}
  /\ UNCHANGED <<current, regs, sp_el1, ctx, enabled, attached, lines, user>>

\* Mutant: the timer is not armed again.
timer_handler_once == timer' = "off" /\ current' \in Tasks

\* timer_handler: clear, restart, schedule().
timer_handler == timer' = "armed" /\ current' \in Tasks

irq_dispatch ==
  /\ kpc = "irq_dispatch"
  /\ kpc' = "eoi"
  /\ IF iar = Timer /\ iar \in attached THEN timer_handler
     ELSE UNCHANGED <<timer, current>>
  /\ UNCHANGED <<regs, sp_el1, ctx, iar, gic, other, user>>

\* Mutant: the interrupt is ended only after the context is restored, that is never.
end_of_interrupt_late ==
  /\ kpc = "eoi"
  /\ kpc' = "restore"
  /\ UNCHANGED <<current, regs, sp_el1, ctx, iar, gic, lines, user>>

\* ICC_EOIR1_EL1 with EOImode 0: priority drop and deactivation.
end_of_interrupt ==
  /\ kpc = "eoi"
  /\ kpc' = "restore"
  /\ active' = active \ {iar}
  /\ UNCHANGED <<current, regs, sp_el1, ctx, iar, enabled, attached, lines, user>>

restore_current_context ==
  /\ kpc = "restore"
  /\ kpc' = "run"
  /\ regs' = ctx[current]
  /\ sp_el1' = current
  /\ UNCHANGED <<current, ctx, iar, gic, lines, user>>

-----------------------------------------------------------------------------
\* lower_el_sync for an SVC.
svc ==
  /\ kpc = "run"
  /\ current \in Users
  /\ kpc' = "svc_handler"
  /\ store_context
  /\ UNCHANGED <<current, regs, sp_el1, iar, gic, lines, user>>

results(sn) == IF sn \in Handled THEN Results ELSE {ENOSYS}

\* Mutant: the result is given to the task schedule() chose.
svc_handler_late(sn) ==
  /\ kpc = "svc_handler"
  /\ kpc' = "restore"
  /\ current' \in Tasks
  /\ \E ret \in results(sn) :
       /\ ctx' = [ctx EXCEPT ![current'].x0 = ret]
       /\ want' = [want EXCEPT ![current].x0 = ret]
  /\ UNCHANGED <<regs, sp_el1, iar, gic, lines, unsaved, ran>>

\* svc_handler: the handler's result into X0 of the caller's context, then
\* schedule().
svc_handler(sn) ==
  /\ kpc = "svc_handler"
  /\ kpc' = "restore"
  /\ \E ret \in results(sn) :
       /\ ctx' = [ctx EXCEPT ![current].x0 = ret]
       /\ want' = [want EXCEPT ![current].x0 = ret]
  /\ current' \in Tasks
  /\ UNCHANGED <<regs, sp_el1, iar, gic, lines, unsaved, ran>>

\* A user task executes: its registers change, saved and unsaved ones.
user_step ==
  /\ kpc = "run"
  /\ current \in Users
  /\ \E r \in Registers :
       /\ r.pc = (regs.pc + 1) % Positions
       /\ regs' = r
       /\ want' = [want EXCEPT ![current] = r]
  /\ unsaved' = current
  /\ ran' = ran \cup {current}
  /\ UNCHANGED <<kpc, current, sp_el1, ctx, iar, gic, lines>>

timer_fires ==
  /\ timer = "armed"
  /\ timer' = "fired"
  /\ UNCHANGED <<kpc, current, regs, sp_el1, ctx, iar, gic, other, user>>

other_changes ==
  /\ other' = ~other
  /\ UNCHANGED <<kpc, current, regs, sp_el1, ctx, iar, gic, timer, user>>

Interrupt ==
  \/ acknowledge
  \/ irq_dispatch
  \/ end_of_interrupt
  \/ restore_current_context

BootStep ==
  \/ irq_initialize
  \/ generic_timer_init
  \/ irq_attach
  \/ up_enable_irq
  \/ arch_local_irq_enable

SvcHandler == \E sn \in Handled \cup Unhandled : svc_handler(sn)

Next ==
  \/ BootStep
  \/ take_irq
  \/ Interrupt
  \/ svc
  \/ SvcHandler
  \/ user_step
  \/ timer_fires
  \/ other_changes

Spec == Init /\ [][Next]_vars

\* Kernel code runs to its end, an armed timer fires, and the processor takes
\* a pending interrupt in finite time even when a program makes one call
\* after another: svc cannot keep it out for ever.
FairSpec ==
  /\ Spec
  /\ WF_vars(BootStep)
  /\ WF_vars(Interrupt)
  /\ WF_vars(SvcHandler)
  /\ WF_vars(timer_fires)
  /\ SF_vars(take_irq)

-----------------------------------------------------------------------------
\* Types of the variables.
TypeOK ==
  /\ kpc \in {"irq_initialize", "generic_timer_init", "irq_attach", "irq_enable",
              "arch_local_irq_enable", "run", "decode_irq", "irq_dispatch", "eoi",
              "restore", "svc_handler"}
  /\ current \in Tasks
  /\ regs \in Registers
  /\ sp_el1 \in Tasks \cup {Boot}
  /\ ctx \in [Tasks -> Registers]
  /\ iar \in Irqs \cup {Spurious}
  /\ enabled \subseteq Irqs /\ active \subseteq Irqs /\ attached \subseteq Irqs
  /\ timer \in {"off", "armed", "fired"}
  /\ other \in BOOLEAN
  /\ unsaved \in Users \cup {Boot}
  /\ want \in [Tasks -> Registers]
  /\ ran \subseteq Users

\* A task that runs finds the registers of its context as they were when it
\* was last interrupted, with the result of its own system call in X0 if that
\* is what interrupted it, however many other tasks trapped in between.  The
\* registers outside the context it finds as they were while no other user
\* task has executed, as in the system init_kernel builds.
RegistersKept ==
  kpc = "run" =>
    /\ regs = want[current]
    /\ ran = {current} => unsaved = current

\* A user task finds all registers as they were, FPU and TPIDR_EL0 included.
AllRegistersKept ==
  kpc = "run" => regs = want[current] /\ (current \in ran => unsaved = current)

\* An interrupt the processor acknowledges has a handler: the GIC lets none
\* through that the firmware left enabled, and the timer not before
\* irq_attach, although it already runs.
AcknowledgedIsAttached ==
  kpc = "irq_dispatch" /\ iar # Spurious => iar \in attached

\* No interrupt is left active when the kernel returns to a task:
\* restore_current_context does not come back to end one later.
NoneActiveInTask == kpc = "run" => active = {}

\* Whatever interrupt the processor acknowledges is handled and ended before a
\* task runs again.
InterruptsEnded == AcknowledgedIsAttached /\ NoneActiveInTask

\* store_context's comment: SP_EL1 points to tcb->context->regs whenever an
\* exception can be taken.
SpIsTcbContext == kpc = "run" => sp_el1 = current

\* The timer interrupts again and again, whatever the tasks do.
TimerKeepsInterrupting == []<>(kpc = "irq_dispatch" /\ iar = Timer)
=============================================================================
