----------------------------- MODULE Scheduler -----------------------------
(***************************************************************************)
(* The preemptive round-robin scheduler of kernel/scheduler.c, together     *)
(* with what decides whether it may run at all: the interrupt flag of the   *)
(* CPU, the timer interrupt as the PIC delivers it (kernel/idt.c sends the  *)
(* EOI only after the handler has returned) and the stack the CPU is        *)
(* executing on.  task_switch saves neither EFLAGS nor the PIC's state, so  *)
(* a task inherits both from whoever switched to it.                        *)
(*                                                                          *)
(* A task is named by its slot of the table.  Slot 0 is the kernel task,    *)
(* the only one that runs with interrupts enabled from the start.  While    *)
(* interrupts are enabled the timer may fire between any two steps below,   *)
(* also between two steps of a schedule() the task has called itself.       *)
(*                                                                          *)
(* remaining[t] stands for max(0, tasks[t].sleep_until - ticks): the        *)
(* comparison now >= sleep_until is remaining = 0.  The wrap of the 32-bit  *)
(* tick counter (after 497 days) is outside the model.                      *)
(*                                                                          *)
(* RoundedUp, WokenBeforeTick, FromTheFront, EarlyEoi, NoEoi and NoNewFrame *)
(* are wrong variants of the definition behind them; no action uses them.   *)
(* They are there to see that the properties notice.                        *)
(***************************************************************************)
EXTENDS Integers, FiniteSets

CONSTANTS
  MAX_TASKS,         \* slots of the task table
  KernelSleeps,      \* milliseconds the kernel task sleeps for: claos.sleep
  BackgroundSleeps,  \* milliseconds the background tasks sleep for
  Returning,         \* slots whose entry function may return
  Halting            \* slots whose code waits for an event with hlt

Slots == 0 .. MAX_TASKS - 1
KERNEL == 0
Background == Slots \ {KERNEL}

ASSUME SchedulerAssumption ==
  /\ MAX_TASKS \in Nat \ {0}
  /\ KernelSleeps \subseteq Nat
  /\ BackgroundSleeps \subseteq Nat
  /\ Returning \subseteq Background
  /\ Halting \subseteq Slots

VARIABLES
  state,         \* tasks[t].state
  remaining,     \* tasks[t].sleep_until, as ticks still to go
  esp,           \* whose stack frame tasks[t].esp points to, or NoFrame
  current_task,  \* the global of that name
  task_count,    \* the global of that name
  cpu,           \* whose stack the CPU is executing on
  intr,          \* the CPU's interrupt flag
  in_service,    \* IRQ0 has been delivered and its EOI has not been sent
  irq_frame,     \* the tasks that were switched out inside the timer interrupt
  at,            \* where each task's own code is
  pick           \* the locals old and next of a schedule() the task is inside

vars == << state, remaining, esp, current_task, task_count,
           cpu, intr, in_service, irq_frame, at, pick >>

States == {"UNUSED", "READY", "RUNNING", "SLEEPING"}

(* boot: kernel_main before the shell; creating: inside task_create, the    *)
(* slot published but not finished; code: the task's own code; halted: in   *)
(* hlt; schedule, picked, switching: entering schedule(), after its scan,   *)
(* before task_switch; exited: the loop of task_exit.                       *)
Places == {"boot", "creating", "code", "halted", "schedule", "picked",
           "switching", "exited"}

NoFrame == -1

-----------------------------------------------------------------------------
(* The clock runs at 100 Hz.                                                *)
RoundedUp(ms) == (ms + 9) \div 10
SleepTicks(ms) == ms \div 10

(* The wake loop at the head of schedule().                                 *)
Woken(s, r) ==
  [t \in Slots |-> IF s[t] = "SLEEPING" /\ r[t] = 0 THEN "READY" ELSE s[t]]

(* timer_irq_handler counts the tick before it calls schedule().            *)
Ticked(r) == [t \in Slots |-> IF r[t] = 0 THEN 0 ELSE r[t] - 1]
WokenBeforeTick(s) == Woken(s, remaining)
WokenAtTick(s) == Woken(s, Ticked(remaining))

(* The order in which the scan that starts behind slot c meets the slots.   *)
FromTheFront(c, t) == t
Place(c, t) == IF t > c THEN t ELSE t + MAX_TASKS

OtherReady(s, c) == {t \in Slots \ {c} : s[t] = "READY"}

(* n is where the round-robin scan stops.                                   *)
IsNext(s, c, n) ==
  /\ n \in OtherReady(s, c)
  /\ \A u \in OtherReady(s, c) : Place(c, n) <= Place(c, u)

(* The state table once old gives way to next.                              *)
Switched(s, old, next) ==
  [t \in Slots |-> CASE t = next -> "RUNNING"
                     [] t = old /\ t # next /\ s[t] = "RUNNING" -> "READY"
                     [] OTHER -> s[t]]

(* task_switch to the frame tasks[next].esp names.  A task that had been    *)
(* switched out inside the timer interrupt returns through it: the EOI is   *)
(* sent and iret restores the interrupt flag.  Any other task goes on with  *)
(* whatever flag and whatever PIC state the switch happened in.             *)
SwitchFrom(old, next) ==
  /\ esp' = [esp EXCEPT ![old] = cpu, ![next] = NoFrame]
  /\ cpu' = esp[next]

EarlyEoi(old, next, if, isr, frames) ==
  /\ SwitchFrom(old, next)
  /\ intr' = TRUE /\ in_service' = FALSE
  /\ irq_frame' = frames \ {esp[next]}

NoEoi(old, next, if, isr, frames) ==
  /\ SwitchFrom(old, next)
  /\ intr' = (if \/ esp[next] \in frames) /\ in_service' = isr
  /\ irq_frame' = frames \ {esp[next]}

SwitchStacks(old, next, if, isr, frames) ==
  /\ SwitchFrom(old, next)
  /\ IF esp[next] \in frames
       THEN intr' = TRUE /\ in_service' = FALSE
       ELSE intr' = if /\ in_service' = isr
  /\ irq_frame' = frames \ {esp[next]}

-----------------------------------------------------------------------------
(* scheduler_init and sti; every other slot is still unused.                *)
Init ==
  /\ state = [t \in Slots |-> IF t = KERNEL THEN "RUNNING" ELSE "UNUSED"]
  /\ remaining = [t \in Slots |-> 0]
  /\ esp = [t \in Slots |-> NoFrame]
  /\ current_task = KERNEL
  /\ task_count = 1
  /\ cpu = KERNEL
  /\ intr = TRUE
  /\ in_service = FALSE
  /\ irq_frame = {}
  /\ at = [t \in Slots |-> IF t = KERNEL THEN "boot" ELSE "code"]
  /\ pick = [t \in Slots |-> [old |-> KERNEL, next |-> KERNEL]]

(* task_create up to the store of TASK_READY: from here on a timer          *)
(* interrupt may run the new task.                                          *)
NoNewFrame(slot) == esp
NewFrame(slot) == [esp EXCEPT ![slot] = slot]

CreateTask ==
  /\ cpu = KERNEL /\ at[KERNEL] = "boot"
  /\ \E slot \in Slots :
       /\ state[slot] = "UNUSED"
       /\ \A t \in Slots : state[t] = "UNUSED" => slot <= t
       /\ esp' = NewFrame(slot)
       /\ state' = [state EXCEPT ![slot] = "READY"]
       /\ at' = [at EXCEPT ![KERNEL] = "creating", ![slot] = "code"]
       /\ pick' = [pick EXCEPT ![KERNEL] = [old |-> KERNEL, next |-> slot]]
  /\ UNCHANGED << remaining, current_task, task_count, cpu, intr, in_service,
                  irq_frame >>

(* The rest of task_create: sleep_until is cleared and the task counted.    *)
FinishCreate ==
  /\ cpu = KERNEL /\ at[KERNEL] = "creating"
  /\ remaining' = [remaining EXCEPT ![pick[KERNEL].next] = 0]
  /\ task_count' = task_count + 1
  /\ at' = [at EXCEPT ![KERNEL] = "boot"]
  /\ UNCHANGED << state, esp, current_task, cpu, intr, in_service, irq_frame,
                  pick >>

(* kernel_main enters the shell, which waits for a key.  The first tick     *)
(* comes before a command has been typed.                                   *)
EnterShell ==
  /\ cpu = KERNEL /\ at[KERNEL] = "boot"
  /\ at' = [at EXCEPT ![KERNEL] = "halted"]
  /\ UNCHANGED << state, remaining, esp, current_task, task_count, cpu, intr,
                  in_service, irq_frame, pick >>

(* A task waits for an event (keyboard_getchar, arp_resolve, tcp_recv).     *)
Halt(t) ==
  /\ t \in Halting
  /\ cpu = t /\ at[t] = "code"
  /\ at' = [at EXCEPT ![t] = "halted"]
  /\ UNCHANGED << state, remaining, esp, current_task, task_count, cpu, intr,
                  in_service, irq_frame, pick >>

(* task_sleep up to its call of task_yield.                                 *)
Sleep(t) ==
  /\ cpu = t /\ at[t] = "code"
  /\ \E ms \in IF t = KERNEL THEN KernelSleeps ELSE BackgroundSleeps :
       remaining' = [remaining EXCEPT ![current_task] = SleepTicks(ms)]
  /\ state' = [state EXCEPT ![current_task] = "SLEEPING"]
  /\ at' = [at EXCEPT ![t] = "schedule"]
  /\ UNCHANGED << esp, current_task, task_count, cpu, intr, in_service,
                  irq_frame, pick >>

(* The entry function returns into task_exit.                               *)
Exit(t) ==
  /\ t \in Returning
  /\ cpu = t /\ at[t] = "code"
  /\ current_task > 0
  /\ state' = [state EXCEPT ![current_task] = "UNUSED"]
  /\ task_count' = task_count - 1
  /\ at' = [at EXCEPT ![t] = "exited"]
  /\ UNCHANGED << remaining, esp, current_task, cpu, intr, in_service,
                  irq_frame, pick >>

(* Where a schedule() that does not switch returns to.                      *)
Return(t) == [at EXCEPT ![t] = IF @ = "exited" THEN "exited" ELSE "code"]

(* schedule(), called by the task itself: the test of task_count, the wake  *)
(* loop and the scan.                                                       *)
Scan(t) ==
  /\ cpu = t /\ at[t] \in {"schedule", "exited"}
  /\ IF task_count <= 1
       THEN at' = Return(t) /\ UNCHANGED << state, pick >>
       ELSE LET s == Woken(state, remaining)
            IN  /\ state' = s
                /\ \/ /\ OtherReady(s, current_task) = {}
                      /\ at' = Return(t)
                      /\ UNCHANGED pick
                   \/ \E n \in Slots :
                        /\ IsNext(s, current_task, n)
                        /\ pick' = [pick EXCEPT ![t] = [old |-> current_task,
                                                        next |-> n]]
                        /\ at' = [at EXCEPT ![t] = "picked"]
  /\ UNCHANGED << remaining, esp, current_task, task_count, cpu, intr,
                  in_service, irq_frame >>

(* ... the switch is recorded in the table ...                              *)
Commit(t) ==
  /\ cpu = t /\ at[t] = "picked"
  /\ state' = Switched(state, pick[t].old, pick[t].next)
  /\ current_task' = pick[t].next
  /\ at' = [at EXCEPT ![t] = "switching"]
  /\ UNCHANGED << remaining, esp, task_count, cpu, intr, in_service,
                  irq_frame, pick >>

(* ... and task_switch performs it; t goes on behind it when resumed.       *)
TaskSwitch(t) ==
  /\ cpu = t /\ at[t] = "switching"
  /\ SwitchStacks(pick[t].old, pick[t].next, intr, in_service, irq_frame)
  /\ at' = [at EXCEPT ![t] = "code"]
  /\ UNCHANGED << state, remaining, current_task, task_count, pick >>

(* IRQ0: the tick, schedule() with interrupts disabled, and the EOI when    *)
(* the handler returns on the stack it was entered on.                      *)
TimerInterrupt ==
  /\ intr /\ ~in_service
  /\ remaining' = Ticked(remaining)
  /\ at' = [at EXCEPT ![cpu] = IF @ = "halted" THEN "code" ELSE @]
  /\ LET s == IF task_count <= 1 THEN state ELSE WokenAtTick(state)
     IN  \/ /\ task_count <= 1 \/ OtherReady(s, current_task) = {}
            /\ state' = s
            /\ UNCHANGED << esp, current_task, cpu, intr, in_service,
                            irq_frame >>
         \/ /\ task_count > 1
            /\ \E n \in Slots :
                 /\ IsNext(s, current_task, n)
                 /\ state' = Switched(s, current_task, n)
                 /\ current_task' = n
                 /\ SwitchStacks(current_task, n, FALSE, TRUE,
                                 irq_frame \cup {cpu})
  /\ UNCHANGED << task_count, pick >>

(* The steps the CPU always goes on with.                                   *)
Run ==
  \/ FinishCreate
  \/ \E t \in Slots : Scan(t) \/ Commit(t) \/ TaskSwitch(t)
  \/ \E t \in Background : Sleep(t)

Next ==
  \/ CreateTask
  \/ FinishCreate
  \/ EnterShell
  \/ \E t \in Slots : \/ Halt(t)
                      \/ Sleep(t)
                      \/ Exit(t)
                      \/ Scan(t)
                      \/ Commit(t)
                      \/ TaskSwitch(t)
  \/ TimerInterrupt

Spec == Init /\ [][Next]_vars

(* The CPU executes what is next, the bodies of the background tasks reach  *)
(* their task_sleep, and the PIT keeps raising IRQ0.  Nothing is assumed of *)
(* the commands typed at the kernel task.                                   *)
FairSpec == Spec /\ WF_vars(Run) /\ WF_vars(TimerInterrupt)

-----------------------------------------------------------------------------
TypeOK ==
  /\ state \in [Slots -> States]
  /\ remaining \in [Slots -> Nat]
  /\ esp \in [Slots -> Slots \cup {NoFrame}]
  /\ current_task \in Slots
  /\ task_count \in Nat
  /\ cpu \in Slots
  /\ intr \in BOOLEAN
  /\ in_service \in BOOLEAN
  /\ irq_frame \subseteq Slots
  /\ at \in [Slots -> Places]
  /\ pick \in [Slots -> [old : Slots, next : Slots]]

(* The stack the CPU is on belongs to the task the table calls current, and *)
(* the saved ESP of every other live task still names that task's own       *)
(* frame: no interleaving of the timer with a schedule() saves a stack      *)
(* pointer into another task's slot or resumes one that is out of date.     *)
OwnStack ==
  /\ \A t \in Slots \ {cpu} : state[t] # "UNUSED" => esp[t] = t
  /\ cpu = current_task \/ at[cpu] = "switching"

(* While IRQ0 waits for its EOI, and so the clock stands still, the task    *)
(* whose interrupt frame will send that EOI is ready to be scheduled.       *)
EoiWillCome ==
  in_service => \E t \in irq_frame : state[t] = "READY" \/ current_task = t

(* hlt is executed only where an interrupt can end it.                      *)
HaltCanEnd == at[cpu] = "halted" => intr /\ ~in_service

(* A task that sleeps or is ready gets the CPU again: sleeps end and the     *)
(* rotation starves nobody.                                                 *)
NoStarvation ==
  \A t \in Slots :
    state[t] \in {"READY", "SLEEPING"} ~> cpu = t \/ state[t] = "UNUSED"

(* The clock never stops for good: IRQ0 can always be taken again.          *)
ClockGoesOn == []<>(intr /\ ~in_service)

(* The steps to the EOI at most: no task gets a second turn, and a turn is  *)
(* the body of the task, its schedule() and the parts of that.              *)
Stage(t) == CASE at[t] = "code" -> 4
              [] at[t] \in {"schedule", "exited"} -> 3
              [] at[t] = "picked" -> 2
              [] OTHER -> 1
Left == 4 * (MAX_TASKS - 1 - cpu) + Stage(cpu)

(* While IRQ0 waits for its EOI, and so the clock stands still, every step  *)
(* of the CPU brings the EOI nearer; task_exit does not spin in a           *)
(* schedule() that has nobody else to count; and when the EOI is sent,      *)
(* every background task that was ready has had its turn.                   *)
OneRotation ==
  [][in_service =>
       /\ task_count > 1
       /\ IF in_service' THEN Left' < Left
          ELSE \A t \in Background : state[t] # "READY"]_vars
=============================================================================
