-------------------------- MODULE SchedulerProofs --------------------------
(***************************************************************************)
(* The safety of the scheduler, for every size of the table, as long as the *)
(* sleeps of the kernel task end at the next tick at the latest and only    *)
(* the kernel task uses hlt.  The argument: a tick is the only event that   *)
(* makes a background task ready, the interrupt handler that counts it      *)
(* switches at once to the first of them, and from there on interrupts are  *)
(* disabled until the rotation, which meets the kernel task last, comes     *)
(* back to the interrupt frame of the kernel task.                          *)
(***************************************************************************)
EXTENDS Scheduler, FiniteSetTheorems, TLAPS

(* What the desktop does: claos.sleep(16) (init.lua:981), sleeps of 250,    *)
(* 1000 and 10 ms in the background tasks, and no hlt in any of those.      *)
ShortSleeps ==
  /\ \A ms \in KernelSleeps : ms < 20
  /\ \A ms \in BackgroundSleeps : ms >= 10
  /\ Halting \subseteq {KERNEL}

BackgroundReady(t) == t \in Background /\ state[t] = "READY"

(* The kernel task is on the CPU.                                           *)
KernelMode ==
  /\ cpu = KERNEL /\ current_task = KERNEL
  /\ intr /\ ~in_service /\ irq_frame = {}
  /\ state[KERNEL] # "UNUSED"
  /\ state[KERNEL] = "SLEEPING" => remaining[KERNEL] <= 1
  /\ \A t \in Background : state[t] # "RUNNING"
  /\ at[KERNEL] \in {"boot", "creating", "code", "halted", "schedule"}
  /\ at[KERNEL] \in {"code", "schedule"} =>
       \A t \in Background : /\ state[t] # "READY"
                             /\ state[t] = "SLEEPING" => remaining[t] >= 1
  /\ task_count <= 1 =>
       \A t \in Background : /\ state[t] # "SLEEPING"
                             /\ at[KERNEL] # "creating" => state[t] = "UNUSED"

(* The kernel task was interrupted and background tasks take their turns.   *)
BackgroundMode ==
  /\ cpu \in Background
  /\ ~intr /\ in_service /\ irq_frame = {KERNEL}
  /\ at[KERNEL] \in {"boot", "creating", "code", "schedule"}
  /\ \A t \in Background : BackgroundReady(t) => current_task # KERNEL /\ t > current_task
  /\ \A t \in Slots : state[t] = "SLEEPING" => remaining[t] >= 1
  /\ at[cpu] # "exited" => task_count > 1
  /\ at[cpu] \in {"code", "schedule", "exited", "picked"} =>
       current_task = cpu /\ state[KERNEL] = "READY"
  /\ at[cpu] = "switching" =>
       /\ current_task # cpu /\ current_task = pick[cpu].next /\ pick[cpu].old = cpu
       /\ state[current_task] = "RUNNING"
       /\ KERNEL # current_task => state[KERNEL] = "READY"
  /\ at[cpu] = "picked" => pick[cpu].old = cpu /\ IsNext(state, cpu, pick[cpu].next)
  /\ at[cpu] \in {"code", "schedule", "exited", "picked", "switching"}
  /\ at[cpu] = "code" => state[cpu] = "RUNNING"
  /\ at[cpu] # "code" => state[cpu] \in {"SLEEPING", "UNUSED"}
  /\ \A t \in Background : state[t] = "RUNNING" => t = current_task

IInv ==
  /\ TypeOK
  /\ task_count >= 1
  /\ \A t \in Slots \ {cpu} : state[t] # "UNUSED" => esp[t] = t
  /\ \A t \in Background \ {cpu} : at[t] = "code"
  /\ KernelMode \/ BackgroundMode

-----------------------------------------------------------------------------
LEMMA KernelSlot ==
  /\ KERNEL \in Slots /\ KERNEL \notin Background /\ Background \subseteq Slots
  /\ \A t \in Slots : t \in Background <=> t # KERNEL
BY SchedulerAssumption DEF KERNEL, Slots, Background

(* The strengthened invariant holds when scheduler_init has run.            *)
LEMMA InitIInv == Init => IInv
  <1> SUFFICES ASSUME Init PROVE IInv
    OBVIOUS
  <1>1. TypeOK
    BY KernelSlot DEF Init, TypeOK, States, Places
  <1>2. KernelMode
    BY SchedulerAssumption DEF Init, KernelMode, Background, Slots, KERNEL
  <1> QED
    BY <1>1, <1>2 DEF Init, IInv, Background

LEMMA CreateTaskStep == IInv /\ CreateTask => IInv'
  <1> SUFFICES ASSUME IInv, CreateTask PROVE IInv'
    OBVIOUS
  <1> USE KernelSlot
  <1>1. PICK slot \in Slots : CreateTask!2!(slot)
    BY DEF CreateTask
  <1>2. KernelMode
    BY DEF IInv, CreateTask, BackgroundMode
  <1>3. TypeOK'
    BY <1>1 DEF IInv, TypeOK, CreateTask, NewFrame, States, Places
  <1>4. KernelMode'
    BY <1>1, <1>2 DEF IInv, TypeOK, CreateTask, KernelMode
  <1> QED
    BY <1>1, <1>2, <1>3, <1>4 DEF IInv, TypeOK, CreateTask, KernelMode, NewFrame

LEMMA FinishCreateStep == IInv /\ FinishCreate => IInv'
  <1> SUFFICES ASSUME IInv, FinishCreate PROVE IInv'
    OBVIOUS
  <1> USE KernelSlot
  <1>1. KernelMode
    BY DEF IInv, FinishCreate, BackgroundMode
  <1>2. TypeOK'
    BY DEF IInv, TypeOK, FinishCreate, Places
  <1>3. KernelMode'
    BY <1>1 DEF IInv, TypeOK, FinishCreate, KernelMode
  <1> QED
    BY <1>1, <1>2, <1>3 DEF IInv, TypeOK, FinishCreate

LEMMA EnterShellStep == IInv /\ EnterShell => IInv'
  <1> SUFFICES ASSUME IInv, EnterShell PROVE IInv'
    OBVIOUS
  <1> USE KernelSlot
  <1>1. KernelMode
    BY DEF IInv, EnterShell, BackgroundMode
  <1>2. TypeOK'
    BY DEF IInv, TypeOK, EnterShell, Places
  <1>3. KernelMode'
    BY <1>1 DEF IInv, TypeOK, EnterShell, KernelMode
  <1> QED
    BY <1>1, <1>2, <1>3 DEF IInv, TypeOK, EnterShell

LEMMA HaltStep ==
  ASSUME ShortSleeps, NEW t \in Slots, IInv, Halt(t)
  PROVE  IInv'
  <1> USE KernelSlot
  <1>1. KernelMode /\ t = KERNEL
    BY DEF IInv, Halt, BackgroundMode, ShortSleeps
  <1>2. TypeOK'
    BY DEF IInv, TypeOK, Halt, Places
  <1>3. KernelMode'
    BY <1>1 DEF IInv, TypeOK, Halt, KernelMode
  <1> QED
    BY <1>1, <1>2, <1>3 DEF IInv, TypeOK, Halt

LEMMA SleepStep ==
  ASSUME ShortSleeps, NEW t \in Slots, IInv, Sleep(t)
  PROVE  IInv'
  <1> USE KernelSlot
  <1>1. PICK ms \in IF t = KERNEL THEN KernelSleeps ELSE BackgroundSleeps :
          remaining' = [remaining EXCEPT ![current_task] = SleepTicks(ms)]
    BY DEF Sleep
  <1>2. /\ SleepTicks(ms) \in Nat
        /\ t = KERNEL => SleepTicks(ms) <= 1
        /\ t # KERNEL => SleepTicks(ms) >= 1
    BY <1>1, SchedulerAssumption DEF SleepTicks, ShortSleeps
  <1>3. TypeOK'
    BY <1>1, <1>2 DEF IInv, TypeOK, Sleep, Places, States
  <1>4. CASE KernelMode
    <2>1. KernelMode'
      BY <1>1, <1>2, <1>4 DEF IInv, TypeOK, Sleep, KernelMode
    <2> QED
      BY <1>3, <1>4, <2>1 DEF IInv, TypeOK, Sleep, KernelMode
  <1>5. CASE BackgroundMode
    <2>1. BackgroundMode'
      BY <1>1, <1>2, <1>5
         DEF IInv, TypeOK, Sleep, BackgroundMode, BackgroundReady, Places
    <2> QED
      BY <1>3, <1>5, <2>1 DEF IInv, TypeOK, Sleep, BackgroundMode
  <1> QED
    BY <1>4, <1>5 DEF IInv

LEMMA ExitStep ==
  ASSUME NEW t \in Slots, IInv, Exit(t)
  PROVE  IInv'
  <1> USE KernelSlot
  <1>1. BackgroundMode
    BY DEF IInv, Exit, KernelMode, KERNEL
  <1>2. task_count \in Nat /\ task_count > 1
    BY <1>1 DEF IInv, TypeOK, Exit, BackgroundMode
  <1>3. TypeOK' /\ task_count' >= 1
    BY <1>2 DEF IInv, TypeOK, Exit, Places, States
  <1>4. BackgroundMode'
    BY <1>1 DEF IInv, TypeOK, Exit, BackgroundMode, BackgroundReady
  <1> QED
    BY <1>1, <1>3, <1>4 DEF IInv, TypeOK, Exit, BackgroundMode

LEMMA ScanStep ==
  ASSUME NEW t \in Slots, IInv, Scan(t)
  PROVE  IInv'
  <1> USE KernelSlot
  <1>1. /\ cpu = t /\ at[t] \in {"schedule", "exited"}
        /\ UNCHANGED << remaining, esp, current_task, task_count, cpu, intr,
                        in_service, irq_frame >>
    BY DEF Scan
  <1>2. CASE KernelMode
    <2>1. /\ state' = state \/ state' = Woken(state, remaining)
          /\ at' = [at EXCEPT ![KERNEL] = "code"]
          /\ UNCHANGED pick
      BY <1>1, <1>2 DEF KernelMode, Scan, Return, Woken, OtherReady, IsNext, IInv, TypeOK
    <2>2. TypeOK'
      BY <1>1, <2>1 DEF IInv, TypeOK, Woken, States, Places
    <2>3. KernelMode'
      BY <1>1, <1>2, <2>1 DEF IInv, TypeOK, Woken, KernelMode, States
    <2> QED
      BY <1>1, <1>2, <2>1, <2>2, <2>3 DEF IInv, TypeOK, Woken, KernelMode, States
  <1>3. CASE BackgroundMode
    <2>1. Woken(state, remaining) = state
      BY <1>3 DEF BackgroundMode, IInv, TypeOK, Woken
    <2>2. CASE task_count <= 1
      <3>1. at' = at /\ UNCHANGED << state, pick >>
        BY <1>1, <1>3, <2>2 DEF Scan, Return, BackgroundMode, IInv, TypeOK
      <3> QED
        BY <1>1, <1>3, <3>1 DEF IInv, TypeOK, BackgroundMode, BackgroundReady
    <2>3. CASE task_count > 1
      <3>1. KERNEL \in OtherReady(state, current_task)
        BY <1>1, <1>3 DEF BackgroundMode, OtherReady
      <3>2. /\ ~(task_count <= 1)
            /\ OtherReady(state, current_task) # {}
        BY <2>3, <3>1 DEF IInv, TypeOK
      <3>3. PICK n \in Slots :
               /\ IsNext(state, current_task, n)
               /\ pick' = [pick EXCEPT ![t] = [old |-> current_task, next |-> n]]
               /\ at' = [at EXCEPT ![t] = "picked"]
        BY <2>1, <3>2 DEF Scan
      <3>4. UNCHANGED state
        BY <2>1, <3>2 DEF Scan
      <3>5. TypeOK'
        BY <1>1, <3>3, <3>4 DEF IInv, TypeOK, Places
      <3>6. BackgroundMode'
        BY <1>1, <1>3, <2>3, <3>3, <3>4
           DEF IInv, TypeOK, BackgroundMode, BackgroundReady, IsNext, OtherReady
      <3> QED
        BY <1>1, <1>3, <3>3, <3>4, <3>5, <3>6 DEF IInv, TypeOK, BackgroundMode
    <2> QED
      BY <2>2, <2>3 DEF IInv, TypeOK
  <1> QED
    BY <1>2, <1>3 DEF IInv

LEMMA CommitStep ==
  ASSUME NEW t \in Slots, IInv, Commit(t)
  PROVE  IInv'
  <1> USE KernelSlot
  <1> DEFINE n == pick[t].next
  <1>1. BackgroundMode /\ cpu = t /\ pick[t].old = t /\ current_task = t
    BY DEF IInv, Commit, KernelMode, BackgroundMode
  <1>2. /\ n \in Slots /\ n # t /\ state[n] = "READY"
        /\ \A u \in OtherReady(state, t) : Place(t, n) <= Place(t, u)
    BY <1>1 DEF IInv, TypeOK, BackgroundMode, IsNext, OtherReady, Commit
  <1>3. /\ state' = [state EXCEPT ![n] = "RUNNING"]
        /\ current_task' = n
        /\ at' = [at EXCEPT ![t] = "switching"]
        /\ UNCHANGED << remaining, esp, task_count, cpu, intr, in_service,
                        irq_frame, pick >>
    BY <1>1, <1>2 DEF Commit, Switched, IInv, TypeOK, BackgroundMode
  <1>4. TypeOK'
    BY <1>2, <1>3 DEF IInv, TypeOK, Places, States
  <1>5. \A u \in Background : u # n /\ state[u] = "READY" => n # KERNEL /\ u > n
    <2> SUFFICES ASSUME NEW u \in Background, u # n, state[u] = "READY"
                 PROVE  n # KERNEL /\ u > n
      OBVIOUS
    <2>1. u > t /\ u \in OtherReady(state, t)
      BY <1>1, SchedulerAssumption
         DEF BackgroundMode, BackgroundReady, OtherReady, IInv, TypeOK, Slots
    <2>2. Place(t, n) <= Place(t, u)
      BY <1>2, <2>1
    <2> QED
      BY <1>1, <1>2, <2>1, <2>2, SchedulerAssumption
         DEF Place, Slots, KERNEL, Background, BackgroundMode
  <1>6. BackgroundMode'
    BY <1>1, <1>2, <1>3, <1>5 DEF IInv, TypeOK, BackgroundMode, BackgroundReady, Commit
  <1> QED
    BY <1>1, <1>2, <1>3, <1>4, <1>6 DEF IInv, TypeOK, BackgroundMode

LEMMA TaskSwitchStep ==
  ASSUME NEW t \in Slots, IInv, TaskSwitch(t)
  PROVE  IInv'
  <1> USE KernelSlot
  <1> DEFINE n == pick[t].next
  <1>1. /\ BackgroundMode /\ cpu = t /\ pick[t].old = t /\ current_task = n
        /\ n \in Slots /\ n # t /\ esp[n] = n
    BY DEF IInv, TaskSwitch, KernelMode, BackgroundMode, TypeOK
  <1>2. /\ esp' = [esp EXCEPT ![t] = t, ![n] = NoFrame]
        /\ cpu' = n
        /\ at' = [at EXCEPT ![t] = "code"]
        /\ UNCHANGED << state, remaining, current_task, task_count, pick >>
    BY <1>1 DEF TaskSwitch, SwitchStacks, SwitchFrom
  <1>3. /\ irq_frame' = {KERNEL} \ {n}
        /\ n = KERNEL => intr' = TRUE /\ in_service' = FALSE
        /\ n # KERNEL => intr' = intr /\ in_service' = in_service
    BY <1>1 DEF TaskSwitch, SwitchStacks, BackgroundMode
  <1>4. TypeOK'
    BY <1>1, <1>2, <1>3 DEF IInv, TypeOK, Places, BackgroundMode
  <1>5. /\ \A u \in Slots \ {cpu'} : state'[u] # "UNUSED" => esp'[u] = u
        /\ \A u \in Background \ {cpu'} : at'[u] = "code"
    BY <1>1, <1>2 DEF IInv, TypeOK, BackgroundMode
  <1>6. CASE n = KERNEL
    <2>1. KernelMode'
      BY <1>1, <1>2, <1>3, <1>6
         DEF IInv, TypeOK, KernelMode, BackgroundMode, BackgroundReady, TaskSwitch
    <2> QED
      BY <1>2, <1>4, <1>5, <2>1 DEF IInv
  <1>7. CASE n # KERNEL
    <2>1. /\ n \in Background /\ at'[n] = "code" /\ state'[n] = "RUNNING"
          /\ at'[KERNEL] = at[KERNEL] /\ task_count > 1
          /\ irq_frame' = {KERNEL}
      BY <1>1, <1>2, <1>3, <1>7 DEF IInv, TypeOK, BackgroundMode, TaskSwitch
    <2>2. ~intr' /\ in_service'
      <3>1. ~intr /\ in_service
        BY <1>1 DEF BackgroundMode
      <3>2. intr' = intr /\ in_service' = in_service
        BY <1>3, <1>7
      <3> QED
        BY ONLY <3>1, <3>2, Zenon
    <2>3. BackgroundMode'
      BY <1>1, <1>2, <1>7, <2>1, <2>2
         DEF IInv, TypeOK, BackgroundMode, BackgroundReady, TaskSwitch
    <2> QED
      BY <1>2, <1>4, <1>5, <2>3 DEF IInv
  <1> QED
    BY <1>6, <1>7

LEMMA TimerInterruptStep == IInv /\ TimerInterrupt => IInv'
  <1> SUFFICES ASSUME IInv, TimerInterrupt PROVE IInv'
    OBVIOUS
  <1> USE KernelSlot
  <1> DEFINE r == Ticked(remaining)
             s == IF task_count <= 1 THEN state ELSE WokenAtTick(state)
  <1>1. KernelMode
    BY DEF IInv, TimerInterrupt, BackgroundMode
  <1>2. /\ r \in [Slots -> Nat]
        /\ \A t \in Slots : remaining[t] <= 1 => r[t] = 0
        /\ \A t \in Slots : r[t] # 0 => r[t] >= 1
    <2>1. \A t \in Slots : remaining[t] \in Nat
      BY DEF IInv, TypeOK
    <2> QED
      BY <2>1 DEF Ticked
  <1>3. /\ s \in [Slots -> States]
        /\ \A t \in Slots : s[t] # "READY" => s[t] = state[t]
        /\ \A t \in Slots : s[t] = "READY" => state[t] \in {"READY", "SLEEPING"}
        /\ task_count > 1 => \A t \in Slots : s[t] = "SLEEPING" => r[t] >= 1
        /\ task_count <= 1 => s = state
    BY <1>2 DEF IInv, TypeOK, WokenAtTick, Woken, States
  <1>4. /\ remaining' = r /\ UNCHANGED << task_count, pick >>
        /\ at' = [at EXCEPT ![KERNEL] = IF @ = "halted" THEN "code" ELSE @]
    BY <1>1 DEF TimerInterrupt, KernelMode
  <1>5. CASE /\ task_count <= 1 \/ OtherReady(s, current_task) = {}
             /\ state' = s
             /\ UNCHANGED << esp, current_task, cpu, intr, in_service, irq_frame >>
    <2>1. TypeOK'
      BY <1>2, <1>3, <1>4, <1>5 DEF IInv, TypeOK, Places
    <2>2. task_count > 1 => \A t \in Background : s[t] # "READY"
      BY <1>1, <1>5 DEF OtherReady, KernelMode, IInv, TypeOK
    <2>3. KernelMode'
      BY <1>1, <1>2, <1>3, <1>4, <1>5, <2>2 DEF IInv, TypeOK, KernelMode, States, Places
    <2> QED
      BY <1>1, <1>3, <1>4, <1>5, <2>1, <2>3 DEF IInv, TypeOK, KernelMode
  <1>6. ASSUME task_count > 1, NEW n \in Slots, IsNext(s, current_task, n),
               state' = Switched(s, current_task, n), current_task' = n,
               SwitchStacks(current_task, n, FALSE, TRUE, irq_frame \cup {cpu})
        PROVE  IInv'
    <2>1. /\ n \in Background /\ s[n] = "READY" /\ esp[n] = n
          /\ \A u \in OtherReady(s, KERNEL) : Place(KERNEL, n) <= Place(KERNEL, u)
      BY <1>1, <1>3, <1>6 DEF IsNext, OtherReady, KernelMode, IInv, TypeOK
    <2>2. s[KERNEL] \in {"RUNNING", "READY"}
      BY <1>1, <1>2, <1>3, <1>6 DEF KernelMode, IInv, TypeOK, States
    <2>3. /\ state' = [s EXCEPT ![KERNEL] = "READY", ![n] = "RUNNING"]
      BY <1>1, <1>3, <2>1, <2>2, <1>6 DEF Switched, KernelMode
    <2>4. /\ esp' = [esp EXCEPT ![KERNEL] = KERNEL, ![n] = NoFrame]
          /\ cpu' = n /\ intr' = FALSE /\ in_service' = TRUE /\ irq_frame' = {KERNEL}
      BY <1>1, <1>6, <2>1 DEF SwitchStacks, SwitchFrom, KernelMode
    <2>5. \A u \in Background : u # n /\ s[u] = "READY" => u > n
      <3> SUFFICES ASSUME NEW u \in Background, u # n, s[u] = "READY" PROVE u > n
        OBVIOUS
      <3>1. Place(KERNEL, n) <= Place(KERNEL, u)
        BY <2>1 DEF OtherReady
      <3> QED
        BY <2>1, <3>1, SchedulerAssumption DEF Place, Slots, KERNEL, Background
    <2>6. TypeOK'
      <3>1. state' \in [Slots -> States] /\ esp' \in [Slots -> Slots \cup {NoFrame}]
        BY <1>3, <2>1, <2>3, <2>4 DEF IInv, TypeOK, States
      <3>2. at' \in [Slots -> Places]
        BY <1>4 DEF IInv, TypeOK, Places
      <3> QED
        BY <1>2, <1>4, <1>6, <2>1, <2>4, <3>1, <3>2 DEF IInv, TypeOK
    <2>7. BackgroundMode'
      <3>1. /\ at'[n] = "code" /\ state'[n] = "RUNNING" /\ state'[KERNEL] = "READY"
            /\ at'[KERNEL] \in {"boot", "creating", "code", "schedule"}
        BY <1>1, <1>3, <1>4, <2>1, <2>3 DEF IInv, TypeOK, KernelMode
      <3>2. /\ \A u \in Background : state'[u] = "READY" => u > n
            /\ \A u \in Background : state'[u] = "RUNNING" => u = n
        BY <1>1, <1>3, <2>1, <2>3, <2>5 DEF KernelMode
      <3>3. \A u \in Slots : state'[u] = "SLEEPING" => remaining'[u] >= 1
        BY <1>3, <1>4, <1>6, <2>1, <2>3
      <3> QED
        BY <1>4, <1>6, <2>1, <2>4, <3>1, <3>2, <3>3
           DEF BackgroundMode, BackgroundReady
    <2> QED
      BY <1>1, <1>3, <1>4, <1>6, <2>1, <2>3, <2>4, <2>6, <2>7
         DEF IInv, TypeOK, KernelMode
  <1>7. CASE task_count > 1 /\ \E n \in Slots :
                 /\ IsNext(s, current_task, n)
                 /\ state' = Switched(s, current_task, n)
                 /\ current_task' = n
                 /\ SwitchStacks(current_task, n, FALSE, TRUE, irq_frame \cup {cpu})
    BY <1>6, <1>7
  <1> QED
    BY <1>5, <1>7 DEF TimerInterrupt

LEMMA NextIInv == ASSUME ShortSleeps PROVE IInv /\ [Next]_vars => IInv'
  <1> SUFFICES ASSUME IInv, [Next]_vars PROVE IInv'
    OBVIOUS
  <1>1. ASSUME NEW t \in Slots,
               Halt(t) \/ Sleep(t) \/ Exit(t) \/ Scan(t) \/ Commit(t) \/ TaskSwitch(t)
        PROVE  IInv'
    BY <1>1, HaltStep, SleepStep, ExitStep, ScanStep, CommitStep, TaskSwitchStep
  <1>2. CASE UNCHANGED vars
    BY <1>2 DEF vars, IInv, TypeOK, KernelMode, BackgroundMode, BackgroundReady,
                IsNext, OtherReady, Place
  <1> QED
    BY <1>1, <1>2, CreateTaskStep, FinishCreateStep, EnterShellStep,
       TimerInterruptStep DEF Next

(* At most one task is marked running, and it is the current one.           *)
OneRunning == \A t \in Slots : state[t] = "RUNNING" => t = current_task

(* What the scheduler promises follows from the strengthened invariant.     *)
LEMMA IInvImplies ==
  ASSUME IInv
  PROVE  OwnStack /\ OneRunning /\ EoiWillCome /\ HaltCanEnd
  <1> USE KernelSlot
  <1>1. CASE KernelMode
    BY <1>1 DEF IInv, TypeOK, KernelMode, OwnStack, OneRunning, EoiWillCome, HaltCanEnd
  <1>2. CASE BackgroundMode
    <2>1. OwnStack
      BY <1>2 DEF IInv, TypeOK, BackgroundMode, OwnStack
    <2>2. OneRunning
      BY <1>2 DEF IInv, TypeOK, BackgroundMode, OneRunning
    <2>3. EoiWillCome /\ HaltCanEnd
      BY <1>2 DEF IInv, TypeOK, BackgroundMode, EoiWillCome, HaltCanEnd
    <2> QED
      BY <2>1, <2>2, <2>3
  <1> QED
    BY <1>1, <1>2 DEF IInv

LEMMA SpecIInv == ASSUME ShortSleeps PROVE Spec => []IInv
  <1>1. Init => IInv
    BY InitIInv
  <1>2. IInv /\ [Next]_vars => IInv'
    BY NextIInv
  <1> QED
    BY <1>1, <1>2, PTL DEF Spec

(* Whatever the size of the table: every variable keeps its type, so no      *)
(* index of the table that schedule() computes is out of range.             *)
THEOREM TypeCorrect == ASSUME ShortSleeps PROVE Spec => []TypeOK
  <1>1. IInv => TypeOK
    BY DEF IInv
  <1> QED
    BY <1>1, SpecIInv, PTL

(* No interleaving of the timer interrupt with task_create, task_sleep and   *)
(* schedule() ever saves a stack pointer in the wrong slot or resumes a      *)
(* frame that is out of date.                                               *)
THEOREM StacksKeptApart == ASSUME ShortSleeps PROVE Spec => []OwnStack
  <1>1. IInv => OwnStack
    BY IInvImplies
  <1> QED
    BY <1>1, SpecIInv, PTL

(* Only the current task is ever marked running.                            *)
THEOREM OnlyCurrentRuns == ASSUME ShortSleeps PROVE Spec => []OneRunning
  <1>1. IInv => OneRunning
    BY IInvImplies
  <1> QED
    BY <1>1, SpecIInv, PTL

(* While the clock stands still, the task that will restart it by sending    *)
(* the EOI can be scheduled.                                                *)
THEOREM EoiIsNeverLost == ASSUME ShortSleeps PROVE Spec => []EoiWillCome
  <1>1. IInv => EoiWillCome
    BY IInvImplies
  <1> QED
    BY <1>1, SpecIInv, PTL

(* The CPU is never halted where no interrupt could wake it.                *)
THEOREM HaltsAreWoken == ASSUME ShortSleeps PROVE Spec => []HaltCanEnd
  <1>1. IInv => HaltCanEnd
    BY IInvImplies
  <1> QED
    BY <1>1, SpecIInv, PTL

-----------------------------------------------------------------------------
(* The second argument: why the EOI is not far away.  task_count is exact   *)
(* but for the task being created, and the tasks of the first two slots do   *)
(* not return; so schedule() never finds itself alone behind an interrupt,   *)
(* and the rotation goes through the slots in order, back to the kernel.     *)

(* task_status_indicator and task_uptime_display, which kernel_main creates  *)
(* first, are endless loops (main.c:354-355).                               *)
FirstTwoStay == 1 \notin Returning /\ 2 \notin Returning

Live == {t \in Slots : state[t] # "UNUSED"}
Creating == at[KERNEL] = "creating"

Census ==
  /\ Cardinality(Live) = task_count + (IF Creating THEN 1 ELSE 0)
  /\ 1 \notin Live => Live \subseteq {KERNEL}
  /\ 2 \notin Live => Live \subseteq {KERNEL, 1}
  /\ in_service => 1 \in Live /\ (Creating => 2 \in Live)

(* A switch on the way to the EOI is to a later slot or to the kernel.      *)
Onward ==
  cpu # KERNEL /\ at[cpu] = "switching" => pick[cpu].next = KERNEL \/ pick[cpu].next > cpu

PInv == IInv /\ Census /\ Onward

LEMMA LiveFinite == IsFiniteSet(Live) /\ Cardinality(Live) \in Nat
  <1>1. IsFiniteSet(Slots)
    BY FS_Interval, SchedulerAssumption DEF Slots
  <1>2. Live \in SUBSET Slots
    BY DEF Live
  <1>3. IsFiniteSet(Live)
    BY <1>1, <1>2, FS_Subset
  <1> QED
    BY <1>3, FS_CardinalityType

LEMMA KernelIsLive == IInv => KERNEL \in Live
  BY KernelSlot DEF IInv, KernelMode, BackgroundMode, Live

LEMMA SmallSets ==
  /\ IsFiniteSet({KERNEL}) /\ Cardinality({KERNEL}) = 1
  /\ IsFiniteSet({KERNEL, 1}) /\ Cardinality({KERNEL, 1}) = 2
  /\ IsFiniteSet({KERNEL, 1, 2}) /\ Cardinality({KERNEL, 1, 2}) = 3
  <1>1. IsFiniteSet({KERNEL}) /\ Cardinality({KERNEL}) = 1
    BY FS_Singleton
  <1>2. {KERNEL, 1} = {KERNEL} \cup {1} /\ {KERNEL, 1, 2} = {KERNEL, 1} \cup {2}
    OBVIOUS
  <1>3. IsFiniteSet({KERNEL, 1}) /\ Cardinality({KERNEL, 1}) = 2
    BY <1>1, <1>2, FS_AddElement DEF KERNEL
  <1>4. IsFiniteSet({KERNEL, 1, 2}) /\ Cardinality({KERNEL, 1, 2}) = 3
    BY <1>2, <1>3, FS_AddElement DEF KERNEL
  <1> QED
    BY <1>1, <1>3, <1>4

(* Behind an interrupt there is somebody else to switch to.                 *)
LEMMA NotAlone ==
  ASSUME IInv, Census, in_service
  PROVE  task_count > 1
  <1>1. IsFiniteSet(Live) /\ KERNEL \in Live /\ 1 \in Live /\ task_count \in Nat
    BY LiveFinite, KernelIsLive DEF Census, IInv, TypeOK
  <1>2. Cardinality({KERNEL, 1}) = 2 /\ Cardinality({KERNEL, 1, 2}) = 3
    BY SmallSets
  <1>3. CASE ~Creating
    <2>1. Cardinality({KERNEL, 1}) <= Cardinality(Live)
      BY <1>1, FS_Subset
    <2> QED
      BY <1>1, <1>2, <1>3, <2>1 DEF Census
  <1>4. CASE Creating
    <2>1. {KERNEL, 1, 2} \in SUBSET Live
      BY <1>1, <1>4 DEF Census
    <2>2. 3 <= Cardinality(Live)
      BY <1>1, <1>2, <2>1, FS_Subset
    <2> QED
      BY <1>1, <1>4, <2>2 DEF Census
  <1> QED
    BY <1>3, <1>4

(* A step that neither makes a task nor ends one, nor enters the interrupt, *)
(* leaves the census alone.                                                 *)
LEMMA SameCensus ==
  ASSUME Census, Live' = Live, Creating' <=> Creating, task_count' = task_count,
         in_service' => in_service
  PROVE  Census'
BY DEF Census

LEMMA CreateTaskCensus == IInv /\ Census /\ CreateTask => Census'
  <1> SUFFICES ASSUME IInv, Census, CreateTask PROVE Census'
    OBVIOUS
  <1> USE KernelSlot
  <1>1. PICK slot \in Slots : CreateTask!2!(slot)
    BY DEF CreateTask
  <1>2. KernelMode
    BY DEF IInv, CreateTask, BackgroundMode
  <1>3. slot \notin Live /\ Live' = Live \cup {slot}
    BY <1>1 DEF IInv, TypeOK, Live
  <1>4. ~Creating /\ Creating' /\ ~in_service' /\ task_count' = task_count
    <2>1. at[KERNEL] = "boot" /\ at'[KERNEL] = "creating"
      BY <1>1, <1>2 DEF CreateTask, KernelMode, IInv, TypeOK
    <2> QED
      BY <1>2, <2>1 DEF CreateTask, KernelMode, Creating
  <1>5. Cardinality(Live') = Cardinality(Live) + 1
    BY <1>3, LiveFinite, FS_AddElement
  <1>6. KERNEL \in Live /\ slot # KERNEL
    BY <1>3, KernelIsLive
  <1>7. 1 \in Slots => 1 \in Live \/ slot <= 1
    BY <1>1 DEF Live
  <1>8. 2 \in Slots => 2 \in Live \/ slot <= 2
    BY <1>1 DEF Live
  <1>9. 1 \notin Live' => Live' \subseteq {KERNEL}
    BY <1>3, <1>6, <1>7, SchedulerAssumption DEF Slots, KERNEL, Live
  <1>10. 2 \notin Live' => Live' \subseteq {KERNEL, 1}
    <2> SUFFICES ASSUME 2 \notin Live' PROVE Live' \subseteq {KERNEL, 1}
      OBVIOUS
    <2>1. Live \subseteq {KERNEL, 1} /\ slot # 2
      BY <1>3 DEF Census
    <2>2. slot \in {KERNEL, 1}
      <3>1. 2 \in Slots => slot <= 2
        BY <1>3, <1>8
      <3> QED
        BY <2>1, <3>1, SchedulerAssumption DEF Slots, KERNEL
    <2> QED
      BY <1>3, <2>1, <2>2
  <1>11. task_count \in Nat
    BY DEF IInv, TypeOK
  <1> QED
    BY <1>4, <1>5, <1>9, <1>10, <1>11 DEF Census

LEMMA FinishCreateCensus == IInv /\ Census /\ FinishCreate => Census'
  <1> SUFFICES ASSUME IInv, Census, FinishCreate PROVE Census'
    OBVIOUS
  <1> USE KernelSlot
  <1>1. KernelMode /\ Creating
    BY DEF IInv, FinishCreate, BackgroundMode, Creating
  <1>2. Live' = Live
    BY DEF FinishCreate, Live
  <1>3. ~Creating' /\ ~in_service' /\ task_count' = task_count + 1 /\ task_count \in Nat
    BY <1>1 DEF FinishCreate, KernelMode, IInv, TypeOK, Creating
  <1> QED
    BY <1>1, <1>2, <1>3 DEF Census

LEMMA ExitCensus ==
  ASSUME FirstTwoStay, NEW t \in Slots, IInv, Census, Exit(t)
  PROVE  Census'
  <1> USE KernelSlot
  <1>1. /\ BackgroundMode /\ current_task = t /\ t \in Live /\ t \notin {KERNEL, 1, 2}
        /\ at'[KERNEL] = at[KERNEL]
    BY DEF IInv, TypeOK, Exit, KernelMode, BackgroundMode, Live, FirstTwoStay, KERNEL
  <1>2. Live' = Live \ {t}
    BY <1>1 DEF Exit, Live, IInv, TypeOK
  <1>3. Cardinality(Live') = Cardinality(Live) - 1
    BY <1>1, <1>2, LiveFinite, FS_RemoveElement
  <1>4. /\ Creating' <=> Creating
        /\ task_count' = task_count - 1 /\ task_count \in Nat /\ in_service' = in_service
    BY <1>1 DEF Exit, Creating, IInv, TypeOK
  <1> QED
    BY <1>1, <1>2, <1>3, <1>4 DEF Census

(* A task that is running its own code is live, so going to sleep, being    *)
(* woken, being chosen and being switched to leave the live tasks the same.  *)
LEMMA SleepCensus ==
  ASSUME NEW t \in Slots, IInv, Census, Sleep(t)
  PROVE  Census'
  <1> USE KernelSlot
  <1>1. current_task = t /\ state[t] # "UNUSED"
    BY DEF IInv, Sleep, KernelMode, BackgroundMode
  <1>2. Live' = Live
    BY <1>1 DEF Sleep, Live, IInv, TypeOK
  <1>3. Creating' <=> Creating
    BY DEF Sleep, Creating, IInv, TypeOK
  <1> QED
    BY <1>2, <1>3, SameCensus DEF Sleep

LEMMA ScanCensus ==
  ASSUME NEW t \in Slots, IInv, Census, Scan(t)
  PROVE  Census'
  <1> USE KernelSlot
  <1>1. state' = state \/ state' = Woken(state, remaining)
    BY DEF Scan
  <1>2. Live' = Live
    BY <1>1 DEF Live, Woken
  <1>3. \/ at' = Return(t)
        \/ at' = [at EXCEPT ![t] = "picked"]
    BY DEF Scan
  <1>4. Creating' <=> Creating
    BY <1>3 DEF Scan, Return, Creating, IInv, TypeOK
  <1> QED
    BY <1>2, <1>4, SameCensus DEF Scan

LEMMA CommitCensus ==
  ASSUME NEW t \in Slots, IInv, Census, Commit(t)
  PROVE  Census'
  <1> USE KernelSlot
  <1>1. state[pick[t].next] = "READY"
    BY DEF IInv, Commit, KernelMode, BackgroundMode, IsNext, OtherReady
  <1>2. Live' = Live
    BY <1>1 DEF Commit, Live, Switched
  <1>3. Creating' <=> Creating
    BY DEF Commit, Creating, IInv, TypeOK
  <1> QED
    BY <1>2, <1>3, SameCensus DEF Commit

LEMMA TaskSwitchCensus ==
  ASSUME NEW t \in Slots, IInv, Census, TaskSwitch(t)
  PROVE  Census'
  <1> USE KernelSlot
  <1>1. BackgroundMode /\ cpu = t
    BY DEF IInv, TaskSwitch, KernelMode
  <1>2. Live' = Live /\ in_service
    BY <1>1 DEF TaskSwitch, Live, BackgroundMode
  <1>3. Creating' <=> Creating
    BY <1>1 DEF TaskSwitch, Creating, IInv, TypeOK, BackgroundMode
  <1> QED
    BY <1>2, <1>3, SameCensus DEF TaskSwitch

(* The tick switches only when two tasks have been counted: the kernel and   *)
(* the first slot; with a third being created it is the second slot.         *)
LEMMA TimerCensus == IInv /\ Census /\ TimerInterrupt => Census'
  <1> SUFFICES ASSUME IInv, Census, TimerInterrupt PROVE Census'
    OBVIOUS
  <1> USE KernelSlot
  <1> DEFINE s == IF task_count <= 1 THEN state ELSE WokenAtTick(state)
  <1>1. KernelMode
    BY DEF IInv, TimerInterrupt, BackgroundMode
  <1>2. \A t \in Slots : s[t] # "UNUSED" <=> state[t] # "UNUSED"
    BY DEF WokenAtTick, Woken
  <1>3. \/ state' = s
        \/ \E n \in Slots : IsNext(s, current_task, n) /\ state' = Switched(s, current_task, n)
    BY DEF TimerInterrupt
  <1>4. Live' = Live
    BY <1>2, <1>3 DEF Live, Switched, IsNext, OtherReady
  <1>5. (Creating' <=> Creating) /\ task_count' = task_count
    BY <1>1 DEF TimerInterrupt, Creating, IInv, TypeOK, KernelMode
  <1>6. CASE task_count <= 1
    <2>1. in_service' => in_service
      <3>1. ~(task_count > 1)
        BY <1>6 DEF IInv, TypeOK
      <3> QED
        BY <3>1, Zenon DEF TimerInterrupt
    <2> QED
      BY <1>4, <1>5, <2>1, SameCensus
  <1>7. CASE task_count > 1
    <2>1. Cardinality(Live) >= IF Creating THEN 3 ELSE 2
      BY <1>7 DEF Census, IInv, TypeOK
    <2>2. /\ IsFiniteSet({KERNEL}) /\ Cardinality({KERNEL}) = 1
          /\ IsFiniteSet({KERNEL, 1}) /\ Cardinality({KERNEL, 1}) = 2
      BY SmallSets
    <2>3. 1 \in Live
      <3> SUFFICES ASSUME 1 \notin Live PROVE FALSE
        OBVIOUS
      <3>1. Live \in SUBSET {KERNEL}
        BY DEF Census
      <3>2. Cardinality(Live) <= 1
        BY <2>2, <3>1, FS_Subset
      <3> QED
        BY <2>1, <3>2, LiveFinite
    <2>4. Creating => 2 \in Live
      <3> SUFFICES ASSUME Creating, 2 \notin Live PROVE FALSE
        OBVIOUS
      <3>1. Live \in SUBSET {KERNEL, 1}
        BY DEF Census
      <3>2. Cardinality(Live) <= 2
        BY <2>2, <3>1, FS_Subset
      <3> QED
        BY <2>1, <3>2, LiveFinite
    <2> QED
      BY <1>4, <1>5, <2>3, <2>4 DEF Census
  <1> QED
    BY <1>6, <1>7 DEF IInv, TypeOK

LEMMA NextCensus ==
  ASSUME FirstTwoStay
  PROVE  IInv /\ Census /\ [Next]_vars => Census'
  <1> SUFFICES ASSUME IInv, Census, [Next]_vars PROVE Census'
    OBVIOUS
  <1>1. ASSUME NEW t \in Slots, Halt(t) PROVE Census'
    <2>1. Live' = Live
      BY <1>1 DEF Halt, Live
    <2>2. Creating' <=> Creating
      BY <1>1, KernelSlot DEF Halt, Creating, IInv, TypeOK
    <2> QED
      BY <1>1, <2>1, <2>2, SameCensus DEF Halt
  <1>2. CASE EnterShell
    <2>1. Live' = Live
      BY <1>2 DEF EnterShell, Live
    <2>2. Creating' <=> Creating
      BY <1>2, KernelSlot DEF EnterShell, Creating, IInv, TypeOK
    <2> QED
      BY <1>2, <2>1, <2>2, SameCensus DEF EnterShell
  <1>3. CASE UNCHANGED vars
    BY <1>3, SameCensus DEF vars, Live, Creating
  <1>4. ASSUME NEW t \in Slots,
               Sleep(t) \/ Exit(t) \/ Scan(t) \/ Commit(t) \/ TaskSwitch(t)
        PROVE  Census'
    BY <1>4, SleepCensus, ExitCensus, ScanCensus, CommitCensus, TaskSwitchCensus
  <1> QED
    BY <1>1, <1>2, <1>3, <1>4, CreateTaskCensus, FinishCreateCensus, TimerCensus DEF Next

(* The rotation meets the slots behind the current one before the kernel.   *)
LEMMA CommitIsOnward ==
  ASSUME NEW t \in Slots, IInv, Commit(t)
  PROVE  pick[t].next = KERNEL \/ pick[t].next > t
  <1> USE KernelSlot
  <1> DEFINE n == pick[t].next
  <1> SUFFICES n = KERNEL \/ n > t
    OBVIOUS
  <1>1. /\ BackgroundMode /\ cpu = t /\ t # KERNEL /\ state[KERNEL] = "READY"
        /\ IsNext(state, t, n)
    BY DEF IInv, Commit, KernelMode, BackgroundMode
  <1>2. n \in Slots /\ n # t /\ Place(t, n) <= Place(t, KERNEL)
    BY <1>1 DEF IsNext, OtherReady
  <1> HIDE DEF n
  <1> QED
    BY <1>1, <1>2, SchedulerAssumption DEF Place, Slots, KERNEL

LEMMA NextOnward == IInv /\ Onward /\ [Next]_vars => Onward'
  <1> SUFFICES ASSUME IInv, Onward, [Next]_vars, cpu' # KERNEL, at'[cpu'] = "switching"
               PROVE  pick'[cpu'].next = KERNEL \/ pick'[cpu'].next > cpu'
    BY DEF Onward
  <1> USE KernelSlot
  <1>1. ASSUME NEW t \in Slots, Commit(t)
        PROVE  pick'[cpu'].next = KERNEL \/ pick'[cpu'].next > cpu'
    BY <1>1, CommitIsOnward DEF Commit
  <1>2. ASSUME NEW t \in Slots,
               Halt(t) \/ Sleep(t) \/ Exit(t) \/ Scan(t)
        PROVE  FALSE
    <2>1. cpu = t /\ cpu' = t /\ at'[t] \in {"halted", "schedule", "exited", "code", "picked"}
      BY <1>2 DEF Halt, Sleep, Exit, Scan, Return, IInv, TypeOK
    <2> QED
      BY <2>1
  <1>3. ASSUME NEW t \in Slots, TaskSwitch(t) PROVE FALSE
    <2>1. /\ cpu = t /\ BackgroundMode /\ cpu' = esp[pick[t].next]
          /\ at' = [at EXCEPT ![t] = "code"]
      BY <1>3 DEF TaskSwitch, SwitchStacks, SwitchFrom, IInv, KernelMode
    <2>2. pick[t].next \in Slots \ {t} /\ state[pick[t].next] # "UNUSED"
      BY <1>3, <2>1 DEF TaskSwitch, BackgroundMode, IInv, TypeOK
    <2>3. cpu' \in Background \ {t}
      BY <2>1, <2>2 DEF IInv
    <2> QED
      BY <2>1, <2>3 DEF IInv, TypeOK
  <1>4. CASE CreateTask \/ FinishCreate \/ EnterShell
    BY <1>4 DEF CreateTask, FinishCreate, EnterShell
  <1>5. CASE TimerInterrupt
    <2>1. KernelMode /\ \A u \in Background : at'[u] = "code"
      BY <1>5 DEF IInv, TypeOK, TimerInterrupt, BackgroundMode, KernelMode
    <2>2. cpu' \in Slots
      BY <1>5, TimerInterruptStep DEF IInv, TypeOK
    <2> QED
      BY <2>1, <2>2
  <1>6. CASE UNCHANGED vars
    BY <1>6 DEF vars, Onward
  <1> QED
    BY <1>1, <1>2, <1>3, <1>4, <1>5, <1>6 DEF Next

LEMMA InitPInv == Init => PInv
  <1> SUFFICES ASSUME Init PROVE PInv
    OBVIOUS
  <1>1. Live = {KERNEL}
    BY KernelSlot DEF Init, Live
  <1>2. Cardinality(Live) = 1
    BY <1>1, FS_Singleton
  <1>3. ~Creating /\ Onward
    BY KernelSlot DEF Init, Creating, Onward
  <1> QED
    BY <1>1, <1>2, <1>3, InitIInv DEF Init, PInv, Census

LEMMA SpecPInv == ASSUME ShortSleeps, FirstTwoStay PROVE Spec => []PInv
  <1>1. Init => PInv
    BY InitPInv
  <1>2. PInv /\ [Next]_vars => PInv'
    BY NextIInv, NextCensus, NextOnward DEF PInv
  <1> QED
    BY <1>1, <1>2, PTL DEF Spec

(* task_count is the number of live tasks, but for the one being created.   *)
CountIsExact == Cardinality(Live) = task_count + (IF Creating THEN 1 ELSE 0)

THEOREM TasksAreCounted ==
  ASSUME ShortSleeps, FirstTwoStay PROVE Spec => []CountIsExact
  <1>1. PInv => CountIsExact
    BY DEF PInv, Census, CountIsExact
  <1> QED
    BY <1>1, SpecPInv, PTL

(* What is left of the way to the EOI is a number of steps, at most four    *)
(* for every slot.                                                          *)
LeftBounded == Left \in 1 .. 4 * MAX_TASKS

LEMMA LeftInRange == IInv => LeftBounded
  <1> SUFFICES ASSUME IInv PROVE LeftBounded
    OBVIOUS
  <1>1. cpu \in 0 .. MAX_TASKS - 1 /\ Stage(cpu) \in 1 .. 4
    BY DEF IInv, TypeOK, Stage, Slots
  <1> HIDE DEF Stage
  <1> QED
    BY <1>1, SchedulerAssumption DEF Left, LeftBounded

(* Within a turn the stage goes down; a switch goes to a later slot.         *)
LEMMA TurnGoesOn ==
  ASSUME IInv, cpu' = cpu, Stage(cpu)' < Stage(cpu), Stage(cpu)' \in 1 .. 4,
         Stage(cpu) \in 1 .. 4
  PROVE  Left' < Left
  <1>1. cpu \in Int /\ MAX_TASKS \in Int
    BY SchedulerAssumption DEF IInv, TypeOK, Slots
  <1>2. /\ Left = 4 * (MAX_TASKS - 1 - cpu) + Stage(cpu)
        /\ Left' = 4 * (MAX_TASKS - 1 - cpu) + Stage(cpu)'
    BY DEF Left
  <1> HIDE DEF Stage, Left
  <1> QED
    BY <1>1, <1>2

LEMMA StepComesNearer ==
  ASSUME ShortSleeps, PInv, Next, in_service, in_service'
  PROVE  Left' < Left
  <1> USE KernelSlot
  <1>1. /\ IInv /\ BackgroundMode /\ cpu \in Slots /\ cpu # KERNEL /\ task_count > 1
        /\ state[KERNEL] = "READY" \/ at[cpu] = "switching"
    BY NotAlone DEF PInv, IInv, KernelMode, BackgroundMode
  <1>2. ASSUME NEW t \in Slots, Sleep(t) \/ Exit(t) \/ Commit(t)
        PROVE  Left' < Left
    <2>1. cpu' = cpu /\ Stage(cpu)' < Stage(cpu) /\ Stage(cpu)' \in 1 .. 4 /\ Stage(cpu) \in 1 .. 4
      BY <1>1, <1>2 DEF Sleep, Exit, Commit, Stage, IInv, TypeOK
    <2> QED
      BY <1>1, <2>1, TurnGoesOn
  <1>3. ASSUME NEW t \in Slots, Scan(t) PROVE Left' < Left
    <2>1. /\ cpu = t /\ at[t] \in {"schedule", "exited"} /\ cpu' = cpu /\ current_task = t
          /\ state[KERNEL] = "READY"
      BY <1>1, <1>3 DEF Scan, BackgroundMode
    <2>2. OtherReady(Woken(state, remaining), current_task) # {}
      BY <1>1, <2>1 DEF Woken, OtherReady
    <2>3. at' = [at EXCEPT ![t] = "picked"]
      <3>1. ~(task_count <= 1)
        BY <1>1 DEF IInv, TypeOK
      <3> QED
        BY <1>3, <2>2, <3>1, Zenon DEF Scan
    <2>4. Stage(cpu)' = 2 /\ Stage(cpu) = 3
      BY <1>1, <2>1, <2>3 DEF Stage, IInv, TypeOK
    <2> QED
      BY <1>1, <2>1, <2>4, TurnGoesOn
  <1>4. ASSUME NEW t \in Slots, TaskSwitch(t) PROVE Left' < Left
    <2> DEFINE n == pick[t].next
    <2>1. /\ cpu = t /\ at[t] = "switching" /\ n \in Slots /\ n # t /\ esp[n] = n
          /\ n = KERNEL \/ n > t
      BY <1>1, <1>4 DEF TaskSwitch, BackgroundMode, IInv, TypeOK, PInv, Onward
    <2>2. cpu' = n /\ n # KERNEL
      BY <1>1, <1>4, <2>1 DEF TaskSwitch, SwitchStacks, SwitchFrom, BackgroundMode
    <2>3. Stage(cpu) = 1 /\ Stage(cpu)' \in 1 .. 4
      <3>1. at'[n] = at[n]
        BY <1>1, <1>4, <2>1 DEF TaskSwitch, IInv, TypeOK
      <3> QED
        BY <2>1, <2>2, <3>1 DEF Stage
    <2>4. /\ Left = 4 * (MAX_TASKS - 1 - t) + 1
          /\ Left' = 4 * (MAX_TASKS - 1 - n) + Stage(cpu)'
      BY <2>1, <2>2, <2>3 DEF Left
    <2>5. MAX_TASKS \in Int /\ t \in Int /\ n \in Int /\ n > t
      BY <2>1, <2>2, SchedulerAssumption DEF Slots
    <2> HIDE DEF n, Left, Stage
    <2> QED
      BY <2>3, <2>4, <2>5
  <1>5. ASSUME NEW t \in Slots, Halt(t) PROVE FALSE
    BY <1>1, <1>5 DEF Halt, ShortSleeps
  <1>6. ~CreateTask /\ ~FinishCreate /\ ~EnterShell
    BY <1>1 DEF CreateTask, FinishCreate, EnterShell
  <1>7. ~TimerInterrupt
    BY DEF TimerInterrupt
  <1> HIDE DEF Left
  <1> QED
    BY <1>2, <1>3, <1>4, <1>5, <1>6, <1>7 DEF Next

LEMMA EveryTurnTaken ==
  ASSUME ShortSleeps, PInv, Next, in_service, ~in_service'
  PROVE  \A t \in Background : state[t] # "READY"
  <1> USE KernelSlot
  <1>1. IInv /\ BackgroundMode
    BY DEF PInv, IInv, KernelMode
  <1>2. PICK t \in Slots : TaskSwitch(t)
    BY <1>1 DEF Next, CreateTask, FinishCreate, EnterShell, Halt, Sleep, Exit, Scan, Commit,
                TimerInterrupt
  <1>3. pick[t].next = KERNEL /\ current_task = KERNEL
    BY <1>1, <1>2 DEF TaskSwitch, SwitchStacks, BackgroundMode, IInv, TypeOK
  <1> QED
    BY <1>1, <1>3 DEF BackgroundMode, BackgroundReady

(* The safety of ClockGoesOn and of NoStarvation: from an IRQ0 to its EOI    *)
(* the CPU has a step that is not a spin of task_exit, every step it makes   *)
(* lowers a measure that is a number of at most 4 * MAX_TASKS, and no ready  *)
(* task is passed over.                                                     *)
THEOREM RotationEnds ==
  ASSUME ShortSleeps, FirstTwoStay PROVE Spec => []LeftBounded /\ OneRotation
  <1> DEFINE Nearer ==
        in_service =>
          /\ task_count > 1
          /\ IF in_service' THEN Left' < Left
             ELSE \A t \in Background : state[t] # "READY"
  <1>1. PInv /\ [Next]_vars => [Nearer]_vars
    BY NotAlone, StepComesNearer, EveryTurnTaken DEF PInv
  <1>2. PInv => LeftBounded
    BY LeftInRange DEF PInv
  <1> QED
    BY <1>1, <1>2, SpecPInv, PTL DEF Spec, OneRotation

=============================================================================
