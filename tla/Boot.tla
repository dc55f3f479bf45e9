--------------------------------- MODULE Boot ---------------------------------
(***************************************************************************)
(* Starting the processors: kernel::init and _start on the bootstrap       *)
(* processor (kernel/src/lib.rs, main.rs) against ap_entry on every other  *)
(* one (arch/mod.rs), with the flags and lazily created statics they share *)
(* (arch/smp.rs, arch/apic.rs, task/scheduler.rs).  Devices and file       *)
(* systems, which only the bootstrap processor touches, are left out.      *)
(***************************************************************************)
EXTENDS Naturals, FiniteSets

CONSTANTS
  Bsp,          \* BSP_LAPIC_ID
  Id            \* per lapic id: the id the boot loader gives the processor;
                \* only the bootstrap processor's may be BSP_LAPIC_ID

Cpu == DOMAIN Id
NoInfo == 0

VARIABLES
  pc,           \* per processor: the next step of its boot
  cpus,         \* CPUS: per lapic id, which CpuInfo it has
  cpus_locked,  \* CPUS is locked by init_ap
  loaded,       \* per processor: the CpuInfo it has loaded
  lapic_mode,   \* the timer mode kept in the static LAPIC
  timer,        \* per processor: mode and initial count of its timer
  flags,        \* APIC_INIT, SCHEDULER_INIT, START_SCHEDULE, as far as set
  scheduled     \* the keys of current_threads once SCHEDULER is created

vars == <<pc, cpus, cpus_locked, loaded, lapic_mode, timer, flags, scheduled>>

TypeOK ==
  /\ pc \in [Cpu -> {"off", "bsp", "aps", "apic", "timer", "task", "thread", "start", "run"}]
  /\ cpus \in [Cpu -> 0..Cardinality(Cpu)] /\ loaded \in [Cpu -> 0..Cardinality(Cpu)]
  /\ cpus_locked \in BOOLEAN
  /\ lapic_mode \in {"OneShot", "Periodic"}
  /\ timer \in [Cpu -> {"OneShot", "Periodic"} \X {"none", "calibrated"}]
  /\ flags \subseteq {"APIC_INIT", "SCHEDULER_INIT", "START_SCHEDULE"}
  /\ scheduled \subseteq Cpu

Goto(c, next) == pc' = [pc EXCEPT ![c] = next]

-----------------------------------------------------------------------------
(* CPUS.write().init_bsp(), then the lock for init_ap.                      *)
init_bsp ==
  /\ pc[Bsp] = "bsp"
  /\ loaded' = [loaded EXCEPT ![Bsp] = cpus[Bsp]]
  /\ cpus_locked' = TRUE /\ Goto(Bsp, "aps")
  /\ UNCHANGED <<cpus, lapic_mode, timer, flags, scheduled>>

(* One round of the loop of init_ap: a CpuInfo, and the processor starts.   *)
init_ap ==
  /\ pc[Bsp] = "aps"
  /\ \E c \in Cpu :
       /\ Id[c] # Bsp /\ pc[c] = "off" /\ cpus[c] = NoInfo
       /\ cpus' = [cpus EXCEPT ![c] = 1 + Cardinality({d \in Cpu : cpus[d] # NoInfo})]
       /\ Goto(c, "bsp")
  /\ UNCHANGED <<cpus_locked, loaded, lapic_mode, timer, flags, scheduled>>

(* Mutant: the guard of CPUS outlives the loop.                             *)
init_ap_keeps ==
  /\ pc[Bsp] = "aps" /\ \A c \in Cpu : Id[c] # Bsp => pc[c] # "off"
  /\ Goto(Bsp, "apic")
  /\ UNCHANGED <<cpus, cpus_locked, loaded, lapic_mode, timer, flags, scheduled>>

init_ap_done ==
  /\ pc[Bsp] = "aps" /\ \A c \in Cpu : Id[c] # Bsp => pc[c] # "off"
  /\ cpus_locked' = FALSE /\ Goto(Bsp, "apic")
  /\ UNCHANGED <<cpus, loaded, lapic_mode, timer, flags, scheduled>>

(* apic::init: calibrate_timer creates LAPIC and makes it periodic.         *)
apic_init ==
  /\ pc[Bsp] = "apic"
  /\ lapic_mode' = "Periodic" /\ timer' = [timer EXCEPT ![Bsp] = <<"Periodic", "calibrated">>]
  /\ Goto(Bsp, "timer")
  /\ UNCHANGED <<cpus, cpus_locked, loaded, flags, scheduled>>

apic_init_done ==
  /\ pc[Bsp] = "timer" /\ flags' = flags \cup {"APIC_INIT"} /\ Goto(Bsp, "task")
  /\ UNCHANGED <<cpus, cpus_locked, loaded, lapic_mode, timer, scheduled>>

task_init ==
  /\ pc[Bsp] = "task" /\ flags' = flags \cup {"SCHEDULER_INIT"} /\ Goto(Bsp, "thread")
  /\ UNCHANGED <<cpus, cpus_locked, loaded, lapic_mode, timer, scheduled>>

(* The first use of SCHEDULER, by new_kernel_thread: Scheduler::new gives   *)
(* every processor of CPUS a thread.                                        *)
new_kernel_thread ==
  /\ pc[Bsp] = "thread"
  /\ scheduled' = {c \in Cpu : cpus[c] # NoInfo}
  /\ Goto(Bsp, "start")
  /\ UNCHANGED <<cpus, cpus_locked, loaded, lapic_mode, timer, flags>>

start_schedule ==
  /\ pc[Bsp] = "start" /\ flags' = flags \cup {"START_SCHEDULE"} /\ Goto(Bsp, "run")
  /\ UNCHANGED <<cpus, cpus_locked, loaded, lapic_mode, timer, scheduled>>

bsp_boot ==
  init_bsp \/ init_ap \/ init_ap_done \/ apic_init \/ apic_init_done \/ task_init
    \/ new_kernel_thread \/ start_schedule

-----------------------------------------------------------------------------
(* ap_entry: CPUS is locked to load the CpuInfo; here init_ap still has it. *)
ap_load(c) ==
  /\ pc[c] = "bsp" /\ ~cpus_locked
  /\ loaded' = [loaded EXCEPT ![c] = cpus[c]] /\ Goto(c, "apic")
  /\ UNCHANGED <<cpus, cpus_locked, lapic_mode, timer, flags, scheduled>>

(* Mutant: the processor does not wait for APIC_INIT.                       *)
ap_enable_early(c) ==
  /\ pc[c] = "apic"
  /\ timer' = [timer EXCEPT ![c] = <<lapic_mode, "none">>] /\ Goto(c, "timer")
  /\ UNCHANGED <<cpus, cpus_locked, loaded, lapic_mode, flags, scheduled>>

(* LAPIC.lock().enable() takes the mode from the shared LAPIC.              *)
ap_enable(c) ==
  /\ pc[c] = "apic" /\ "APIC_INIT" \in flags
  /\ timer' = [timer EXCEPT ![c] = <<lapic_mode, "none">>] /\ Goto(c, "timer")
  /\ UNCHANGED <<cpus, cpus_locked, loaded, lapic_mode, flags, scheduled>>

(* CALIBRATED_TIMER_INITIAL is the count calibrate_timer gave the timer of  *)
(* the bootstrap processor.                                                 *)
ap_set_timer(c) ==
  /\ pc[c] = "timer"
  /\ timer' = [timer EXCEPT ![c] = <<timer[c][1], timer[Bsp][2]>>]
  /\ Goto(c, "task")
  /\ UNCHANGED <<cpus, cpus_locked, loaded, lapic_mode, flags, scheduled>>

ap_wait_scheduler(c) ==
  /\ pc[c] = "task" /\ "SCHEDULER_INIT" \in flags /\ Goto(c, "start")
  /\ UNCHANGED <<cpus, cpus_locked, loaded, lapic_mode, timer, flags, scheduled>>

ap_start(c) ==
  /\ pc[c] = "start" /\ "START_SCHEDULE" \in flags /\ Goto(c, "run")
  /\ UNCHANGED <<cpus, cpus_locked, loaded, lapic_mode, timer, flags, scheduled>>

ap_entry(c) == ap_load(c) \/ ap_enable(c) \/ ap_set_timer(c) \/ ap_wait_scheduler(c) \/ ap_start(c)

-----------------------------------------------------------------------------
Init ==
  /\ pc = [c \in Cpu |-> IF c = Bsp THEN "bsp" ELSE "off"]
  /\ cpus = [c \in Cpu |-> IF c = Bsp THEN 1 ELSE NoInfo]
  /\ cpus_locked = FALSE /\ loaded = [c \in Cpu |-> NoInfo]
  /\ lapic_mode = "OneShot" /\ timer = [c \in Cpu |-> <<"OneShot", "none">>]
  /\ flags = {} /\ scheduled = {}

Next == bsp_boot \/ \E c \in Cpu \ {Bsp} : ap_entry(c)

(* A processor that is not waiting for a flag or a lock goes on.            *)
Fairness == WF_vars(bsp_boot) /\ \A c \in Cpu \ {Bsp} : WF_vars(ap_entry(c))

Spec == Init /\ [][Next]_vars
FairSpec == Spec /\ Fairness

-----------------------------------------------------------------------------
(* A processor that takes timer interrupts can: it has loaded the CpuInfo   *)
(* in CPUS, whose kernel stack schedule sets, its own timer is periodic     *)
(* with the calibrated count, and the scheduler has a thread for it.        *)
ReadyToSchedule ==
  \A c \in Cpu : pc[c] = "run" =>
    /\ loaded[c] # NoInfo /\ loaded[c] = cpus[c]
    /\ timer[c] = <<"Periodic", "calibrated">>
    /\ c \in scheduled

(* Every processor comes to schedule threads.                               *)
AllStart == <>[](\A c \in Cpu : pc[c] = "run")
=============================================================================
