-------------------------------- MODULE VCpu --------------------------------
(***************************************************************************)
(* A guest under rvm: its exits (kernel/src/virt/kvm/mod.rs), its local    *)
(* APIC timer (rvm lapic.rs, through the registers of kvm/lapic.rs) and    *)
(* the events waiting to be injected (rvm vmx/vcpu.rs).                    *)
(*                                                                         *)
(* An exit is one step, from the handler to the next entry.  In between    *)
(* time passes and the guest turns its interrupt flag on and off.  now is  *)
(* RvmHal::current_time_nanos, one nanosecond being one APIC cycle; the    *)
(* kernel's own RvmHal always says 0.                                      *)
(***************************************************************************)
EXTENDS Integers, Sequences

CONSTANTS
  Vector,       \* interrupt vectors, of which those below 32 are exceptions
  Counts,       \* values written to the initial count register
  Divides,      \* values written to the divide configuration register
  MaxNow,       \* bound: the last moment
  MaxPending    \* bound: events waiting

VARIABLES
  now,
  timer,        \* ApicTimer
  pending,      \* pending_events
  window,       \* interrupt-window exiting is on
  flag,         \* RFLAGS.IF of the guest, with nothing else blocking
  injected,     \* the vector injected by the last entry, or None
  halted,       \* the kernel panicked
  fired,        \* history: deadlines passed since the timer was started
  divide_reg    \* history: what was last written to the divide register

vars == <<now, timer, pending, window, flag, injected, halted, fired, divide_reg>>

None == 0

TypeOK ==
  /\ now \in 0 .. MaxNow
  /\ timer \in [masked : BOOLEAN, periodic : BOOLEAN, vector : Vector \cup {0}, divide_shift : 0 .. 7,
                initial_count : Counts \cup {0}, last_start : 0 .. MaxNow, deadline : Nat]
  /\ pending \in Seq(Vector) /\ Len(pending) <= MaxPending
  /\ window \in BOOLEAN /\ flag \in BOOLEAN /\ halted \in BOOLEAN
  /\ injected \in Vector \cup {None}
  /\ fired \in Nat

-----------------------------------------------------------------------------
(* rvm lapic.rs                                                             *)

interval(t) == t.initial_count * 2 ^ t.divide_shift

start_timer(t) ==
  IF t.initial_count # 0 THEN [t EXCEPT !.last_start = now, !.deadline = now + interval(t)]
  ELSE [t EXCEPT !.deadline = 0]

set_lvt_timer(t, masked, periodic, v) ==
  start_timer([t EXCEPT !.masked = masked, !.periodic = periodic, !.vector = v])

set_initial_count(t, n) == start_timer([t EXCEPT !.initial_count = n])

(* Mutant: a new divisor does not start the timer again.                    *)
set_divide_running(t, dcr) ==
  [t EXCEPT !.divide_shift = ((dcr % 4) + 4 * (dcr \div 8) + 1) % 8]

(* Bits 0, 1 and 3 of the register, as a number and one more, modulo 8.     *)
set_divide(t, dcr) ==
  start_timer([t EXCEPT !.divide_shift = ((dcr % 4) + 4 * (dcr \div 8) + 1) % 8])

(* Mutant: the shift is not one more than the number in the register.       *)
divide_plain(t) == (t.divide_shift % 4) + 8 * (t.divide_shift \div 4)

divide(t) ==
  LET dcr == (t.divide_shift - 1) % 8
  IN  (dcr % 4) + 8 * (dcr \div 4)

(* Division by zero, a panic, for a periodic timer with a count of 0.       *)
CountPanics(t) == t.periodic /\ t.initial_count = 0

current_counter(t) ==
  LET cycles == (now - t.last_start) \div 2 ^ t.divide_shift
  IN  IF t.periodic THEN t.initial_count - (cycles % t.initial_count)
      ELSE IF cycles < t.initial_count THEN t.initial_count - cycles ELSE 0

Due(t) == t.deadline # 0 /\ now >= t.deadline

(* Mutant: the next period begins when the interrupt is noticed.            *)
check_interrupt_late(t) ==
  IF ~Due(t) THEN t ELSE [t EXCEPT !.deadline = IF t.periodic THEN now + interval(t) ELSE 0]

(* check_interrupt, the state it leaves.                                    *)
check_interrupt(t) ==
  IF ~Due(t) THEN t ELSE [t EXCEPT !.deadline = IF t.periodic THEN @ + interval(t) ELSE 0]

-----------------------------------------------------------------------------
(* rvm vmx/vcpu.rs                                                          *)

(* Mutant: the window is not asked for.                                     *)
check_pending_events_patient(queue, w) ==
  IF queue # <<>> /\ (Head(queue) < 32 \/ flag)
  THEN injected' = Head(queue) /\ pending' = Tail(queue) /\ window' = w /\ flag' = FALSE
  ELSE injected' = None /\ pending' = queue /\ flag' = flag /\ window' = w

(* check_pending_events: the first event, if the guest can take it.  The    *)
(* guest takes it on entry, through a gate that clears its flag.            *)
check_pending_events(queue, w) ==
  IF queue # <<>> /\ (Head(queue) < 32 \/ flag)
  THEN injected' = Head(queue) /\ pending' = Tail(queue) /\ window' = w /\ flag' = FALSE
  ELSE injected' = None /\ pending' = queue /\ flag' = flag /\ window' = (w \/ queue # <<>>)

(* vmexit_handler, once the handler of the exit has left the timer as t and *)
(* the window as w.                                                         *)
vmexit_handler(t, w) ==
  LET queue == IF Due(t) /\ ~t.masked THEN Append(pending, t.vector) ELSE pending
  IN  /\ timer' = check_interrupt(t)
      /\ check_pending_events(queue, w)
      /\ Len(queue) <= MaxPending
      /\ UNCHANGED <<now, halted>>

(* How often a timer that was not just started has come due.                *)
Fired(t) == IF Due(t) THEN fired + 1 ELSE fired

-----------------------------------------------------------------------------
(* Exits                                                                    *)

(* An exit that changes nothing here: an external interrupt, CPUID, VMCALL, *)
(* a write to a port of a device, a write to a register that is ignored, a  *)
(* read that succeeds.                                                      *)
exit ==
  /\ ~halted
  /\ vmexit_handler(timer, window)
  /\ fired' = Fired(timer)
  /\ UNCHANGED divide_reg

(* INTERRUPT_WINDOW: the processor leaves the guest as soon as it can.      *)
exit_window ==
  /\ ~halted /\ window /\ flag
  /\ vmexit_handler(timer, FALSE)
  /\ fired' = Fired(timer)
  /\ UNCHANGED divide_reg

(* The guest can do anything else only if the window does not close first.  *)
GuestRuns == ~halted /\ ~(window /\ flag)

Written(t) ==
  /\ GuestRuns
  /\ vmexit_handler(t, window)
  /\ fired' = IF Due(t) THEN 1 ELSE 0

write_lvt_timer ==
  \E masked \in BOOLEAN, periodic \in BOOLEAN, v \in Vector :
    Written(set_lvt_timer(timer, masked, periodic, v)) /\ UNCHANGED divide_reg

write_initial_count ==
  \E n \in Counts : Written(set_initial_count(timer, n)) /\ UNCHANGED divide_reg

write_divide ==
  \E dcr \in Divides : Written(set_divide(timer, dcr)) /\ divide_reg' = dcr

(* Reads of a device or of an unknown register, a mode that is not          *)
(* supported, a string instruction, a violation of the nested table, and    *)
(* the current count of a periodic timer that has none.                     *)
exit_panics ==
  /\ GuestRuns /\ halted' = TRUE
  /\ UNCHANGED <<now, timer, pending, window, flag, injected, fired, divide_reg>>

(* The guest runs: time passes, and the flag changes.                       *)
tick ==
  /\ ~halted /\ now < MaxNow /\ now' = now + 1
  /\ UNCHANGED <<timer, pending, window, flag, injected, halted, fired, divide_reg>>

guest_flag ==
  /\ GuestRuns
  /\ flag' = ~flag
  /\ UNCHANGED <<now, timer, pending, window, injected, halted, fired, divide_reg>>

Init ==
  /\ now = 0
  /\ timer = [masked |-> TRUE, periodic |-> FALSE, vector |-> 0, divide_shift |-> 0, initial_count |-> 0,
              last_start |-> 0, deadline |-> 0]
  /\ pending = <<>> /\ window = FALSE /\ flag = FALSE /\ injected = None
  /\ halted = FALSE
  /\ fired = 0 /\ divide_reg = 11

Next ==
  \/ exit \/ exit_window \/ exit_panics
  \/ write_lvt_timer \/ write_initial_count \/ write_divide
  \/ tick \/ guest_flag

Spec == Init /\ [][Next]_vars

-----------------------------------------------------------------------------
(* Properties                                                               *)

(* An event the last entry could not inject has the guest leave as soon as *)
(* it can take it: only events waiting behind one that was just injected   *)
(* may have to wait for some other exit.                                   *)
NeverOverlooked ==
  pending # <<>> /\ injected = None => window

(* The count a guest reads and the deadline the host checks tell the same  *)
(* time, whatever the guest wrote to which register and when.              *)
CounterAgrees ==
  LET left == timer.deadline - now
      unit == 2 ^ timer.divide_shift
      Up(n) == (n + unit - 1) \div unit
  IN  ~CountPanics(timer) =>
        current_counter(timer) =
          IF timer.periodic
          THEN IF left % interval(timer) = 0 THEN timer.initial_count ELSE Up(left % interval(timer))
          ELSE IF timer.deadline = 0 \/ left <= 0 THEN 0 ELSE Up(left)

(* A periodic timer loses and adds no period, however late the exits are   *)
(* in which its deadlines are noticed; a one-shot timer fires once.        *)
TicksExact ==
  IF timer.periodic
  THEN timer.deadline # 0 => timer.deadline = timer.last_start + (fired + 1) * interval(timer)
  ELSE timer.deadline # 0 => fired = 0

(* The divide register reads as it was written, without its reserved bits. *)
DivideReads ==
  divide(timer) = (divide_reg % 4) + 8 * (divide_reg \div 8)
=============================================================================
