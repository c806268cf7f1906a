-------------------------------- MODULE Sync --------------------------------
(***************************************************************************)
(* The emulator's time base: the synchronizer that lets every device run   *)
(* late and catch up (sync.rs), the interrupt controller (irq.rs) and the  *)
(* interrupt lines of the processor (cpu.rs).  As in the code, the whole   *)
(* machine is one value m that each operation takes and returns.           *)
(***************************************************************************)
EXTENDS Integers, FiniteSetsExt

CONSTANT CpuFreq   \* cycles in a second, the idle period of every device

Tokens == {"SysTimer", "Gpu", "Spu", "InputDev", "Dma"}
Interrupts == {"VSync", "InputDev", "DmaDone"}
Lines == {"MTI", "MEI"}

RefreshFirstEvent(m) == [m EXCEPT !.first = Min({m.next[d] : d \in Tokens})]

\* What resync returns: the cycles since the last time who was run, none if
\* it has already been run past the present date.
Elapsed(m, who) == Max({0, m.cycle - m.last[who]})
Resync(m, who) == [m EXCEPT !.last[who] = Max({@, m.cycle})]

\* who gives back the cycles it could not use.
Rewind(m, who, cycles) == [m EXCEPT !.last[who] = @ - cycles]

NextEvent(m, who, delay) ==
  RefreshFirstEvent([m EXCEPT !.next[who] = m.last[who] + delay])

\* fast_forward_to_next_event
FastForward(m) == IF m.first > 0 THEN [m EXCEPT !.cycle = m.first] ELSE m

\* Mutant: the sync dates are left behind.
RebaseEventsOnly(m) ==
  [m EXCEPT !.next = [d \in Tokens |-> m.next[d] - m.cycle],
            !.first = @ - m.cycle, !.base = @ + m.cycle, !.cycle = 0]

\* rebase_counters; base, the date of cycle 0, is a history variable.
Rebase(m) ==
  [m EXCEPT !.last = [d \in Tokens |-> m.last[d] - m.cycle],
            !.next = [d \in Tokens |-> m.next[d] - m.cycle],
            !.first = @ - m.cycle, !.base = @ + m.cycle, !.cycle = 0]

IsEventPending(m) == m.cycle >= m.first

-----------------------------------------------------------------------------
(* Interrupts: mip and mie are the sets of lines that are up and enabled, *)
(* irqOn and irqOnPrev the bits MIE and MPIE of mstatus.  unchecked is a   *)
(* history: CSRRW has written mie or mstatus with interrupts on, and       *)
(* check_for_irq has not been called since.                                *)

\* mstatus_mpie_set writes the timer's bit of mie, which has MPIE's position.
SetMpie(m, on) == [m EXCEPT !.mie = IF on THEN @ \cup {"MTI"} ELSE @ \ {"MTI"}]

TriggerTrap(m) == [SetMpie(m, m.irqOn) EXCEPT !.irqOn = FALSE]

\* check_for_irq: WFI ends even if interrupts are off.
CheckForIrq(m) ==
  LET seen == [m EXCEPT !.unchecked = FALSE]
      awake == [seen EXCEPT !.wfi = FALSE]
  IN  IF m.mie \cap m.mip = {} THEN seen
      ELSE IF m.irqOn THEN TriggerTrap(awake) ELSE awake

\* set_mtip and set_meip
SetLine(m, line, up) ==
  IF up <=> line \in m.mip THEN m
  ELSE CheckForIrq([m EXCEPT !.mip = IF up THEN @ \cup {line} ELSE @ \ {line}])

RefreshCpuIrq(m) == SetLine(m, "MEI", m.pending \cap m.enabled # {})

\* irq::trigger
RaiseIrq(m, irq) == RefreshCpuIrq([m EXCEPT !.pending = @ \cup {irq}])

\* irq::store_word
IrqAcknowledge(m, S) == RefreshCpuIrq([m EXCEPT !.pending = @ \ S])
IrqEnable(m, S) == RefreshCpuIrq([m EXCEPT !.enabled = S])
=============================================================================
