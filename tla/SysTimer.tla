------------------------------ MODULE SysTimer ------------------------------
(* The RISC-V timer of the emulator (systimer.rs). *)
EXTENDS Sync

CONSTANTS
  ClkDiv,   \* MTIME_CPU_CLK_DIV, cycles per tick
  Word      \* 2^32: the registers are written one word at a time

MtimeHz == (CpuFreq + ClkDiv \div 2) \div ClkDiv

\* check_for_irq: the next event is the comparison's date, or in one second.
CheckTimer(m) ==
  LET active == m.mtime >= m.mtimecmp
      s == SetLine(m, "MTI", active)
  IN  NextEvent(s, "SysTimer",
        IF active THEN CpuFreq ELSE ClkDiv * Min({m.mtimecmp - m.mtime, MtimeHz}))

\* Mutant: the cycles of an unfinished tick are dropped.
TimerRunDrops(m) ==
  LET elapsed == Elapsed(m, "SysTimer")
      s == Resync([m EXCEPT !.mtime = @ + elapsed \div ClkDiv], "SysTimer")
  IN  CheckTimer(s)

\* run
TimerRun(m) ==
  LET elapsed == Elapsed(m, "SysTimer")
      s == Resync([m EXCEPT !.mtime = @ + elapsed \div ClkDiv], "SysTimer")
  IN  CheckTimer(Rewind(s, "SysTimer", elapsed % ClkDiv))

WriteHalf(m, half, v) ==
  LET low == m.mtimecmp % Word
  IN  [m EXCEPT !.mtimecmp = IF half = "low" THEN @ - low + v ELSE v * Word + low]

\* Mutant: the line and the next event keep following the old comparison.
TimerStoreUnchecked(m, half, v) == WriteHalf(TimerRun(m), half, v)

\* store_word to a half of MTIMECMP.  Nothing ever writes MTIME.
TimerStore(m, half, v) == CheckTimer(WriteHalf(TimerRun(m), half, v))
=============================================================================
