------------------------------ MODULE InputPort ------------------------------
(* The serial input port of the emulator (input_dev.rs).  The reply of the    *)
(* device to the byte b is written b itself, and "none" when there was no byte. *)
EXTENDS Sync, SequencesExt

CONSTANTS
  InputFifo,   \* size of the two FIFOs
  ByteTime     \* clk_div: cycles to transmit a byte, once configured

Push(fifo, b) == IF Len(fifo) = InputFifo THEN fifo ELSE Append(fifo, b)

\* A byte is exchanged; the interrupt is raised when it was the last one.
TransmitByte(m) ==
  LET in == m.input
      sent == [in EXCEPT !.count = @ - in.div,
                         !.tx = IF @ = <<>> THEN @ ELSE Tail(@),
                         !.rx = Push(@, IF in.tx = <<>> THEN "none" ELSE Head(in.tx))]
      s == [m EXCEPT !.input = sent]
  IN  IF sent.tx = <<>> /\ sent.irq THEN RaiseIrq(s, "InputDev") ELSE s

\* As many bytes as the cycles allow.
Transmit(m) ==
  LET bytes == m.input.count \div m.input.div
      after[n \in 0 .. bytes] == IF n = 0 THEN m ELSE TransmitByte(after[n - 1])
  IN  after[bytes]

\* The next event is the end of the last byte.
PlanEnd(m) ==
  NextEvent(m, "InputDev", IF m.input.tx = <<>> THEN CpuFreq
                           ELSE m.input.div * Len(m.input.tx) - m.input.count)

\* run
InputRun(m) ==
  LET s == Resync([m EXCEPT !.input.count = @ + Elapsed(m, "InputDev")], "InputDev")
  IN  IF m.input.tx = <<>> THEN NextEvent([s EXCEPT !.input.count = 0], "InputDev", CpuFreq)
      ELSE PlanEnd(Transmit(s))

\* store_word and load_word; the CONF the driver writes clears the FIFOs and turns the
\* interrupt on.
InputConf(m) ==
  InputRun([InputRun(m) EXCEPT !.input = [tx |-> <<>>, rx |-> <<>>, irq |-> TRUE,
                                          div |-> ByteTime, count |-> 0]])
InputTx(m, b) == InputRun([InputRun(m) EXCEPT !.input.tx = Push(@, b)])
InputRx(m) == [InputRun(m) EXCEPT !.input.rx = IF @ = <<>> THEN @ ELSE Tail(@)]
=============================================================================
