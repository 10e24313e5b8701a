-------------------------------- MODULE Uart --------------------------------
(***************************************************************************)
(* The 16550 of GpuDevice, in its two builds: "native", where a thread     *)
(* reads standard input into an atomic slot, and "sdl", where tick polls   *)
(* the window's events.  Line control, scratch and FIFO registers only     *)
(* store what is written to them and are left out; so is isr, which is     *)
(* 0xc0 from the first dispatch on.                                        *)
(***************************************************************************)
EXTENDS Integers

CONSTANTS
  Build,    \* "native" or "sdl"
  Chars     \* what can be typed

ASSUME UartAssumption == Build \in {"native", "sdl"} /\ Chars \subseteq Nat \ {0}

VARIABLES
  slot,     \* read_char, shared with the reader thread; NoChar when empty
  val,      \* the receive register
  dr,       \* data ready, bit 0 of lsr; the transmitter is always empty
  ier,      \* enabled interrupts
  line      \* is_uart_interrupting, an edge: the poll consumes it

uartVars == <<slot, val, dr, ier, line>>

NoChar == 0

UartInit == slot = NoChar /\ val = NoChar /\ dr = FALSE /\ ier = {} /\ line = FALSE

(* dispatch_interrupt, with data ready d and interrupts e enabled *)
Dispatch(d, e) == line' = (line \/ (d /\ "rdi" \in e) \/ "thri" \in e)

-----------------------------------------------------------------------------
(* The native build: stdin_reader, its own thread, and tick *)

Type(c) == Build = "native" /\ slot' = c /\ UNCHANGED <<val, dr, ier, line>>

(* mutant: an empty slot is delivered too *)
TakeCharAlways ==
  /\ slot' = NoChar /\ val' = slot /\ dr' = TRUE
  /\ Dispatch(TRUE, ier)
  /\ UNCHANGED ier

TakeChar ==
  /\ slot' = NoChar
  /\ IF slot = NoChar
     THEN UNCHANGED <<val, dr, line>>
     ELSE val' = slot /\ dr' = TRUE /\ Dispatch(TRUE, ier)
  /\ UNCHANGED ier

-----------------------------------------------------------------------------
(* The SDL build: at most one event every ten milliseconds *)

KeyDown(c) == val' = c /\ dr' = TRUE /\ Dispatch(TRUE, ier) /\ UNCHANGED <<slot, ier>>

KeyUp == val' = NoChar /\ UNCHANGED <<slot, dr, ier, line>>

UartTick ==
  \/ Build = "native" /\ TakeChar
  \/ Build = "sdl" /\ (KeyUp \/ UNCHANGED uartVars \/ \E c \in Chars : KeyDown(c))

-----------------------------------------------------------------------------
(* is_interrupting reads and clears the edge *)
ConsumeLine == line' = FALSE /\ UNCHANGED <<slot, val, dr, ier>>

(* The guest reads the receive register *)
ReadThr ==
  /\ dr' = FALSE
  /\ IF dr THEN Dispatch(FALSE, ier) ELSE UNCHANGED line
  /\ UNCHANGED <<slot, val, ier>>

WriteIer(e) == ier' = e /\ Dispatch(dr, e) /\ UNCHANGED <<slot, val, dr>>

(* The guest writes the transmit register: displayed at once, and nothing in
   the device changes. *)
WriteThr == UNCHANGED uartVars
=============================================================================
