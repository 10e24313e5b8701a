------------------------------- MODULE Clint -------------------------------
(***************************************************************************)
(* ClintDevice: the clock, the compare register and the software interrupt *)
(* register.  A doubleword is two words, a word is a number below Base;    *)
(* lengths and offsets are counted in words.                               *)
(***************************************************************************)
EXTENDS Integers

CONSTANT Base   \* values of a word, 2^32 in the code

ASSUME BaseAssumption == Base \in Nat /\ Base >= 2 /\ Base % 2 = 0

Words == 0 .. (Base - 1)
Times == 0 .. (Base * Base - 1)

VARIABLES mtime, mtimecmp, msip

(* A shift by the width of the register shifts by nothing, on the hosts
   whose shift counts are taken modulo that width. *)
Place(off) == IF off % 2 = 0 THEN 1 ELSE Base

WordOf(reg, off) == (reg \div Place(off)) % Base

(* mutant: what is above the word is not masked off *)
LoadUnmasked(reg, off, len) == IF len = 1 THEN reg \div Place(off) ELSE 0

(* ClintDevice::load.  The mask of a doubleword, (1 << 64) - 1, is 0. *)
LoadReg(reg, off, len) == IF len = 1 THEN WordOf(reg, off) ELSE 0

(* mutant: the word is stored without its offset *)
StoreUnshifted(reg, off, len, val) ==
  IF len = 2 THEN val ELSE reg + ((val % Base) - WordOf(reg, 0))

(* ClintDevice::store.  The registers are as wide as mtime; msip keeps the
   lower word of what it is given. *)
StoreReg(reg, off, len, val) ==
  IF len = 2 THEN val
  ELSE reg + ((val % Base) - WordOf(reg, off)) * Place(off)

StoreCmp(off, len, val) ==
  mtimecmp' = StoreReg(mtimecmp, off, len, val) /\ UNCHANGED <<mtime, msip>>

StoreMsip(val) ==
  msip' = StoreReg(msip, 0, 1, val) % Base /\ UNCHANGED <<mtime, mtimecmp>>

MSI == 3
MTI == 7

(* mutant: the timer line goes up and is not lowered *)
TickedUp(mip, t) ==
  mip \cup (IF msip % 2 = 1 THEN {MSI} ELSE {}) \cup (IF t >= mtimecmp THEN {MTI} ELSE {})

(* mutant: the clock is compared for equality *)
TickedExact(mip, t) ==
  LET soft == IF msip % 2 = 1 THEN mip \cup {MSI} ELSE mip
  IN IF t = mtimecmp THEN soft \cup {MTI} ELSE soft \ {MTI}

(* ClintDevice::tick: mip when the host's clock says t.  The software
   interrupt line goes up with msip and does not go down with it. *)
Ticked(mip, t) ==
  LET soft == IF msip % 2 = 1 THEN mip \cup {MSI} ELSE mip
  IN IF t >= mtimecmp THEN soft \cup {MTI} ELSE soft \ {MTI}

Clock(t) == mtime' = t /\ UNCHANGED <<mtimecmp, msip>>
=============================================================================
