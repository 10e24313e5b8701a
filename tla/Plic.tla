-------------------------------- MODULE Plic --------------------------------
(***************************************************************************)
(* The interrupt controller.  Only context 1, the supervisor's, can ever   *)
(* be claimed from.  Priorities and thresholds are registers the device    *)
(* stores and never consults, and are left out; so is the guest's write to *)
(* the pending registers, which a driver does not make.                    *)
(***************************************************************************)
EXTENDS Integers

VARIABLES
  pending,   \* bits of PlicDevice::pending, 32 to a word, as a guest numbers them
  enable,    \* bits of PlicDevice::enable for context 1
  claim      \* PlicDevice::claim[1], 0 for none

plicVars == <<pending, enable, claim>>

NoIrq == 0

PlicInit == pending = {} /\ enable = {} /\ claim = NoIrq

(* The word is found by dividing by the bytes of a word, not by its bits, and
   the bit in it is that of irq: source 1 has its own bit, source 10 has bit
   10 of word 2, which is the bit of source 74 to a guest that reads it.
   The enable bits are found by bits (is_enabled). *)
PendingBit(irq) == 32 * (irq \div 4) + irq

(* mutant: the completed interrupt stays claimable *)
ClearPendingKeepsClaim(irq) ==
  pending' = pending \ {PendingBit(irq)} /\ UNCHANGED <<enable, claim>>

(* mutant: completion finds the word as is_enabled does *)
ClearPendingByBits(irq) ==
  /\ pending' = pending \ {irq}
  /\ claim' = NoIrq
  /\ UNCHANGED enable

(* mutant: the bit is the remainder of the division that found the word *)
UpdatePendingRemainder(irq) ==
  /\ pending' = pending \cup {32 * (irq \div 4) + (irq % 4)}
  /\ claim' = IF irq \in enable THEN irq ELSE claim
  /\ UNCHANGED enable

(* A device interrupts: the pending bit, and the one claim register if the
   source is enabled. *)
UpdatePending(irq) ==
  /\ pending' = pending \cup {PendingBit(irq)}
  /\ claim' = IF irq \in enable THEN irq ELSE claim
  /\ UNCHANGED enable

(* The guest writes the claim register to complete irq *)
ClearPending(irq) ==
  /\ pending' = pending \ {PendingBit(irq)}
  /\ claim' = NoIrq
  /\ UNCHANGED enable

(* The guest writes the enable word *)
SetEnable(irqs) == enable' = irqs /\ UNCHANGED <<pending, claim>>
=============================================================================
