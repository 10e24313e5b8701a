----------------------------- MODULE MCVirtioBlk ----------------------------
(* Small instances of the virtio block device: two ring slots, indices
   modulo 4, one sector of two values. *)
EXTENDS VirtioBlk

TwoSectors == {0, 1}
Bits == {0, 1}
=============================================================================
