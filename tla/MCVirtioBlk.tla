---------------------------- MODULE MCVirtioBlk ----------------------------
(* VirtioBlk on a disk of a few sectors, for the device of QEMU.            *)
EXTENDS VirtioBlk
=============================================================================
