------------------------------- MODULE MCDriver -------------------------------
(* Machines for Driver.  Devices d1 and d2 share group 1 and, in the bigger  *)
(* machine, d3 has no IOMMU and d4 is no NVMe device.                        *)
EXTENDS DriverProofs, TLC

CONSTANTS d1, d2, d3, d4

\* Devices d1 and d2 share a group.
OneGroup == (d1 :> 1) @@ (d2 :> 1)
Intel == d1 :> 39

\* Two namespaces, the first with 4096 byte blocks.
TwoNamespaces ==
  {(1 :> [blocks |-> 10, block_size |-> 4096]) @@ (2 :> [blocks |-> 80, block_size |-> 512])}

ControllerWords == <<9>>

\* Formatting makes the blocks of d2 larger, those of the others smaller.
FirstFormats == [d \in Controllers |-> IF d = d2 THEN 4096 ELSE 512]
==============================================================================
