-------------------------------- MODULE MCVmm -------------------------------
(***************************************************************************)
(* Vmm for TLC: memories of 32 MB to 2.7 GB above the first MB, with the   *)
(* sizes at which the bitmap fills TepKmalloc close together.  With 61343  *)
(* bytes of bitmap the first new page table is in the last page of the     *)
(* static heap, with one more there is no room for it.                     *)
(***************************************************************************)
EXTENDS Vmm

Kernels == {[kernel |-> 400, tep |-> 300], [kernel |-> 400, tep |-> 380],
            [kernel |-> 999, tep |-> 258]}

MemoryBytes == {1000, 2000, 4096, 16384} \cup 61342..61344
          \cup {1024 * k + d : k \in {40, 46} \cup 52..61 \cup {75, 83}, d \in {0, 700}}

AllMachines ==
  {[base |-> 256, ram |-> 8 * b, kernel |-> k.kernel, tep |-> k.tep,
    mbi |-> 16, maps |-> 7] : b \in MemoryBytes, k \in Kernels}

=============================================================================
