--------------------------- MODULE MCComputeQueue ---------------------------
(* Instances of ComputeQueue for TLC: the packets the host may write. *)
EXTENDS ComputeQueue, TLC

T(type, barrier, signal) ==
  [type |-> type, barrier |-> barrier, signal |-> signal, fault |-> "none"]

Faulty(type, signal, fault) ==
  [type |-> type, barrier |-> FALSE, signal |-> signal, fault |-> fault]

\* Kernels: plain, with the barrier bit, with a completion signal.
KernelTemplates ==
  {T("kernel", FALSE, FALSE), T("kernel", TRUE, FALSE), T("kernel", FALSE, TRUE)}

\* Kernels mixed with barrier packets, which may depend on earlier packets and on
\* signals completed elsewhere.
BarrierTemplates ==
  {T("kernel", FALSE, FALSE), T("kernel", FALSE, TRUE), T("and", FALSE, TRUE)}

\* Kernels, a vendor packet, and packets the translation rejects.
FaultTemplates ==
  {T("kernel", FALSE, FALSE), T("kernel", FALSE, TRUE), T("vendor", FALSE, TRUE),
   Faulty("kernel", TRUE, "argument"), Faulty("kernel", TRUE, "oversize"),
   Faulty("vendor", FALSE, "oversize"), T("unknown", FALSE, FALSE)}

\* The fair run: kernels to merge, and kernels that complete.
LiveTemplates == {T("kernel", FALSE, FALSE), T("kernel", FALSE, TRUE)}

\* The smaller one for signals completed elsewhere.
DepTemplates == {T("kernel", FALSE, TRUE), T("and", FALSE, TRUE), T("or", FALSE, TRUE)}

ProducerSymmetry == Permutations(Producers)
=============================================================================
