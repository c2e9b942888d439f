------------------------- MODULE MCKernelLoopLife -------------------------
EXTENDS KernelLoopLife, MCKernelLoop
===========================================================================
