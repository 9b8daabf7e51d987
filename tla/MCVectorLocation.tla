------------------------- MODULE MCVectorLocation -------------------------
(***************************************************************************)
(* A vector of two cells and one device of each sort: two JIT devices with *)
(* memory of their own, one JIT device that shares the host's (OpenCL on a *)
(* CPU), and a native device and an interpreter that keep a buffer, as     *)
(* they do for custom element types.                                       *)
(***************************************************************************)
EXTENDS VectorLocation, TLC

CONSTANTS c1, c2, cuda, hip, opencl, native, interpreter

MCCells == {c1, c2}
MCJit == {cuda, hip, opencl}
MCNative == {native}
MCInterpreter == {interpreter}
MCZeroCopy == {opencl}

MCNone == {}
=============================================================================
