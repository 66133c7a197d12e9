---------------------------- MODULE MCGpuFrameRing ----------------------------
(* GpuFrameRing for TLC: its constants are plain model values, no definition needed. *)
EXTENDS GpuFrameRing
===============================================================================
