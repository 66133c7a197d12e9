--------------------------- MODULE MCCameraStreamer ---------------------------
(* CameraStreamer for TLC: constants are given in the .cfg file.           *)
EXTENDS CameraStreamer

===============================================================================
