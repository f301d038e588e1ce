---------------------------- MODULE MCCameraWorker ----------------------------
(* A small instance of CameraWorker for TLC.                               *)
EXTENDS CameraWorker
=============================================================================
