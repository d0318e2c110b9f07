---------------------------- MODULE MCCameraView -----------------------------
(* TLC instance of CameraView, and with it of Service.                     *)
EXTENDS CameraView
=============================================================================
