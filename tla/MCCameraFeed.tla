---------------------------- MODULE MCCameraFeed -----------------------------
(* TLC instance of CameraFeed.                                             *)
EXTENDS CameraFeed
=============================================================================
