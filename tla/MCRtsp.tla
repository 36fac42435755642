------------------------------- MODULE MCRtsp -------------------------------
(* Two streams, two connections after each other, a few PLAYs, one start   *)
(* again after the service has stopped.                                    *)
EXTENDS Rtsp
=============================================================================
