-------------------------- MODULE MCCameraBatch --------------------------
(* A roll over two canaries, a ring of three behind two permits, and a last
   camera.  With AbortPct at 50 one failure of the three is tolerated and two are
   not; the third camera of the ring queues behind the others; an exception of
   one canary leaves the other's coroutine behind. *)
EXTENDS CameraBatch

SixCameras == <<"canary", "second", "a", "b", "c", "late">>
ThreeCameras == <<"canary", "a", "b">>
=============================================================================
