----------------------- MODULE MCCallbackReorderQueue -----------------------
(* Instance of CallbackReorderQueue for TLC. *)
EXTENDS CallbackReorderQueue
=============================================================================
