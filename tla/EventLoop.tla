------------------------------ MODULE EventLoop ------------------------------
(***************************************************************************)
(* What the models of waiting share: the asyncio event loop runs what is   *)
(* ready, though not always at once.                                       *)
(***************************************************************************)
CONSTANTS
  None,  \* Python's None
  Lag    \* bound: how late, at most, a coroutine that is ready goes on
=============================================================================
