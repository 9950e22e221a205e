-------------------------------- MODULE MCBsp --------------------------------
(* Instances of Bsp for TLC. *)
EXTENDS Bsp

\* No worker both gets messages and sends to another worker: 1 only sends.
MCDirected == {<<0, 2>>, <<1, 2>>, <<2, 0>>}

\* The control node starts a chain of messages through the workers.
MCChain == {<<0, 1>>, <<1, 2>>}
=============================================================================
