----------------------------- MODULE MCReceiver -----------------------------
(* Small instances of the receiver: two connections, an invalid message.   *)
EXTENDS Receiver, TLC

CONSTANTS c1, c2, e1, e2, e3

MCStream == (c1 :> <<e1, Bad, e2>>) @@ (c2 :> <<e3>>)
MCShortStream == (c1 :> <<e1>>) @@ (c2 :> <<e3>>)
=============================================================================
