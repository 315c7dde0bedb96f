----------------------------- MODULE MCConsume ------------------------------
(* Small instances of Consume for TLC. *)
EXTENDS Consume

CONSTANTS m1, m2, m3

ThreeMessages == {m1, m2, m3}

NoConsumer == {}
NatsOnly   == {"nats"}
=============================================================================
