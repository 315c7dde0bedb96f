----------------------------- MODULE MCProduce ------------------------------
(* Small instances of Produce for TLC. *)
EXTENDS Produce

AllBrokers == {"kafka", "rabbitmq", "nats", "pulsar"}
=============================================================================
