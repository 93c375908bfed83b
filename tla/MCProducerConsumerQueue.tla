----------------------- MODULE MCProducerConsumerQueue -----------------------
(* Small instances of ProducerConsumerQueue for TLC. *)
EXTENDS ProducerConsumerQueue
==============================================================================
