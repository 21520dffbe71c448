---------------------------- MODULE MCRingBuffer ----------------------------
(* RingBuffer with one producer, one consumer and a thread of neither kind. *)
EXTENDS RingBuffer

CONSTANTS producer, consumer, monitor

TheProducer == {producer}
TheConsumer == {consumer}
Both        == {producer, consumer}
All         == {producer, consumer, monitor}
Nobody      == {}
=============================================================================
