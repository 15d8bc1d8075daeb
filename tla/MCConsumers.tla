---------------------------- MODULE MCConsumers ----------------------------
EXTENDS Consumers

CONSTANTS c1, c2, c3
MCConsumer == {c1, c2, c3}
=============================================================================
