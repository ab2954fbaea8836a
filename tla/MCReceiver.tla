----------------------------- MODULE MCReceiver -----------------------------
EXTENDS Receiver

\* Packets over two buffers, so that the ring wraps twice; in the second transfer
\* some are longer than what is read of a datagram.
MCTransfers == {<<2, 1, 1, 2, 1>>, <<3, 1, 2, 3>>}
=============================================================================
