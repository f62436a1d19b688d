------------------------- MODULE MCBatchingTransport -------------------------
(* Values for checking BatchingTransport: sizes that reach the byte bound in *)
(* one, two or three writes, so that either bound may come first.            *)
EXTENDS BatchingTransport

SizedOrRefused == {1, 3, 5, ToItemThrows}
SizedOrNot == {1, 3, SizeOfThrows}
=============================================================================
