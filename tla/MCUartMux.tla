----------------------------- MODULE MCUartMux -----------------------------
(* UartMux for TLC: the services are interchangeable.                      *)
EXTENDS UartMux, TLC

MCSymmetry == Permutations(Bufs)
=============================================================================
