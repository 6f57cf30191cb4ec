------------------------------ MODULE MCXmodem ------------------------------
(* Files for the instances of Xmodem that TLC checks. *)
EXTENDS Xmodem

\* Short and long blocks.
MixedFile == <<<<31>>, <<32, 33>>, <<34>>, <<35, 36>>>>

ShortFile == <<<<31>>, <<32, 33>>>>

\* The number of the last block is the code of EOT.
FourBlocks == <<<<31>>, <<32>>, <<33>>, <<34>>>>
=============================================================================
