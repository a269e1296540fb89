-------------------------------- MODULE MCIo --------------------------------
(* Instance of Io for TLC. *)
EXTENDS Io

CONSTANTS t1, t2

MCThreads == {t1, t2}
MCAsync == {t2}
MCVolumes == <<"fat", "swap">>
=============================================================================
