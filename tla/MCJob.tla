-------------------------------- MODULE MCJob --------------------------------
(* Values of Job's constants for TLC.                                        *)
EXTENDS Job

(* stdout overflows a limit of 1, stderr fills it exactly.                   *)
MCMaxOutput == [stdout |-> 2, stderr |-> 1]
MCQuietErr  == [stdout |-> 2, stderr |-> 0]
MCCodes == {24}
=============================================================================
