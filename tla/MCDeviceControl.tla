--------------------------- MODULE MCDeviceControl ---------------------------
(* Instances of DeviceControl.                                              *)
EXTENDS DeviceControl, TLC

CONSTANTS c1, c2, c3

MCUses == (c1 :> {<<"web", "start">>, <<"console", "start">>, <<"library", "start">>,
                  <<"web", "stop">>}
           @@ c2 :> {<<"server", "start">>, <<"library", "stop">>, <<"console", "query">>})

\* More requests than threads.
MCPoolUses == (c1 :> {<<"web", "start">>} @@ c2 :> {<<"library", "stop">>}
               @@ c3 :> {<<"console", "query">>})
=============================================================================
