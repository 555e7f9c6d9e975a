--------------------------- MODULE PoolLifecycle ---------------------------
(***************************************************************************)
(* The statuses of a pool and the moves between them, for the modules that *)
(* look at a pool from the outside.                                        *)
(***************************************************************************)

\* A pool holds its PSP in the first, and has let go of it in the second.
LiveStatuses == {"Funding", "Active", "Default"}
EndStatuses  == {"Closed", "Unsuccessful"}

Moves ==
    {<<"Funding", "Active">>, <<"Funding", "Unsuccessful">>, <<"Active", "Default">>,
     <<"Active", "Closed">>, <<"Default", "Closed">>}
=============================================================================
