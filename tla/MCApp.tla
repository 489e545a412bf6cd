------------------------------- MODULE MCApp -------------------------------
(* Instance of App: one request that publishes three events.                *)
EXTENDS App

CONSTANTS r1

MCSenders == Workers \cup Requests
MCEvents == r1 :> <<"placed", "paid", "fulfilled">>
=============================================================================
