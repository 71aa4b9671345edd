-------------------------------- MODULE MCDemoRunner --------------------------------
EXTENDS DemoRunner, TLC

CONSTANTS api, cli, d1, d2, d3, batch, again, followup, apart

\* A batch, a second request for one of its cases and a follow-up share a process; another
\* process runs the same case.
MCJob ==
  batch :> [home |-> cli, kind |-> "batch", cases |-> <<d1, d2>>, workers |-> 2] @@
  again :> [home |-> cli, kind |-> "case", cases |-> <<d1>>, workers |-> 1] @@
  followup :> [home |-> cli, kind |-> "followup", cases |-> <<d3>>, workers |-> 1] @@
  apart :> [home |-> api, kind |-> "case", cases |-> <<d1>>, workers |-> 1]
====================================================================================
