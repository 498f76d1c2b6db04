------------------------------ MODULE MCAccess ------------------------------
(***************************************************************************)
(* A small instance of Access for TLC.                                     *)
(***************************************************************************)
EXTENDS Access

Plain == [required |-> TRUE, url |-> FALSE, nets_file |-> FALSE,
          creds_file |-> FALSE, password |-> FALSE, scheme |-> ""]

\* Both precedences, every kind of list and of username, and two files that
\* the server refuses.
SomeServerFiles ==
    {[Plain EXCEPT !.url = TRUE, !.nets_file = TRUE, !.creds_file = TRUE, !.scheme = "scheduler"],
     [Plain EXCEPT !.nets_file = TRUE, !.creds_file = TRUE, !.password = TRUE, !.scheme = "device_id"],
     [Plain EXCEPT !.nets_file = TRUE, !.password = TRUE, !.scheme = "scheduler"],
     [Plain EXCEPT !.password = TRUE],
     Plain,
     [Plain EXCEPT !.scheme = "devices"],
     [Plain EXCEPT !.required = FALSE]}
=============================================================================
