------------------------------ MODULE MCMobile ------------------------------
(***************************************************************************)
(* A small instance of Mobile for TLC.                                     *)
(***************************************************************************)
EXTENDS Mobile

AdminFile(keys, h, i, m, skew) ==
    [required |-> TRUE, aes_key |-> keys, heartbeat |-> h, initial |-> i, max |-> m, skew |-> skew]

TextKey == <<"unset", "unset", "key">>

\* An initial delay above the maximum, and just enough clock skew; the default
\* skew, which is too little; a leftover key that wins; a key that does not
\* decode; a required field missing.
SomeAdminFiles ==
    {AdminFile(TextKey, 5, 90, 70, 301),
     AdminFile(TextKey, 0, 0, 0, 0),
     AdminFile(<<"other", "unset", "key">>, -1, 2, -1, 301),
     AdminFile(<<"unset", "malformed", "key">>, 0, 0, 0, 0),
     [AdminFile(TextKey, 0, 0, 0, 0) EXCEPT !.required = FALSE]}

ClientFile(json, h, i, m) ==
    [required |-> TRUE, json |-> json, heartbeat |-> h, initial |-> i, max |-> m]

\* Absent, textual, negative, bare and unreadable durations, in both formats, and
\* a file without a server_addr.
SomeClientFiles ==
    {ClientFile(FALSE, Absent, Text(2), Text(1)),
     ClientFile(TRUE, Number(-3), Number(-5), Number(3)),
     ClientFile(FALSE, Number(3), Absent, Absent),
     ClientFile(TRUE, Absent, Absent, Junk),
     [ClientFile(FALSE, Absent, Absent, Absent) EXCEPT !.required = FALSE]}

\* A phone whose clock is behind.
SomeDeltas == {-301}

SomeReports ==
    [p \in {"phone", "tablet"} |->
        IF p = "phone" THEN {{}, {"imei", "serial_number"}, {"android_id", "imei"}} ELSE {{"imei"}}]
=============================================================================
