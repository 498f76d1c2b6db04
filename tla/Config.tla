------------------------------- MODULE Config -------------------------------
(***************************************************************************)
(* The configuration layers a setting passes on its way: the JSON and YAML *)
(* readers and the validators of the admin, the server and the device      *)
(* client, the answer of /register, the gomobile configuration, and the    *)
(* last corrections in client/core.  A reader yields a set: the            *)
(* configuration, or nothing if the file is refused.  Durations count      *)
(* nanoseconds, of which Second make a second.                             *)
(***************************************************************************)
EXTENDS Integers, FiniteSetsExt

CONSTANT Second   \* time.Second; larger than any bare number in a file

ASSUME ConfigAssumption == Second \in Nat \ {0}

Seconds(n) == n * Second

IfNotPositive(v, default) == IF v <= 0 THEN default ELSE v

IfZero(v, default) == IF v = 0 THEN default ELSE v

-----------------------------------------------------------------------------
(* Files *)

\* A duration in a file: absent, text such as "30s", a bare number, or junk.
Absent == [form |-> "absent", value |-> 0]

Text(n) == [form |-> "text", value |-> n]

Number(n) == [form |-> "number", value |-> n]

Junk == [form |-> "junk", value |-> 0]

\* A bare number counts nanoseconds in JSON; yaml.v3 refuses one for a Duration.
parseJSONDurationField(raw) ==
    CASE raw.form = "absent" -> {0}
      [] raw.form = "text" -> {Seconds(raw.value)}
      [] raw.form = "number" -> {raw.value}
      [] raw.form = "junk" -> {}

parseYAMLDurationField(raw) ==
    IF raw.form = "number" THEN {} ELSE parseJSONDurationField(raw)

-----------------------------------------------------------------------------
(* The admin *)

\* The first of aes_key_b64, aes_key_hex, aes_key_text that is set; one that
\* does not decode is an error and the next is not tried.
AESKeyBytes(a) ==
    LET set == {i \in 1..3 : a.aes_key[i] # "unset"}
    IN  IF set = {} THEN {} ELSE {a.aes_key[Min(set)]} \ {"malformed"}

\* LoadAdmin; the intervals are whole seconds.  "required" says that every
\* required field is set and that the HTTP timeouts parse.
LoadAdmin(a) ==
    {[key |-> k,
      heartbeat |-> IfNotPositive(a.heartbeat, 30),
      initial |-> IfNotPositive(a.initial, 1),
      max |-> IfNotPositive(a.max, 60),
      skew |-> IfNotPositive(a.skew, 300)] : k \in IF a.required THEN AESKeyBytes(a) ELSE {}}

-----------------------------------------------------------------------------
(* The device client *)

\* Mutant of ClientDefaults: the maximum is taken as it is.
ClientDefaults_NoRaise(c) ==
    [heartbeat |-> IfZero(c.heartbeat, Seconds(30)),
     initial |-> IfZero(c.initial, Seconds(1)),
     max |-> IfZero(c.max, Seconds(60))]

\* Defaults for what is zero, and a maximum that is not below the initial delay.
ClientDefaults(c) ==
    LET initial == IfZero(c.initial, Seconds(1))
    IN  [heartbeat |-> IfZero(c.heartbeat, Seconds(30)),
         initial |-> initial,
         max |-> Max({initial, IfZero(c.max, Seconds(60))})]

\* Without a device_id or a server_addr the configuration is refused.
validateClient(required, c) == IF required THEN {ClientDefaults(c)} ELSE {}

\* LoadClient on a .json or a .yaml file f.
LoadClient(f) ==
    LET duration(raw) == IF f.json THEN parseJSONDurationField(raw) ELSE parseYAMLDurationField(raw)
    IN  UNION {validateClient(f.required, [heartbeat |-> h, initial |-> i, max |-> m]) :
                  h \in duration(f.heartbeat), i \in duration(f.initial), m \in duration(f.max)}

\* mobile.parseClientCfg: the same checks for the configuration of an app.
parseClientCfg(required, c) == validateClient(required, c)

\* newReconnectBackoff
newReconnectBackoff(c) ==
    LET initial == IfNotPositive(c.initial, Seconds(1))
    IN  [initial |-> initial,
         max |-> IF c.max <= 0 \/ c.max < initial THEN Seconds(60) ELSE c.max]

\* What core.Run works with: the heartbeat ticker and the backoff.
Effective(c) ==
    [heartbeat |-> IfNotPositive(c.heartbeat, Seconds(30)),
     initial |-> newReconnectBackoff(c).initial,
     max |-> newReconnectBackoff(c).max]

-----------------------------------------------------------------------------
(* The server *)

\* LoadServer, up to what the access checks depend on; "required" as above.
LoadServer(f) ==
    {[f EXCEPT !.scheme = s] : s \in IF f.required THEN {f.scheme} \cap {"", "device_id", "scheduler"} ELSE {}}
=============================================================================
