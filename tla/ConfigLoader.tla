---------------------------- MODULE ConfigLoader ----------------------------
(***************************************************************************)
(* Loading the OllinAI configuration (shared/titanops-config/loader.go,    *)
(* modules/ollinai/config.go): defaults, then the file, then environment   *)
(* variables, then validation.                                             *)
(*                                                                         *)
(* A field is a text, of which only "is it empty, is it a URL" matters, or *)
(* a number; durations are numbers of seconds.                             *)
(***************************************************************************)
EXTENDS Integers

Empty == ""
Texts == {Empty, "url", "other url", "word"}
IsURL(text) == text \in {"url", "other url"}

TextFields   == {"Endpoint", "AuthToken", "NATSUrl"}
NumberFields == {"WebhookPort", "RiskPollInterval", "BufferCapacity"}
Fields       == TextFields \cup NumberFields

IsConfig(c) ==
  /\ DOMAIN c = Fields
  /\ \A f \in TextFields : c[f] \in Texts
  /\ \A f \in NumberFields : c[f] \in Nat

(* a variable is a text, with the number it parses as or NoNumber ("30s") *)
NoNumber == -1

(* DefaultConfig: the fields that have one; the others start as zero values *)
Defaults ==
  [f \in Fields |-> CASE f = "WebhookPort" -> 8090
                      [] f = "RiskPollInterval" -> 30
                      [] f = "BufferCapacity" -> 1000
                      [] f = "NATSUrl" -> "url"
                      [] f \in {"Endpoint", "AuthToken"} -> Empty]

(* toEnvName puts an underscore before every capital but the first *)
EnvName(f) ==
  CASE f = "Endpoint" -> "ENDPOINT"
    [] f = "AuthToken" -> "AUTH_TOKEN"
    [] f = "NATSUrl" -> "N_A_T_S_URL"
    [] f = "WebhookPort" -> "WEBHOOK_PORT"
    [] f = "RiskPollInterval" -> "RISK_POLL_INTERVAL"
    [] f = "BufferCapacity" -> "BUFFER_CAPACITY"

(* loadFromFile: what the file says, a zero value too *)
WithFile(c, content) ==
  [f \in Fields |-> IF f \in DOMAIN content THEN content[f] ELSE c[f]]

(* loadEnvFields, setFieldFromString: a variable counts unless it is empty *)
(* or does not parse as a number where one is wanted                       *)
Counts(env, f) ==
  /\ EnvName(f) \in DOMAIN env
  /\ env[EnvName(f)].text # Empty
  /\ f \in NumberFields => env[EnvName(f)].number # NoNumber
FromVariable(env, f) ==
  IF f \in TextFields THEN env[EnvName(f)].text ELSE env[EnvName(f)].number

MutWithEnv(c, env) ==                              \* the file wins over a variable
  [f \in Fields |-> IF Counts(env, f) /\ c[f] = Defaults[f] THEN FromVariable(env, f) ELSE c[f]]
WithEnv(c, env) == [f \in Fields |-> IF Counts(env, f) THEN FromVariable(env, f) ELSE c[f]]

(* validate: the struct tags "required", "min" and "max" *)
TagsHold(c) ==
  /\ c["Endpoint"] # Empty /\ c["AuthToken"] # Empty /\ c["NATSUrl"] # Empty
  /\ c["WebhookPort"] \in 1024..65535
  /\ c["BufferCapacity"] \in 100..10000

(* validateCustom: an unset interval is not looked at *)
CustomHolds(c) ==
  /\ \A f \in {"Endpoint", "NATSUrl"} : c[f] # Empty => IsURL(c[f])
  /\ c["RiskPollInterval"] = 0 \/ c["RiskPollInterval"] \in 5..300

Valid(c) == TagsHold(c) /\ CustomHolds(c)

Loaded(content, env) == WithEnv(WithFile(Defaults, content), env)
=============================================================================
