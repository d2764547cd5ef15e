--------------------------- MODULE MCConfigReload ---------------------------
(* Complete files, good and bad, half a file, and environments that give   *)
(* the secrets, override a number, or try to with a text.                  *)
EXTENDS ConfigReload

Complete(endpoint, token, port, interval) ==
  [f \in {"Endpoint", "AuthToken", "WebhookPort", "RiskPollInterval"} |->
     CASE f = "Endpoint" -> endpoint [] f = "AuthToken" -> token
       [] f = "WebhookPort" -> port [] f = "RiskPollInterval" -> interval]
MCContents ==
  {Complete("url", "word", 8090, 30), Complete("other url", "word", 9500, 0),
   Complete("word", "word", 8090, 2),
   [f \in {"Endpoint"} |-> "other url"]}

Variable(text, number) == [text |-> text, number |-> number]
MCEnvironments ==
  {[name \in {} |-> Variable(Empty, NoNumber)],
   [name \in {"ENDPOINT", "AUTH_TOKEN"} |->
      IF name = "ENDPOINT" THEN Variable("url", NoNumber) ELSE Variable("word", NoNumber)],
   [name \in {"AUTH_TOKEN", "NATS_URL", "RISK_POLL_INTERVAL"} |->
      IF name = "NATS_URL" THEN Variable("other url", NoNumber)
      ELSE Variable("word", NoNumber)]}
=============================================================================
