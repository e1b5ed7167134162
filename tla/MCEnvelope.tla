----------------------------- MODULE MCEnvelope -----------------------------
(* A small instance of detection, event, enrichment and envelope for TLC. *)
EXTENDS Envelope

R(category, weight, patterns, user_agent) ==
  [category |-> category, weight |-> weight, patterns |-> patterns, user_agent |-> user_agent]

Patterns == {"union", "pipe", "wp-login", "sqlmap"}

\* One file as default.yml, two rules of it for one category, with different
\* weights (in default.yml they are the same); one with a rule
\* of no weight, one with a rule that matches nothing.
DefaultRules == <<R("sql-injection", 40, {"union"}, {}), R("command-injection", 50, {"pipe"}, {}),
                  R("recon-scanner", 20, {"wp-login"}, {}), R("recon-scanner", 15, {}, {"sqlmap"})>>
Files == {DefaultRules, Append(DefaultRules, R("xss", 0, {"pipe"}, {})),
          Append(DefaultRules, R("xss", 25, {"broken"}, {}))}

Plain == <<{}>>
NoUA == [raw |-> "none", lower |-> "none", scanner |-> "none"]

\* An injection encoded twice, by a scanner.
SqlInjection ==
  [ip |-> 1, protocol |-> "http", action |-> "request", path |-> Plain, query |-> <<{}, {}, {"union"}>>,
   body |-> Plain, user_agent |-> {"sqlmap"}, ua |-> [raw |-> "sqlmap/1", lower |-> "sqlmap/1", scanner |-> "sqlmap"],
   canary |-> "none", fingerprint |-> "http/1.1"]

\* Everything at once, by the same scanner spelt differently.
Everything ==
  [ip |-> 2, protocol |-> "http", action |-> "request", path |-> <<{"wp-login"}>>, query |-> <<{"union"}>>,
   body |-> <<{}, {"pipe"}>>, user_agent |-> {"sqlmap"},
   ua |-> [raw |-> "SQLMap/1", lower |-> "sqlmap/1", scanner |-> "sqlmap"], canary |-> "c1", fingerprint |-> "ja3"]

\* An injection encoded three times, which nobody reads, by another scanner.
Hidden ==
  [ip |-> 1, protocol |-> "http", action |-> "login", path |-> Plain, query |-> <<{}, {}, {}, {"union"}>>,
   body |-> Plain, user_agent |-> {}, ua |-> [raw |-> "nikto", lower |-> "nikto", scanner |-> "nikto"],
   canary |-> "c2", fingerprint |-> "http/1.1"]

\* A command of the Redis decoy, from a source without a record.
Command ==
  [ip |-> 3, protocol |-> "redis", action |-> "cmd", path |-> Plain, query |-> Plain, body |-> <<{"pipe"}>>,
   user_agent |-> {}, ua |-> NoUA, canary |-> "c3", fingerprint |-> "none"]

Clients == {SqlInjection, Everything, Hidden, Command}
Records == <<"NL", "FR", "none">>
=============================================================================
