----------------------------- MODULE MCClient -----------------------------
(* Client on a small instance. *)
EXTENDS Client

CONSTANTS c1, c2, k1

TwoCallers == {c1, c2}
OneKey == {k1}

\* With and without deduplication, under every kind of cache and mode. What
\* decides about retries does not interact with them: a retry policy is given
\* to the clients without a cache and to those in SWR mode.
AllConfigs ==
  {c \in ConfigType :
     /\ c.cache = "none" => c.mode = "TTLOnly"
     /\ c.policy = (c.cache = "none" \/ c.mode = "SWR")}
===========================================================================
