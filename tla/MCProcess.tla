----------------------------- MODULE MCProcess -----------------------------
(* Four nodes of the pipeline: fetchers; parsers; the last two stages; and *)
(* parsers beside the scheduler, without Redis.                            *)
EXTENDS Process

MCSetups ==
  {{"redis", "buffer", "fetcher", "downgrader"},
   {"redis", "parser", "llm", "agents", "upgrade"},
   {"redis", "zset", "validate", "enrich", "llm", "agents"},
   {"sched", "scorer", "parser", "llm", "refiner"}}
=============================================================================
