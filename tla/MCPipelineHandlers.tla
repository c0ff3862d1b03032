---------------------------- MODULE MCPipelineHandlers ----------------------------
(* Model-checking instance of PipelineHandlers.                            *)
(* Paging: up to five runs with a fetch limit of four, so that truncation  *)
(* happens, and query integers from -1 to 6, around every boundary of a    *)
(* list of that size.                                                      *)
(* SVN: every field empty or "a", so that every guard on "" shows, and a   *)
(* field read from the wrong element shows as soon as one of the two is    *)
(* set and the other is not.                                               *)
(* Cron: the zone names of a UTC server (replaced by "UTC") and of a       *)
(* server in another zone.                                                 *)
(* List: three names, so that the order is transitive or not, and two      *)
(* times, so that start and creation times tie within and across runs.     *)
(* Listing: up to three pipelines against a count limit of two, so that    *)
(* the count is cut short, and starts on, inside and past a short list.   *)
(* Types: owners of up to three characters, which holds an owner in a      *)
(* subgroup ("a/b"), and two characters, so that two sources differ.       *)
EXTENDS PipelineHandlers, Integers

MCMaxRuns == 5
MCFetchLimit == 4
MCQueryInts == -1 .. 6
MCStrs == {"a"}
MCZones == {"Coordinated Universal Time", "China Standard Time"}
MCZoneTokens == [z \in {"UTC", "China Standard Time"} |-> IF z = "UTC" THEN 1 ELSE 3]
MCNames == 1 .. 3
MCTimes == 1 .. 2
MCChars == {"a", "b"}

=============================================================================
