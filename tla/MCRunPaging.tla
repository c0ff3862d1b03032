---------------------------- MODULE MCRunPaging ----------------------------
(* Model-checking instance of RunPaging: up to five runs with a fetch      *)
(* limit of four, so that truncation happens, and query integers from -1  *)
(* to 6, around every boundary of a list of that size.                    *)
EXTENDS RunPaging

MCMaxRuns == 5
MCFetchLimit == 4
MCQueryInts == -1 .. 6

=============================================================================
