----------------------------- MODULE MCRetryDelay -----------------------------
(* Every policy over a few delays, in a world where a second has three     *)
(* units, a power of two saturates at the third retry of four, a duration  *)
(* after it, and a random number covers less than the longest duration.    *)
EXTENDS RetryDelay

MCPolicies ==
  [kind : {"count"}, attempts : {2}, delay : {0}, maxDelay : {0}, jitter : {FALSE}]
  \cup [kind : {"linear"}, attempts : {2}, delay : {0, 1, 4, 12}, maxDelay : {0},
        jitter : BOOLEAN]
  \cup [kind : {"exponential"}, attempts : {4}, delay : {0, 1, 2},
        maxDelay : {0, 5, 12}, jitter : BOOLEAN]

=============================================================================
