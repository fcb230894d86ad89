-------------------------- MODULE MCRequestPipeline --------------------------
(***************************************************************************)
(* Instances of RequestPipeline for TLC.                                   *)
(***************************************************************************)
EXTENDS RequestPipeline

(* No policy, count(0), and policies of one and two retries.               *)
Policies ==
  {[retries |-> FALSE, maxRetries |-> 0, custom |-> FALSE]} \cup
  [retries : {TRUE}, maxRetries : {0, 1, 2}, custom : BOOLEAN]

(* Without a cap; with a cap above the peek limit; with a cap below it;    *)
(* with nothing to peek.                                                   *)
Caps ==
  { [limited |-> FALSE, maxBytes |-> 0, peekBytes |-> 1],
    [limited |-> TRUE,  maxBytes |-> 2, peekBytes |-> 1],
    [limited |-> TRUE,  maxBytes |-> 1, peekBytes |-> 2],
    [limited |-> FALSE, maxBytes |-> 0, peekBytes |-> 0] }

MCRequests ==
  { [ mode |-> m, body |-> b, throw |-> t, timed |-> d,
      retries |-> p.retries, maxRetries |-> p.maxRetries, custom |-> p.custom,
      limited |-> c.limited, maxBytes |-> c.maxBytes, peekBytes |-> c.peekBytes ] :
      m \in {"buffered", "streaming"}, b \in {"bytes", "stream", "multipart"},
      t \in BOOLEAN, d \in BOOLEAN, p \in Policies, c \in Caps }

(* Below every limit, at one limit and above it, above all of them.        *)
MCBodySizes == 0..3

(* One plain request of each mode, for the disagreements.                  *)
MCPlainRequests ==
  { r \in MCRequests :
      /\ r.body = "bytes" /\ ~r.throw /\ ~r.timed /\ ~r.limited
      /\ r.retries /\ r.maxRetries = 1 /\ ~r.custom /\ r.peekBytes = 1 }

=============================================================================
