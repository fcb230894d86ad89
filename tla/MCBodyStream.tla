----------------------------- MODULE MCBodyStream -----------------------------
(* Bodies of up to three bytes in chunks of every length, with every limit *)
(* below, at and above them, read in every way.                            *)
EXTENDS BodyStream

Sizes == 0..3
Peeks == {[peeks |-> FALSE, peek |-> 2]} \cup [peeks : {TRUE}, peek : 0..2]
Limits == {[limited |-> FALSE, max |-> 0]} \cup [limited : {TRUE}, max : 0..3]
Caps == {[capped |-> FALSE, cap |-> 0]} \cup [capped : {TRUE}, cap : {1, 2}]

Body(size, use, p, l, c, token) ==
  [size |-> size, use |-> use, peeks |-> p.peeks, peek |-> p.peek,
   limited |-> l.limited, max |-> l.max, capped |-> c.capped, cap |-> c.cap,
   token |-> token]

MCBodies ==
  {b \in {Body(size, use, p, l, c, token) :
            size \in Sizes,
            use \in {"caller", "collect", "file", "drain", "buffered"},
            p \in Peeks, l \in Limits, c \in Caps, token \in BOOLEAN} :
     /\ b.capped => b.use = "file"
     /\ b.use = "drain" => ~b.limited /\ ~b.token
     /\ b.use = "buffered" => b.limited /\ ~b.peeks}

=============================================================================
