----------------------------- MODULE MCFraming ------------------------------
(***************************************************************************)
(* Messages for instances of Framing: an ACK, a response whose type and    *)
(* data need escaping, and one whose data looks like an escaped byte.      *)
(***************************************************************************)
EXTENDS Framing

MCMessages == {
    [type |-> 2, data |-> <<>>],
    [type |-> 4, data |-> <<1, 16>>],
    [type |-> 16, data |-> <<129>>]}

=============================================================================
