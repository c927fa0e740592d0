----------------------------- MODULE MCDrsRules -----------------------------
(* Instances of DrsRules for TLC. *)
EXTENDS DrsRules

\* Group keys "WEB" and "WEB-1": "^(WEB(-\d+)?)-" yields both.
WebKeys == {[stem |-> "WEB", tail |-> <<>>], [stem |-> "WEB", tail |-> <<1>>]}
\* One pattern makes groups long enough for short tails; two, in every
\* combination of matches, show which of them decides.
VMBounds == <<6, 3>>
MCNoKey == [stem |-> "none", tail |-> <<>>]
=============================================================================
