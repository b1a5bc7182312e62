----------------------------- MODULE PurchaseMC -----------------------------
(***************************************************************************)
(* Purchase with two POSTs of one browser.                                 *)
(***************************************************************************)
EXTENDS Purchase, TLC

Sent(origin, loopback, operator, wellFormed) ==
  [origin |-> origin, loopback |-> loopback, operator |-> operator, wellFormed |-> wellFormed]
MCPosts ==
  {Sent("same", TRUE, FALSE, TRUE), Sent("same", FALSE, TRUE, FALSE),
   Sent("other", TRUE, FALSE, TRUE)}

Asked(terms, amount) == [terms |-> terms, feePayer |-> TRUE, amount |-> amount]
\* The largest amount the agent pays, one that is too large, and the same for another recipient.
MCOffers == {Asked("expected", 2), Asked("expected", 3), Asked("other", 2), None}

=============================================================================
