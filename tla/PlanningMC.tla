----------------------------- MODULE PlanningMC -----------------------------
(***************************************************************************)
(* Planning with replies, errors and overrides that take every branch.     *)
(***************************************************************************)
EXTENDS Planning, TLC

CONSTANTS A, B, C, D, b1, b2

At(id, isLower) == [id |-> id, lower |-> isLower]
Vault(id) == At(id, TRUE)

\* Valid lists, one too long, an empty one, and two that name a contract twice.
MCContracts ==
  {<<>>, <<At(A, FALSE)>>, <<Vault(A), Vault(B)>>, <<Vault(A), At(A, FALSE)>>,
   <<Vault(A), Vault(B), Vault(C), Vault(D)>>}
MCEvents == {<<"Deposit">>, <<"Deposit", "Withdraw">>, <<"Deposit", "Deposit">>}

MCSpecs == [contracts : MCContracts, events : MCEvents, startBlock : {b1},
            topDepositors : BOOLEAN]
SomeSpec == [contracts |-> <<Vault(A)>>, events |-> <<"Deposit">>, startBlock |-> b1,
             topDepositors |-> FALSE]

MCReplies ==
  [status : {"ready"}, wellFormed : {TRUE}, forbiddenText : {FALSE}, spec : MCSpecs]
    \cup [status : ResultStatus, wellFormed : BOOLEAN, forbiddenText : BOOLEAN,
          spec : {SomeSpec}]

\* Status errors of the provider, socket errors, a timeout, a broken or an empty response.
MCErrors ==
  {<<"apiRetryable">>, <<"apiFatal", "retryableCode">>, <<"plain", "retryableCode">>,
   <<"otherCode">>, <<"timeoutText">>, <<"plain">>, <<"response">>,
   <<"response", "plain">>, <<"response", "timeoutText">>}

MCOverrides ==
  [contracts : {<<>>, <<At(B, FALSE)>>, <<At(B, FALSE), Vault(B)>>}, startBlock : {None, b2}]

=============================================================================
