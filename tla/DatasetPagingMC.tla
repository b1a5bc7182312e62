-------------------------- MODULE DatasetPagingMC --------------------------
(***************************************************************************)
(* DatasetPaging on three blocks, the last two with an alternative.        *)
(***************************************************************************)
EXTENDS DatasetPaging, TLC

At(tx, index, topic, vault, owner, assets) ==
  [tx |-> tx, index |-> index, topic |-> topic, vault |-> vault, owner |-> owner,
   assets |-> assets]

\* Transaction 3 comes in another place when its block is replaced; owner 2 overtakes
\* owner 1 in block 2, and is level with it in its alternative.
MCLogsOf ==
  [b \in 1..3 |-> [f \in {0, 1} |->
    CASE b = 1 -> {At(1, 1, "Deposit", 1, 1, 2), At(2, 2, "Deposit", 1, 2, 1)}
      [] b = 2 /\ f = 0 -> {At(3, 1, "Deposit", 1, 2, 2), At(4, 2, "Withdraw", 1, 1, 1)}
      [] b = 2 /\ f = 1 -> {At(3, 3, "Deposit", 1, 2, 1), At(5, 1, "Deposit", 2, 3, 1),
                            At(5, 2, "other", 2, 3, 1)}
      [] b = 3 /\ f = 0 -> {At(6, 1, "Withdraw", 2, 1, 3)}
      [] b = 3 /\ f = 1 -> {At(6, 2, "Deposit", 2, 3, 3), At(7, 1, "Deposit", 1, 1, 1)}]]

\* Block 3 is in the next hour.
MCHourOf == <<1, 1, 2>>

All(limit) == [vault |-> None, type |-> None, owner |-> None, from |-> None, to |-> None,
               limit |-> limit]
MCQueries ==
  {All(1), All(2), [All(1) EXCEPT !.type = "DEPOSIT"], [All(1) EXCEPT !.vault = 1],
   [All(1) EXCEPT !.owner = 2], [All(1) EXCEPT !.to = 2], [All(1) EXCEPT !.from = 2]}

=============================================================================
