----------------------------- MODULE MCDatabasePool -----------------------------
(* Two transactions and a statement on one connection; or two transactions, *)
(* of two and of one statement, on two connections.                         *)
EXTENDS DatabasePool, TLC

CONSTANTS mail, trade, ban

MCTransactions == {mail, trade}
MCStatements == {ban}
NoStatements == {}
MCLength == (mail :> 2) @@ (trade :> 2) @@ (ban :> 1)
TransactionLength == (mail :> 2) @@ (trade :> 1)
=============================================================================
