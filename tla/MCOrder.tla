------------------------------ MODULE MCOrder ------------------------------
(***************************************************************************)
(* TLC instances of OrderService.                                          *)
(***************************************************************************)
EXTENDS OrderService, TLC

AllOps == {"buy", "prepay", "pay", "expirePay", "expireRide", "checkExp",
           "expireRoute", "page",
           "cancel", "refund", "sysRealtime", "scan", "arrive", "dispatch",
           "nightly", "midnight"}

\* Payment, cancellation and refund by users and by the 30 s job.
MoneyOps == {"buy", "prepay", "pay", "expirePay", "page", "cancel", "refund",
             "sysRealtime"}

\* What touches several orders at once, and what a batch may race with.
BatchOps == {"buy", "prepay", "pay", "cancel", "sysRealtime", "dispatch",
             "nightly"}

Workers == Permutations(Worker)
=============================================================================
