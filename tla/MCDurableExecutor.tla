---------------------------- MODULE MCDurableExecutor ----------------------------
(***************************************************************************)
(* Instances of DurableExecutor.                                           *)
(*   Contention: three attempts of one account, two of them on one intent, *)
(*     and a second intent on another symbol: retries, lapsed leases and   *)
(*     the open-position limit.                                            *)
(*   Accounts: two accounts whose cycles produce the same key.             *)
(*   Progress: two intents on one symbol, over two UTC days.               *)
(***************************************************************************)
EXTENDS DurableExecutor, TLC

CONSTANTS a1, a2, a3, k1, k2, sA, sB, yX, yZ

ContentionIntentOf  == a1 :> k1 @@ a2 :> k1 @@ a3 :> k2
ContentionAccountOf == a1 :> sA @@ a2 :> sA @@ a3 :> sA
ContentionSymbolOf  == k1 :> yX @@ k2 :> yZ

\* a1 and a2 submit the same intent for the same account, both supervised.
ContentionSymmetry == Permutations({a1, a2})

AccountsIntentOf  == a1 :> k1 @@ a2 :> k1
AccountsAccountOf == a1 :> sA @@ a2 :> sB
AccountsSymbolOf  == k1 :> yX

ProgressIntentOf  == a1 :> k1 @@ a2 :> k2
ProgressAccountOf == a1 :> sA @@ a2 :> sA
ProgressSymbolOf  == k1 :> yX @@ k2 :> yX
=============================================================================
