------------------------------- MODULE NeoRpc -------------------------------
(***************************************************************************)
(* Calls of the Neo contract as the programs make them                     *)
(* (blockchainAPI/neo/rpc.go, utils.go, mint.go): a transaction is signed, *)
(* sent to an RPC node, included in a block some time later, or never, and *)
(* the caller polls for it and then reads the application log.             *)
(*                                                                         *)
(* A pending transaction is a record: the run of a program that sent it,   *)
(* the method, the account that signed it and the argument.  Of one that   *)
(* is settled only the log matters, which holds the notification of an     *)
(* accepted upload.  The number of a transaction is its place in txs.      *)
(***************************************************************************)
EXTENDS NeoContract, Sequences

VARIABLE txs

TxState == {"pending", "halt", "error"}   \* error: a log with the event "error"

Tx(run, method, from, arg) ==
    [run |-> run, method |-> method, from |-> from, arg |-> arg, state |-> "pending"]

Log(t, outcome) ==
    [state |-> outcome,
     notification |-> IF t.method = "proposeUpload" /\ outcome = "halt" THEN t.arg ELSE None]
Settles(i, outcome) == txs' = [txs EXCEPT ![i] = Log(@, outcome)]

-----------------------------------------------------------------------------
(* The chain                                                               *)

(* The log holds the event "error", and the storage is untouched.          *)
Refused(t) ==
    \/ t.method = "registerStorageProvider" /\ RegisterRefused(t.from, t.arg)
    \/ t.method = "registerUserName" /\ NameRefused(t.from, t.arg)
    \/ /\ t.method = "proposeUpload"
       /\ ProposeRefused(t.from, t.arg.sp, t.arg.payment, t.arg.mBytes)

Invoke(t) ==
    \/ t.method = "registerStorageProvider" /\ RegisterStorageProvider(t.from, t.arg)
    \/ t.method = "unregisterStorageProvider" /\ UnregisterStorageProvider(t.from, t.arg)
    \/ t.method = "registerUserName" /\ RegisterUserName(t.from, t.arg)
    \/ t.method = "mintTokens" /\ mintTokens(t.from, t.arg)
    \/ /\ t.method = "proposeUpload"
       /\ ProposeUpload(t.from, t.arg.sp, t.arg.payment, t.arg.mBytes)

(* Transactions of a block take effect in an order the sender does not     *)
(* choose.  One that never makes it into a block stays pending.            *)
IncludeInBlock(i) ==
    /\ txs[i].state = "pending"
    /\ \/ /\ ~ Refused(txs[i])
          /\ Invoke(txs[i])
          /\ Settles(i, "halt")
       \/ /\ Refused(txs[i])
          /\ Settles(i, "error")
          /\ UNCHANGED contract

-----------------------------------------------------------------------------
(* The RPC client                                                          *)

(* CallArchonContract up to SendRawTransaction.  When it fails the node    *)
(* does not have the transaction; a lost answer is a transaction sent and  *)
(* a wait that fails.                                                      *)
Send(t) == txs' = Append(txs, t)

(* Bug: being in a block is taken for success.                             *)
Included(i) == txs[i].state \in {"halt", "error"}

(* Bug: having been sent is taken for success.                             *)
SentIsEnough(i) == i \in DOMAIN txs

(* WaitForTransaction and getTxResponse: the caller is told of a success   *)
(* only when the log holds no error.  It is told of a failure when the log *)
(* says so, when an RPC fails, and on a timeout, which all may be at any   *)
(* time, whatever becomes of the transaction.                              *)
Succeeded(i) == txs[i].state = "halt"

(* A read of the contract's storage.  An error reads as nothing stored.    *)
Reads(value, nothing) == {value, nothing}

=============================================================================
