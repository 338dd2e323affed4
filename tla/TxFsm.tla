-------------------------------- MODULE TxFsm --------------------------------
(***************************************************************************)
(* The status machine of a cross-chain transaction, as the transaction     *)
(* manager contract builds it in setFSM                                    *)
(* (internal/executor/contracts/transaction_manager.go), and the tables    *)
(* that turn an IBTP into an event of that machine.                        *)
(***************************************************************************)

\* pb.TransactionStatus.
TransactionStatus ==
  {"BEGIN", "BEGIN_FAILURE", "BEGIN_ROLLBACK", "SUCCESS", "FAILURE", "ROLLBACK"}

\* pb.IsFinalStatus: no further receipt is expected.
FinalStatus == {"SUCCESS", "FAILURE", "ROLLBACK"}

\* The types of an IBTP of category RESPONSE.
ReceiptType == {"RECEIPT_SUCCESS", "RECEIPT_FAILURE", "RECEIPT_ROLLBACK"}

\* The statuses another hub reports in the proof of a notification.
NotificationStatus == {"BEGIN_FAILURE", "BEGIN_ROLLBACK"}

\* receipt2EventM: the event a receipt raises.
receipt2EventM ==
  [t \in ReceiptType |->
     CASE t = "RECEIPT_SUCCESS"  -> "success"
       [] t = "RECEIPT_FAILURE"  -> "failure"
       [] t = "RECEIPT_ROLLBACK" -> "rollback"]

\* txStatus2EventM: the event a notification of the destination hub raises.
txStatus2EventM ==
  [s \in NotificationStatus |->
     IF s = "BEGIN_FAILURE" THEN "dst_failure" ELSE "dst_rollback"]

\* Mutant of Fsm: a success that arrives after the timeout is taken.
FsmLateSuccess ==
  { <<"BEGIN",          "success",      "SUCCESS">>,
    <<"BEGIN_ROLLBACK", "success",      "SUCCESS">>,
    <<"BEGIN",          "failure",      "FAILURE">>,
    <<"BEGIN_FAILURE",  "failure",      "FAILURE">>,
    <<"BEGIN_ROLLBACK", "rollback",     "ROLLBACK">> }

\* The transitions of setFSM that some handler can raise, as triples
\* <<source, event, destination>>; setFSM returns an error for any other pair of
\* a status and an event, and the IBTP is refused.  BEGIN,
\* BEGIN_FAILURE and the timeout's BEGIN_ROLLBACK are written without an event.
Fsm ==
  { <<"BEGIN",          "success",      "SUCCESS">>,
    <<"BEGIN",          "failure",      "FAILURE">>,
    <<"BEGIN_FAILURE",  "failure",      "FAILURE">>,
    <<"BEGIN_ROLLBACK", "rollback",     "ROLLBACK">>,
    <<"BEGIN_ROLLBACK", "failure",      "ROLLBACK">>,
    <<"BEGIN",          "dst_failure",  "FAILURE">>,
    <<"BEGIN",          "dst_rollback", "ROLLBACK">> }
=============================================================================
