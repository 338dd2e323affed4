------------------------------- MODULE CrossTx -------------------------------
(***************************************************************************)
(* What the hub promises about a cross-chain transaction                   *)
(* (docs/docs/bitxhub/design/interchain_transaction.md): the transaction   *)
(* takes effect on both chains or is rolled back.  For every transaction   *)
(* the hub reaches one verdict, never revises it, and whatever it tells    *)
(* the source chain is that verdict.                                       *)
(***************************************************************************)
CONSTANT Tx

VARIABLES
  verdict,   \* "none" before the request, then "open", "commit" or "abort"
  announced  \* the verdicts the source chain has been told

Verdict == {"none", "open", "commit", "abort"}

TypeOK ==
  /\ verdict \in [Tx -> Verdict]
  /\ announced \in [Tx -> SUBSET {"commit", "abort"}]

Init ==
  /\ verdict = [t \in Tx |-> "none"]
  /\ announced = [t \in Tx |-> {}]

\* The moves of one transaction: it is opened, or refused at once; an open one is
\* decided.
Moves == { <<"none", "open">>, <<"none", "abort">>,
           <<"open", "commit">>, <<"open", "abort">> }

\* Any number of transactions may move in one step (a block closes for all of
\* them), and a decided one may be announced.
Next ==
  /\ verdict' \in [Tx -> Verdict]
  /\ announced' \in [Tx -> SUBSET {"commit", "abort"}]
  /\ \A t \in Tx :
       /\ verdict'[t] # verdict[t] => <<verdict[t], verdict'[t]>> \in Moves
       /\ announced[t] \subseteq announced'[t]
       /\ announced'[t] \subseteq announced[t] \cup {verdict'[t]}

Spec == Init /\ [][Next]_<<verdict, announced>>
=============================================================================
