---------------------------- MODULE MCInterchain ----------------------------
(***************************************************************************)
(* The one-to-one transactions of Interchain for TLC, over one channel.     *)
(***************************************************************************)
EXTENDS Interchain

CONSTANTS
  hub, otherHub,  \* this hub and another one
  a, b,           \* ordered services of application chains of this hub
  u,              \* an unordered one
  w,              \* a service of this hub itself
  x, y            \* services of the other hub

\* pb.StatusChange.NotifyFlags, source half.
MCNotifyFlags ==
  {<<"none", "BEGIN_FAILURE">>}
    \cup {<<"BEGIN", s>> : s \in TransactionStatus \ {"BEGIN"}}
    \cup {<<"BEGIN_FAILURE", "FAILURE">>, <<"BEGIN_ROLLBACK", "ROLLBACK">>}

MCService == {a, b, u, w, x, y}
MCHubOf   == [s \in MCService |-> IF s \in {x, y} THEN otherHub ELSE hub]
MCOrdered == [s \in MCService |-> s # u]

\* A negative number, never, and the next block.
Timeouts == {-3, 0, 1}

\* A behaviour uses the channel that its first state names: to a service of this hub, or
\* to one of another hub, which may send the request back.
VARIABLE used

MCChannel == {<<a, b>>, <<a, x>>}
Sent(c) == {c} \X (IF c = <<a, b>> THEN Index ELSE Index \ {3})
Switches(c) == IF c = <<a, b>> THEN {b} ELSE {otherHub}

UsedInit ==
  /\ used \in Channel
  /\ Init
  /\ \A id \in TxId \ Sent(used) : ibtpTimeout[id] = 1

UsedNext ==
  /\ Next
  /\ indexMap' \subseteq Sent(used)
  /\ down' \subseteq Switches(used)
  /\ UNCHANGED used

UsedSpec == UsedInit /\ [][UsedNext]_<<vars, used>>
=============================================================================
