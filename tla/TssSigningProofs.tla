--------------------------- MODULE TssSigningProofs ----------------------------
(***************************************************************************)
(* Proofs about TssSigning, for all sets of peers, faulty ones among them  *)
(* and requests, and whatever the nodes store and the network loses.       *)
(***************************************************************************)
EXTENDS TssSigning, TLAPS

(***************************************************************************)
(* The inductive invariant: whatever a request holds on the way to its     *)
(* reply was made by a round that succeeded, and a round that is open has  *)
(* a quorum of signers.                                                    *)
(***************************************************************************)
Made(x) == \E s \in SUBSET Peers : /\ <<x, s>> \in produced
                                   /\ Cardinality(s) >= Quorum /\ s \cap Faulty = {}

Fields == {"state", "all", "signers", "remote", "result", "local", "sign", "signErr",
           "culprits", "blamed", "reply", "of"}

Shape ==
  /\ req = [r \in Requests |-> req[r]] /\ round = [r \in Requests |-> round[r]]
  /\ \A r \in Requests : DOMAIN req[r] = Fields /\ DOMAIN round[r] = {"asked", "joined", "open"}

\* What the fields of one request promise.
Holds(q, r) ==
  /\ q.result = <<>> \/ \E x : q.result = <<x>> /\ Made(x)
  /\ q.sign => Made(r)
  /\ q.reply = "sign" => Made(q.of)

RoundsInv ==
  \A r \in Requests :
     /\ round[r].joined \subseteq Peers
     /\ round[r].open => Cardinality(req[r].signers) = Quorum

MadeInv ==
  /\ \A r \in Requests : Holds(req[r], r)
  /\ \A a \in answers : a.of # NoOne => Made(a.of)

Inv == Shape /\ RoundsInv /\ MadeInv

-----------------------------------------------------------------------------
\* What was made stays made, and what it vouches for stays vouched for.
LEMMA MadeStays ==
  ASSUME produced \subseteq produced'
  PROVE  /\ \A x : Made(x) => Made(x)'
         /\ \A q, r : Holds(q, r) => Holds(q, r)'
<1>1. \A x : Made(x) => Made(x)'
  BY DEF Made
<1> QED BY <1>1 DEF Holds

\* A step of one request that leaves the round alone, and what it holds, or drops it.
LEMMA OneRequest ==
  ASSUME Inv, NEW r \in Requests, UNCHANGED <<round, answers, produced>>,
         req' = [req EXCEPT ![r] = req'[r]], DOMAIN req'[r] = Fields,
         req'[r].signers = req[r].signers, Holds(req'[r], r)
  PROVE  Inv'
<1>1. \A x \in Requests : x # r => req'[x] = req[x]
  BY DEF Inv, Shape
<1>2. Shape'
  BY <1>1 DEF Inv, Shape
<1>3. RoundsInv'
  BY <1>1 DEF Inv, RoundsInv
<1>4. \A q, x : Holds(q, x)' <=> Holds(q, x)
  BY DEF Holds, Made
<1>5. \A x : Made(x)' <=> Made(x)
  BY DEF Made
<1>6. MadeInv'
  BY <1>1, <1>4, <1>5 DEF Inv, MadeInv
<1> QED BY <1>2, <1>3, <1>6 DEF Inv

\* Reply: "sign" only with what was made.
LEMMA ReplyHolds ==
  ASSUME Inv, NEW r \in Requests, NEW what, NEW of, Reply(r, what, of),
         what = "sign" => Made(of), UNCHANGED <<round, answers, produced>>
  PROVE  Inv'
<1> DEFINE q == [req[r] EXCEPT !.state = "done", !.reply = what, !.of = of]
<1>1. DOMAIN req[r] = Fields
  BY DEF Inv, Shape
<1>2. req' = [req EXCEPT ![r] = q]
  BY ZenonT(30) DEF Reply
<1>3. DOMAIN q = Fields /\ q.signers = req[r].signers /\ q.result = req[r].result
      /\ q.sign = req[r].sign /\ q.reply = what /\ q.of = of
  BY <1>1 DEF Fields
<1>4. Holds(req[r], r)
  BY DEF Inv, MadeInv
<1> HIDE DEF q
<1>5. req'[r] = q
  BY <1>2 DEF Inv, Shape
<1>6. Holds(q, r)
  BY <1>3, <1>4 DEF Holds
<1> QED BY ZenonT(30), <1>2, <1>3, <1>5, <1>6, OneRequest

\* A step that touches none of the fields that hold something.
LEMMA OtherFields ==
  ASSUME Inv, NEW r \in Requests, UNCHANGED <<round, answers, produced>>,
         NEW q, req' = [req EXCEPT ![r] = q], DOMAIN q = Fields, q.signers = req[r].signers,
         q.result = req[r].result, q.sign = req[r].sign, q.reply = req[r].reply, q.of = req[r].of
  PROVE  Inv'
<1>1. req'[r] = q
  BY DEF Inv, Shape
<1>2. Holds(req[r], r)
  BY DEF Inv, MadeInv
<1>3. Holds(q, r)
  BY <1>2 DEF Holds
<1> QED BY ZenonT(30), <1>1, <1>3, OneRequest

\* The steps of a request between its rounds and while it waits.
LEMMA WaitingSteps ==
  ASSUME Inv, NEW r \in Requests,
         \/ GetTssSigns(r) \/ NoInfo(r) \/ TooFewSigners(r)
         \/ SubscribeTssSignRes(r) \/ KeySignTimeout(r)
  PROVE  Inv'
<1>1. DOMAIN req[r] = Fields
  BY DEF Inv, Shape
<1>2. CASE GetTssSigns(r)
  <2>1. PICK all : req' = [req EXCEPT ![r].state = "loop", ![r].all = all]
    BY ZenonT(30), <1>2 DEF GetTssSigns
  <2> DEFINE q == [req[r] EXCEPT !.state = "loop", !.all = all]
  <2>2. req' = [req EXCEPT ![r] = q]
    BY ZenonT(30), <2>1
  <2>3. DOMAIN q = Fields /\ q.signers = req[r].signers /\ q.result = req[r].result
        /\ q.sign = req[r].sign /\ q.reply = req[r].reply /\ q.of = req[r].of
    BY <1>1 DEF Fields
  <2> HIDE DEF q
  <2>4. UNCHANGED <<round, answers, produced>>
    BY <1>2 DEF GetTssSigns
  <2> QED BY ZenonT(30), <2>2, <2>3, <2>4, OtherFields
<1>3. CASE NoInfo(r)
  <2>1. Reply(r, "noinfo", NoOne) /\ UNCHANGED <<round, answers, produced>>
    BY <1>3 DEF NoInfo
  <2> QED BY <2>1, ReplyHolds
<1>4. CASE TooFewSigners(r)
  <2>1. Reply(r, "few", NoOne) /\ UNCHANGED <<round, answers, produced>>
    BY <1>4 DEF TooFewSigners
  <2> QED BY <2>1, ReplyHolds
<1>5. CASE SubscribeTssSignRes(r) \/ KeySignTimeout(r)
  <2>1. PICK to \in {"listens", "over"} : req' = [req EXCEPT ![r].remote = to]
    BY <1>5 DEF SubscribeTssSignRes, KeySignTimeout
  <2> DEFINE q == [req[r] EXCEPT !.remote = to]
  <2>2. req' = [req EXCEPT ![r] = q]
    BY <2>1
  <2>3. DOMAIN q = Fields /\ q.signers = req[r].signers /\ q.result = req[r].result
        /\ q.sign = req[r].sign /\ q.reply = req[r].reply /\ q.of = req[r].of
    BY <1>1 DEF Fields
  <2> HIDE DEF q
  <2>4. UNCHANGED <<round, answers, produced>>
    BY <1>5 DEF SubscribeTssSignRes, KeySignTimeout
  <2> QED BY ZenonT(30), <2>2, <2>3, <2>4, OtherFields
<1> QED BY <1>2, <1>3, <1>4, <1>5

-----------------------------------------------------------------------------
(* The steps of a round.                                                      *)

\* A step of one request and its round.
LEMMA OneRound ==
  ASSUME Inv, NEW r \in Requests, produced \subseteq produced',
         NEW q, req' = [req EXCEPT ![r] = q], DOMAIN q = Fields, Holds(q, r)',
         NEW t, round' = [round EXCEPT ![r] = t], DOMAIN t = {"asked", "joined", "open"},
         t.joined \subseteq Peers, t.open => Cardinality(q.signers) = Quorum,
         \A a \in answers' : a \in answers \/ (a.of # NoOne => Made(a.of)')
  PROVE  Inv'
<1>1. req'[r] = q /\ round'[r] = t
      /\ \A x \in Requests : x # r => req'[x] = req[x] /\ round'[x] = round[x]
  BY DEF Inv, Shape
<1>2. Shape'
  BY ZenonT(30), <1>1 DEF Inv, Shape
<1>3. RoundsInv'
  BY <1>1 DEF Inv, RoundsInv
<1>4. /\ \A x : Made(x) => Made(x)'
      /\ \A y, x : Holds(y, x) => Holds(y, x)'
  BY MadeStays
<1>5. \A x \in Requests : Holds(req[x], x)'
  BY <1>1, <1>4 DEF Inv, MadeInv
<1>6. MadeInv'
  BY <1>4, <1>5 DEF Inv, MadeInv
<1> QED BY <1>2, <1>3, <1>6 DEF Inv

\* ChooseSigners: as many as Quorum says; the locals of the last turn are forgotten.
LEMMA ChooseStep ==
  ASSUME TssAssumption, Inv, NEW r \in Requests, ChooseSigners(r)
  PROVE  Inv'
<1>1. PICK signers \in randomSignerRequest(req[r].all) :
         LET here == getLocalTssSign(r, signers) IN
         /\ req' = [req EXCEPT ![r] = [@ EXCEPT !.state = "run", !.signers = signers,
                      !.remote = "fetch", !.result = <<>>, !.local = here.local,
                      !.sign = FALSE, !.signErr = here.err, !.culprits = <<>>]]
         /\ round' = [round EXCEPT ![r] = [asked |-> {}, joined |-> here.joins, open |-> TRUE]]
  BY ZenonT(30) DEF ChooseSigners
<1> DEFINE here == getLocalTssSign(r, signers)
<1> DEFINE q == [req[r] EXCEPT !.state = "run", !.signers = signers,
                      !.remote = "fetch", !.result = <<>>, !.local = here.local,
                      !.sign = FALSE, !.signErr = here.err, !.culprits = <<>>]
<1> DEFINE t == [asked |-> {}, joined |-> here.joins, open |-> TRUE]
<1>2. here.joins \subseteq Peers
  BY DEF getLocalTssSign, TssAssumption
<1> HIDE DEF here
<1>3. req' = [req EXCEPT ![r] = q] /\ round' = [round EXCEPT ![r] = t]
  BY <1>1 DEF here
<1>4. DOMAIN req[r] = Fields
  BY DEF Inv, Shape
<1>5. DOMAIN q = Fields /\ q.signers = signers /\ q.result = <<>> /\ q.sign = FALSE
      /\ q.reply = req[r].reply /\ q.of = req[r].of
  BY ZenonT(30), <1>4 DEF Fields
<1>6. DOMAIN t = {"asked", "joined", "open"} /\ t.joined \subseteq Peers
  BY <1>2
<1>7. Cardinality(signers) = Quorum
  BY DEF randomSignerRequest, kSubset
<1>8. UNCHANGED <<answers, produced>>
  BY DEF ChooseSigners
<1>9. Holds(req[r], r)
  BY DEF Inv, MadeInv
<1> HIDE DEF q, t
<1>10. Holds(q, r)
  BY <1>5, <1>9 DEF Holds
<1>11. \A y, x : Holds(y, x) => Holds(y, x)'
  BY <1>8, MadeStays
<1>12. ASSUME NEW y, y = q PROVE Holds(y, r)'
  BY <1>10, <1>11, <1>12
<1>13. ASSUME NEW y, y = q, NEW u, u = t PROVE Inv'
  BY ZenonT(30), <1>3, <1>5, <1>6, <1>7, <1>8, <1>12, <1>13, OneRound
<1> QED BY <1>13

\* A step of the round alone keeps what its request holds.
LEMMA RoundAlone ==
  ASSUME Inv, NEW r \in Requests, UNCHANGED <<answers, produced>>,
         NEW q, req' = [req EXCEPT ![r] = q], DOMAIN q = Fields, q.signers = req[r].signers,
         q.result = req[r].result, q.sign = req[r].sign, q.reply = req[r].reply, q.of = req[r].of,
         NEW t, round' = [round EXCEPT ![r] = t], DOMAIN t = {"asked", "joined", "open"},
         t.joined \subseteq Peers, t.open = round[r].open
  PROVE  Inv'
<1>1. Holds(req[r], r) /\ (round[r].open => Cardinality(req[r].signers) = Quorum)
  BY DEF Inv, MadeInv, RoundsInv
<1>2. Holds(q, r)
  BY <1>1 DEF Holds
<1>3. Holds(q, r)'
  BY <1>2, MadeStays
<1> QED BY ZenonT(30), <1>1, <1>3, OneRound

\* The requests are sent, and a peer joins.
LEMMA JoinSteps ==
  ASSUME Inv, NEW r \in Requests,
         FetchSignsFromOtherPeers(r) \/ \E p \in Peers : handleFetchIBTPTssSignMessage(r, p)
  PROVE  Inv'
<1>1. DOMAIN req[r] = Fields /\ DOMAIN round[r] = {"asked", "joined", "open"}
      /\ req = [req EXCEPT ![r] = req[r]] /\ round[r].joined \subseteq Peers
  BY DEF Inv, Shape, RoundsInv
<1>2. CASE FetchSignsFromOtherPeers(r)
  <2>1. PICK asked : round' = [round EXCEPT ![r].asked = asked]
    BY ZenonT(30), <1>2 DEF FetchSignsFromOtherPeers
  <2>2. req' = [req EXCEPT ![r].remote = "fetched"] /\ UNCHANGED <<answers, produced>>
    BY <1>2 DEF FetchSignsFromOtherPeers
  <2> DEFINE q == [req[r] EXCEPT !.remote = "fetched"]
  <2> DEFINE t == [round[r] EXCEPT !.asked = asked]
  <2>3. req' = [req EXCEPT ![r] = q] /\ round' = [round EXCEPT ![r] = t]
    BY <2>1, <2>2
  <2>4. DOMAIN q = Fields /\ q.signers = req[r].signers /\ q.result = req[r].result
        /\ q.sign = req[r].sign /\ q.reply = req[r].reply /\ q.of = req[r].of
    BY <1>1 DEF Fields
  <2>5. DOMAIN t = {"asked", "joined", "open"} /\ t.joined \subseteq Peers /\ t.open = round[r].open
    BY <1>1
  <2> HIDE DEF q, t
  <2> QED BY ZenonT(30), <2>2, <2>3, <2>4, <2>5, RoundAlone
<1>3. ASSUME NEW p \in Peers, handleFetchIBTPTssSignMessage(r, p) PROVE Inv'
  <2> DEFINE joined == IF req[r].signers \subseteq Info[p] THEN round[r].joined \cup {p} ELSE round[r].joined
  <2> DEFINE t == [round[r] EXCEPT !.asked = round[r].asked \ {p}, !.joined = joined]
  <2>1. joined \subseteq Peers
    BY SMTT(30), <1>1
  <2>2. round' = [round EXCEPT ![r] = t] /\ UNCHANGED <<req, answers, produced>>
    BY ZenonT(30), <1>3 DEF handleFetchIBTPTssSignMessage
  <2> HIDE DEF joined
  <2>3. DOMAIN t = {"asked", "joined", "open"} /\ t.joined \subseteq Peers /\ t.open = round[r].open
    BY <1>1, <2>1
  <2> HIDE DEF t
  <2>4. req' = [req EXCEPT ![r] = req[r]]
    BY <1>1, <2>2
  <2> QED BY ZenonT(30), <1>1, <2>2, <2>3, <2>4, RoundAlone
<1> QED BY <1>2, <1>3

\* KeySigned: a quorum without faulty parties has made the signature of the request.
LEMMA SignedStep ==
  ASSUME TssAssumption, Inv, NEW r \in Requests, KeySigned(r)
  PROVE  Inv'
<1>1. /\ round[r].open /\ round[r].joined = req[r].signers /\ req[r].signers \cap Faulty = {}
      /\ round' = [round EXCEPT ![r].open = FALSE]
      /\ answers' = answers \cup {a \in Signed(r) : a.by # a.to}
      /\ produced' = produced \cup {<<r, req[r].signers>>}
  BY DEF KeySigned
<1>2. /\ DOMAIN req[r] = Fields /\ DOMAIN round[r] = {"asked", "joined", "open"}
      /\ req = [req EXCEPT ![r] = req[r]] /\ round[r].joined \subseteq Peers
      /\ Cardinality(req[r].signers) = Quorum
  BY ZenonT(30), <1>1 DEF Inv, Shape, RoundsInv
<1>3. Made(r)'
  <2> DEFINE s == req[r].signers
  <2>1. s \in SUBSET Peers /\ <<r, s>> \in produced' /\ Cardinality(s) >= Quorum /\ s \cap Faulty = {}
    BY <1>1, <1>2 DEF TssAssumption
  <2> QED BY <2>1 DEF Made
<1>4. \A a \in answers' : a \in answers \/ (a.of # NoOne => Made(a.of)')
  <2>1. \A a \in answers' : a \in answers \/ a.of = r
    BY <1>1 DEF Signed
  <2> QED BY <1>3, <2>1
<1> DEFINE q == IF Home[r] \in req[r].signers THEN [req[r] EXCEPT !.local = "over", !.sign = TRUE] ELSE req[r]
<1> DEFINE t == [round[r] EXCEPT !.open = FALSE]
<1>5. DOMAIN q = Fields /\ q.result = req[r].result /\ q.reply = req[r].reply /\ q.of = req[r].of
  BY <1>2 DEF Fields
<1>6. req' = [req EXCEPT ![r] = q] /\ round' = [round EXCEPT ![r] = t]
  <2>1. CASE Home[r] \in req[r].signers
    BY ZenonT(30), <1>1, <2>1 DEF KeySigned
  <2>2. CASE Home[r] \notin req[r].signers
    BY <1>1, <1>2, <2>2 DEF KeySigned
  <2> QED BY <2>1, <2>2
<1>7. DOMAIN t = {"asked", "joined", "open"} /\ t.joined \subseteq Peers /\ t.open = FALSE
  BY <1>2
<1> HIDE DEF q, t
<1>8. Holds(req[r], r) /\ produced \subseteq produced'
  BY <1>1 DEF Inv, MadeInv
<1>9. ASSUME NEW y, y = q PROVE Holds(y, r)'
  <2>1. y.result = <<>> \/ \E x : y.result = <<x>> /\ Made(x)'
    BY <1>5, <1>8, <1>9, MadeStays DEF Holds
  <2>2. y.reply = "sign" => Made(y.of)'
    BY <1>5, <1>8, <1>9, MadeStays DEF Holds
  <2> QED BY <1>3, <2>1, <2>2 DEF Holds
<1>10. ASSUME NEW y, y = q, NEW u, u = t PROVE Inv'
  BY ZenonT(30), <1>4, <1>5, <1>6, <1>7, <1>8, <1>9, <1>10, OneRound
<1> QED BY <1>10

\* KeySignFails: the answers of faulty parties are nobody's signature.
LEMMA FailsStep ==
  ASSUME Inv, NEW r \in Requests, KeySignFails(r)
  PROVE  Inv'
<1>1. /\ round' = [round EXCEPT ![r].open = FALSE] /\ UNCHANGED produced
      /\ answers' = answers \cup [by : Faulty \cap round[r].joined, to : Homes, of : {NoOne}]
  BY DEF KeySignFails
<1>2. /\ DOMAIN req[r] = Fields /\ DOMAIN round[r] = {"asked", "joined", "open"}
      /\ req = [req EXCEPT ![r] = req[r]] /\ round[r].joined \subseteq Peers
  BY DEF Inv, Shape, RoundsInv
<1>3. \A a \in answers' : a \in answers \/ a.of = NoOne
  BY <1>1
<1>4. PICK culprits : req' = IF Home[r] \in round[r].joined
                 THEN [req EXCEPT ![r].local = "over", ![r].signErr = TRUE, ![r].culprits = culprits]
                 ELSE req
  BY ZenonT(30) DEF KeySignFails
<1> DEFINE q == IF Home[r] \in round[r].joined
                THEN [req[r] EXCEPT !.local = "over", !.signErr = TRUE, !.culprits = culprits]
                ELSE req[r]
<1> DEFINE t == [round[r] EXCEPT !.open = FALSE]
<1>5. /\ DOMAIN q = Fields /\ q.result = req[r].result /\ q.sign = req[r].sign
      /\ q.reply = req[r].reply /\ q.of = req[r].of
  BY <1>2 DEF Fields
<1>6. req' = [req EXCEPT ![r] = q] /\ round' = [round EXCEPT ![r] = t]
  <2>1. CASE Home[r] \in round[r].joined
    BY ZenonT(30), <1>1, <1>4, <2>1
  <2>2. CASE Home[r] \notin round[r].joined
    BY <1>1, <1>2, <1>4, <2>2
  <2> QED BY <2>1, <2>2
<1>7. DOMAIN t = {"asked", "joined", "open"} /\ t.joined \subseteq Peers /\ t.open = FALSE
  BY <1>2
<1> HIDE DEF q, t
<1>8. Holds(req[r], r)
  BY DEF Inv, MadeInv
<1>9. Holds(q, r)
  BY <1>5, <1>8 DEF Holds
<1>10. ASSUME NEW y, y = q, NEW u, u = t PROVE Inv'
  <2>1. Holds(y, r)'
    BY SMTT(30), <1>1, <1>9, <1>10, MadeStays
  <2> QED BY ZenonT(30), <1>1, <1>3, <1>5, <1>6, <1>7, <1>10, <2>1, OneRound
<1> QED BY SMTT(30), <1>10

-----------------------------------------------------------------------------
(* The steps that reach several requests of a node.                           *)

LEMMA ManyRequests ==
  ASSUME Inv, UNCHANGED <<round, produced>>, answers' \subseteq answers,
         req' = [x \in Requests |-> req'[x]],
         \A x \in Requests : /\ DOMAIN req'[x] = Fields /\ req'[x].signers = req[x].signers
                             /\ Holds(req'[x], x)
  PROVE  Inv'
<1>1. Shape'
  BY DEF Inv, Shape
<1>2. RoundsInv'
  BY DEF Inv, RoundsInv
<1>3. (\A y, x : Holds(y, x)' <=> Holds(y, x)) /\ \A x : Made(x)' <=> Made(x)
  BY DEF Holds, Made
<1>4. MadeInv'
  BY <1>3 DEF Inv, MadeInv
<1> QED BY <1>1, <1>2, <1>4 DEF Inv

\* HearSignature: what VerifyTssSigns accepts was made.
LEMMA HearStep ==
  ASSUME Inv, NEW a \in answers, HearSignature(a)
  PROVE  Inv'
<1> DEFINE hears(x) == Home[x] = a.to /\ req[x].remote = "listens" /\ VerifyTssSigns(a)
<1>1. /\ answers' = answers \ {a} /\ UNCHANGED <<round, produced>>
      /\ req' = [x \in Requests |-> IF hears(x)
                    THEN [req[x] EXCEPT !.remote = "over", !.result = <<a.of>>] ELSE req[x]]
  BY ZenonT(30) DEF HearSignature
<1>2. ASSUME NEW x \in Requests
      PROVE  DOMAIN req'[x] = Fields /\ req'[x].signers = req[x].signers /\ Holds(req'[x], x)
  <2>1. Holds(req[x], x) /\ DOMAIN req[x] = Fields
    BY DEF Inv, Shape, MadeInv
  <2>2. CASE ~hears(x)
    <3>1. req'[x] = req[x]
      BY ZenonT(30), <1>1, <2>2
    <3> QED BY <2>1, <3>1
  <2>3. CASE hears(x)
    <3> DEFINE q == [req[x] EXCEPT !.remote = "over", !.result = <<a.of>>]
    <3>1. req'[x] = q
      BY ZenonT(30), <1>1, <2>3
    <3>2. DOMAIN q = Fields /\ q.signers = req[x].signers /\ q.result = <<a.of>>
          /\ q.sign = req[x].sign /\ q.reply = req[x].reply /\ q.of = req[x].of
      BY <2>1 DEF Fields
    <3> HIDE DEF q
    <3>3. Made(a.of)
      BY <2>3 DEF Inv, MadeInv, VerifyTssSigns
    <3>4. Holds(q, x)
      BY <2>1, <3>2, <3>3 DEF Holds
    <3> QED BY <3>1, <3>2, <3>4
  <2> QED BY <2>2, <2>3
<1> HIDE DEF hears
<1>3. req' = [x \in Requests |-> req'[x]]
  BY ZenonT(30), <1>1
<1> QED BY ZenonT(30), <1>1, <1>2, <1>3, ManyRequests

\* Stop answers no request with a signature.
LEMMA StopStep ==
  ASSUME Inv, NEW n, Stop(n), UNCHANGED <<round, answers, produced>>
  PROVE  Inv'
<1> DEFINE stops(x) == Home[x] = n /\ req[x].state # "done"
<1>1. req' = [x \in Requests |-> IF stops(x)
                 THEN [req[x] EXCEPT !.state = "done", !.reply = "stopped"] ELSE req[x]]
  BY ZenonT(30) DEF Stop
<1>2. ASSUME NEW x \in Requests
      PROVE  DOMAIN req'[x] = Fields /\ req'[x].signers = req[x].signers /\ Holds(req'[x], x)
  <2>1. Holds(req[x], x) /\ DOMAIN req[x] = Fields
    BY DEF Inv, Shape, MadeInv
  <2>2. CASE ~stops(x)
    <3>1. req'[x] = req[x]
      BY ZenonT(30), <1>1, <2>2
    <3> QED BY <2>1, <3>1
  <2>3. CASE stops(x)
    <3> DEFINE q == [req[x] EXCEPT !.state = "done", !.reply = "stopped"]
    <3>1. req'[x] = q
      BY ZenonT(30), <1>1, <2>3
    <3>2. DOMAIN q = Fields /\ q.signers = req[x].signers /\ q.result = req[x].result
          /\ q.sign = req[x].sign /\ q.reply = "stopped"
      BY <2>1 DEF Fields
    <3> HIDE DEF q
    <3>3. Holds(q, x)
      BY <2>1, <3>2 DEF Holds
    <3> QED BY <3>1, <3>2, <3>3
  <2> QED BY <2>2, <2>3
<1> HIDE DEF stops
<1>3. req' = [x \in Requests |-> req'[x]]
  BY ZenonT(30), <1>1
<1> QED BY <1>2, <1>3, ManyRequests

\* EndOfTurn: the reply is a signature the request was given or made itself.
LEMMA EndStep ==
  ASSUME Inv, NEW r \in Requests, EndOfTurn(r)
  PROVE  Inv'
<1>1. Holds(req[r], r) /\ DOMAIN req[r] = Fields
  BY DEF Inv, Shape, MadeInv
<1>2. UNCHANGED <<round, answers, produced>>
  BY DEF EndOfTurn
<1>3. CASE req[r].result # <<>> /\ Reply(r, "sign", Head(req[r].result))
  <2>1. PICK x : req[r].result = <<x>> /\ Made(x)
    BY SMTT(30), <1>1, <1>3 DEF Holds
  <2>2. Head(<<x>>) = x
    OBVIOUS
  <2>3. Reply(r, "sign", x)
    BY <1>3, <2>1, <2>2
  <2> QED BY <1>2, <2>1, <2>3, ReplyHolds
<1>4. CASE req[r].sign /\ Reply(r, "sign", r)
  <2>1. Made(r)
    BY <1>1, <1>4 DEF Holds
  <2> QED BY <1>2, <1>4, <2>1, ReplyHolds
<1>5. CASE Stop(Home[r])
  BY <1>2, <1>5, StopStep
<1>6. CASE req' = [req EXCEPT ![r].state = "loop", ![r].remote = "none", ![r].local = "none",
                     ![r].all = HandleCulprits(@, req[r].culprits),
                     ![r].blamed = @ \cup Range(req[r].culprits)]
  <2> DEFINE all == HandleCulprits(req[r].all, req[r].culprits)
  <2> DEFINE blamed == req[r].blamed \cup Range(req[r].culprits)
  <2> DEFINE q == [req[r] EXCEPT !.state = "loop", !.remote = "none", !.local = "none",
                                 !.all = all, !.blamed = blamed]
  <2>1. req' = [req EXCEPT ![r] = q]
    BY ZenonT(30), <1>6
  <2> HIDE DEF all, blamed
  <2>2. DOMAIN q = Fields /\ q.signers = req[r].signers /\ q.result = req[r].result
        /\ q.sign = req[r].sign /\ q.reply = req[r].reply /\ q.of = req[r].of
    BY <1>1 DEF Fields
  <2> HIDE DEF q
  <2> QED BY ZenonT(30), <1>2, <2>1, <2>2, OtherFields
<1> QED BY <1>3, <1>4, <1>5, <1>6 DEF EndOfTurn

-----------------------------------------------------------------------------
LEMMA TssInit ==
  ASSUME Init
  PROVE  Inv
<1>1. \A r \in Requests : req[r] = Idle /\ round[r] = NoRound
  BY DEF Init
<1>2. DOMAIN Idle = Fields /\ DOMAIN NoRound = {"asked", "joined", "open"}
  BY DEF Idle, Fields, NoRound
<1>3. Shape
  BY <1>1, <1>2 DEF Init, Shape
<1>4. RoundsInv
  BY <1>1 DEF RoundsInv, NoRound
<1>5. MadeInv
  BY <1>1 DEF Init, MadeInv, Holds, Idle
<1> QED BY <1>3, <1>4, <1>5 DEF Inv

LEMMA TssStep ==
  ASSUME TssAssumption, Inv, [Next]_vars
  PROVE  Inv'
<1>1. ASSUME NEW r \in Requests, Own(r) PROVE Inv'
  BY <1>1, WaitingSteps, ChooseStep, JoinSteps, EndStep DEF Own
<1>2. CASE UNCHANGED vars
  <2>1. UNCHANGED <<req, round, answers, produced>>
    BY <1>2 DEF vars
  <2>2. req' = [x \in Requests |-> req'[x]] /\ answers' \subseteq answers
    BY <2>1 DEF Inv, Shape
  <2>3. \A x \in Requests : /\ DOMAIN req'[x] = Fields /\ req'[x].signers = req[x].signers
                            /\ Holds(req'[x], x)
    BY <2>1 DEF Inv, Shape, MadeInv
  <2> QED BY <2>1, <2>2, <2>3, ManyRequests
<1>3. CASE Next
  BY <1>1, <1>3, WaitingSteps, SignedStep, FailsStep, JoinSteps, HearStep DEF Next
<1> QED BY <1>2, <1>3

\* The invariant holds in every state.
THEOREM RoundsInvariant == TssAssumption => (Spec => []Inv)
<1>1. SUFFICES ASSUME TssAssumption PROVE Spec => []Inv
  OBVIOUS
<1>2. Init => Inv
  BY TssInit
<1>3. Inv /\ [Next]_vars => Inv'
  BY <1>1, TssStep
<1> QED BY <1>2, <1>3, PTL DEF Spec

\* A client is given only signatures that a round of a quorum of parties, none of them
\* faulty, has made, however many requests listen at its node, whichever messages are
\* lost and whatever the faulty parties answer (VerifyTssSigns, getRemoteTssSign).
THEOREM SignaturesGenuine == TssAssumption => (Spec => []Genuine)
<1>1. Inv => Genuine
  BY SMTT(30) DEF Inv, MadeInv, Holds, Made, Genuine
<1> QED BY <1>1, RoundsInvariant, PTL
=============================================================================
