-------------------------- MODULE VoteWidthProofs ---------------------------
(***************************************************************************)
(* How the i8 votes count shares, for any set of devices, any numbers of   *)
(* shares and any order of votes and restarts.                             *)
(*                                                                         *)
(* The sums themselves are never computed: both sides of CountsShares are  *)
(* shown to add up the same numbers, device by device.                     *)
(***************************************************************************)
EXTENDS VoteWidth, TLAPS

\* What is in memory is what hydration would read.
IInv ==
  /\ shares \in [Devices -> Nat \ {0}]
  /\ rows \in [Devices -> {"accept", "reject", "none"}]
  /\ VotesRestored

\* A cast keeps a number exactly if it is in the range of an i8.
LEMMA CastFits ==
  ASSUME NEW n \in Int
  PROVE  as_i8(n) = n <=> n \in -128 .. 127
BY DEF as_i8

\* Negating the i8 and casting the negated number give the same i8: they differ
\* by a multiple of 256.
LEMMA CastNegated ==
  ASSUME NEW n \in Int
  PROVE  as_i8(-as_i8(n)) = as_i8(-n)
<1>1. PICK k \in Int : as_i8(n) = n - 256 * k
  <2>1. (n + 128) % 256 = n + 128 - 256 * ((n + 128) \div 256) /\ (n + 128) \div 256 \in Int
    OBVIOUS
  <2> QED BY <2>1 DEF as_i8
<1>2. -as_i8(n) + 128 = (-n + 128) + 256 * k
  BY <1>1
<1>3. ASSUME NEW m \in Int PROVE (m + 256 * k) % 256 = m % 256
  OBVIOUS
<1> QED BY <1>2, <1>3 DEF as_i8

\* The vote of a device counts for its shares exactly when they fit.
LEMMA WorthWhenFits ==
  ASSUME IInv, NEW d \in Devices
  PROVE  /\ decisions[d] = Worth(d) <=> Fits(d)
         /\ Fits(d) => /\ decisions[d] > 0 <=> rows[d] = "accept"
                       /\ decisions[d] < 0 <=> rows[d] = "reject"
                       /\ rows[d] = "accept" => decisions[d] = shares[d]
                       /\ rows[d] = "reject" => -decisions[d] = shares[d]
<1>1. shares[d] \in Nat \ {0} /\ rows[d] \in {"accept", "reject", "none"}
  BY DEF IInv
<1>2. decisions[d] = CASE rows[d] = "accept" -> as_i8(shares[d])
                       [] rows[d] = "reject" -> as_i8(-shares[d])
                       [] rows[d] = "none" -> 0
  BY DEF IInv, VotesRestored, get_task_decisions
<1>3. as_i8(shares[d]) = shares[d] <=> shares[d] <= 127
  BY <1>1, CastFits
<1>4. as_i8(-shares[d]) = -shares[d] <=> shares[d] <= 128
  BY <1>1, CastFits
<1>5. CASE rows[d] = "accept"
  BY <1>1, <1>2, <1>3, <1>5 DEF Worth, Fits
<1>6. CASE rows[d] = "reject"
  BY <1>1, <1>2, <1>4, <1>6 DEF Worth, Fits
<1>7. CASE rows[d] = "none"
  BY <1>1, <1>2, <1>7 DEF Worth, Fits
<1> QED BY <1>1, <1>5, <1>6, <1>7

\* Nobody has voted at first.
LEMMA WidthInit == Init => IInv
<1> SUFFICES ASSUME Init PROVE IInv
  OBVIOUS
<1>1. shares \in [Devices -> Nat \ {0}]
  BY ZenonT(30), WidthAssumption DEF Init
<1> QED BY <1>1 DEF Init, IInv, VotesRestored, get_task_decisions

\* A vote is kept as the i8 that hydration will make of its row.
LEMMA DecideStep ==
  ASSUME IInv, NEW e \in Devices, NEW accept \in BOOLEAN, decide(e, accept)
  PROVE  IInv'
<1>1. /\ shares' = shares
      /\ rows' = [rows EXCEPT ![e] = IF accept THEN "accept" ELSE "reject"]
      /\ decisions' = [decisions EXCEPT ![e] = Vote(e, accept)]
  BY DEF decide
<1>2. /\ shares \in [Devices -> Nat \ {0}]
      /\ rows \in [Devices -> {"accept", "reject", "none"}]
      /\ decisions = get_task_decisions
  BY DEF IInv, VotesRestored
<1>3. rows' \in [Devices -> {"accept", "reject", "none"}]
  BY <1>1, <1>2
<1>4. decisions' = get_task_decisions'
  <2>1. Vote(e, accept) = IF accept THEN as_i8(shares[e]) ELSE as_i8(-shares[e])
    BY <1>2, CastNegated DEF Vote
  <2>2. get_task_decisions'[e] = Vote(e, accept)
    BY <1>1, <1>2, <2>1 DEF get_task_decisions
  <2>3. ASSUME NEW d \in Devices \ {e} PROVE get_task_decisions'[d] = decisions[d]
    BY <1>1, <1>2 DEF get_task_decisions
  <2> QED BY ZenonT(30), <1>1, <1>2, <2>2, <2>3 DEF get_task_decisions
<1> QED BY <1>1, <1>2, <1>3, <1>4 DEF IInv, VotesRestored

\* Hydration reads the votes that were there.
LEMMA HydrateStep ==
  ASSUME IInv, hydrate \/ UNCHANGED vars
  PROVE  IInv'
<1>1. UNCHANGED <<shares, rows, decisions>>
  BY DEF hydrate, vars, IInv, VotesRestored
<1> QED BY <1>1 DEF IInv, VotesRestored, get_task_decisions

\* The invariant holds in every reachable state.
LEMMA WidthInductive == Spec => []IInv
<1>1. IInv /\ [Next]_vars => IInv'
  BY DecideStep, HydrateStep DEF Next
<1> QED BY <1>1, WidthInit, PTL DEF Spec

-----------------------------------------------------------------------------
\* VotingTask and get_task_decisions come to the same i8 votes, for any number
\* of shares, also where the casts lose bits or the sign.
THEOREM RestoreSafety == Spec => []VotesRestored
<1>1. IInv => VotesRestored
  BY DEF IInv
<1> QED BY <1>1, WidthInductive, PTL

\* A vote counts for the shares of its device exactly up to 127 accepting or 128
\* rejecting shares, and within these limits the counts are those of the shares.
THEOREM CountSafety == Spec => []CountsShares
<1>1. ASSUME IInv PROVE CountsShares
  <2>1. get_task_decisions = decisions
    BY <1>1 DEF IInv, VotesRestored
  <2>2. \A d \in Devices : decisions[d] = Worth(d) <=> Fits(d)
    BY <1>1, WorthWhenFits
  <2>3. ASSUME \A d \in Devices : Fits(d)
        PROVE  /\ accepts(decisions) = SharesVoting("accept")
               /\ rejects(decisions) = SharesVoting("reject")
    <3>1. [d \in Devices |-> IF decisions[d] > 0 THEN decisions[d] ELSE 0]
            = [d \in Devices |-> IF rows[d] = "accept" THEN shares[d] ELSE 0]
      BY <1>1, <2>3, WorthWhenFits
    <3>2. [d \in Devices |-> IF decisions[d] < 0 THEN -decisions[d] ELSE 0]
            = [d \in Devices |-> IF rows[d] = "reject" THEN shares[d] ELSE 0]
      BY <1>1, <2>3, WorthWhenFits
    <3> QED BY <3>1, <3>2 DEF accepts, rejects, SharesVoting
  <2> QED BY <2>1, <2>2, <2>3 DEF CountsShares
<1> QED BY <1>1, WidthInductive, PTL

=============================================================================
