------------------------ MODULE ProtocolRoundsProofs ------------------------
(***************************************************************************)
(* Proofs about ProtocolRounds, for every number of devices, shares and    *)
(* rounds, and any number of attempts, faults and restarts.                *)
(***************************************************************************)
EXTENDS ProtocolRounds, TLAPS

\* The helper in the table is the one started for the attempt.
HelperCurrent == helper # NoHelper => helper.attempt = attempt

\* The stored round is the one in memory, unless finalize_task panicked or
\* failed; past the last round no update of the attempt is under way.
StoredRound ==
  result = "none" =>
    /\ stored = round \/ (round = last_round + 1 /\ stored = last_round)
    /\ round = last_round + 1 => \A u \in net : u.attempt # attempt

\* A device has at most one update of the attempt under way.
OneUpdate ==
  \A u, v \in net :
    result = "none" /\ u.attempt = attempt /\ v.attempt = attempt /\ u.device = v.device => u = v

IInv ==
  /\ TypeOK /\ RoundIntegrity /\ RelayComplete /\ AgreedResult /\ Underway
  /\ SignatureFits /\ HelperCurrent /\ StoredRound /\ OneUpdate

\* A device of the task has an index, and no index belongs to two devices
\* (identifier_to_indices).
LEMMA IndicesPartitioned ==
  /\ \A d \in Device : identifier_to_indices(d) \subseteq Indices
  /\ \A d \in Device : identifier_to_indices(d) # {}
  /\ \A d, e \in Device : d # e => identifier_to_indices(d) \cap identifier_to_indices(e) = {}
<1> USE RoundsAssumption
<1>1. \A d \in Device : identifier_to_indices(d) \subseteq Indices
  BY DEF identifier_to_indices, Indices
<1>2. ASSUME NEW d \in Device PROVE identifier_to_indices(d) # {}
  <2>1. PICK i \in DOMAIN active_shares : active_shares[i] = d
    BY DEF Device
  <2>2. i + index_offset \in identifier_to_indices(d)
    BY <2>1 DEF identifier_to_indices
  <2> QED BY <2>2
<1>3. ASSUME NEW d \in Device, NEW e \in Device, d # e,
             NEW x \in identifier_to_indices(d), x \in identifier_to_indices(e)
      PROVE  FALSE
  <2>1. PICK i \in DOMAIN active_shares : active_shares[i] = d /\ x = i + index_offset
    BY DEF identifier_to_indices
  <2>2. PICK j \in DOMAIN active_shares : active_shares[j] = e /\ x = j + index_offset
    BY <1>3 DEF identifier_to_indices
  <2>3. i \in Nat /\ j \in Nat /\ index_offset \in Nat
    OBVIOUS
  <2>4. i = j
    BY <2>1, <2>2, <2>3
  <2> QED BY <1>3, <2>1, <2>2, <2>4
<1> QED BY <1>1, <1>2, <1>3

\* receive_messages adds exactly the messages of the device's shares, or none.
LEMMA ReceiveAdds ==
  ASSUME TypeOK, NEW u \in net
  PROVE  /\ receive_messages(u) \subseteq Message
         /\ u.complete => {m.share : m \in receive_messages(u)}
                            = Received \cup identifier_to_indices(u.device)
         /\ ~u.complete => receive_messages(u) = input
         /\ \A m \in receive_messages(u) :
              \/ m \in input
              \/ m.attempt = u.attempt /\ m.round = u.round
<1>1. u.device \in Device /\ u.attempt \in Nat /\ u.round \in Nat /\ u.complete \in BOOLEAN
  BY DEF TypeOK
<1> DEFINE ids == identifier_to_indices(u.device)
           new == [share : ids, attempt : {u.attempt}, round : {u.round}]
<1>2. ids \subseteq Indices
  BY <1>1, IndicesPartitioned
<1>3. /\ u.complete => receive_messages(u) = {m \in input : m.share \notin ids} \cup new
      /\ ~u.complete => receive_messages(u) = input
  BY DEF receive_messages
<1>4. new \subseteq Message
  BY <1>1, <1>2 DEF Message
<1>5. \A m \in new : m.share \in ids /\ m.attempt = u.attempt /\ m.round = u.round
  OBVIOUS
<1>6. \A i \in ids : [share |-> i, attempt |-> u.attempt, round |-> u.round] \in new
  OBVIOUS
<1> HIDE DEF ids, new
<1>7. ASSUME u.complete PROVE {m.share : m \in receive_messages(u)} = Received \cup ids
  <2>1. ASSUME NEW i \in ids PROVE \E m \in receive_messages(u) : m.share = i
    <3> DEFINE m == [share |-> i, attempt |-> u.attempt, round |-> u.round]
    <3>1. m \in receive_messages(u) /\ m.share = i
      BY <1>3, <1>6, <1>7
    <3> QED BY <3>1
  <2>2. ASSUME NEW m \in input PROVE \E n \in receive_messages(u) : n.share = m.share
    BY <1>3, <1>7, <2>1
  <2>3. ASSUME NEW m \in receive_messages(u) PROVE m.share \in Received \cup ids
    BY <1>3, <1>5, <1>7 DEF Received
  <2> QED BY <2>1, <2>2, <2>3 DEF Received
<1>8. CASE u.complete
  BY <1>3, <1>4, <1>5, <1>7, <1>8 DEF ids, TypeOK
<1>9. CASE ~u.complete
  BY <1>3, <1>9 DEF TypeOK
<1> QED BY <1>1, <1>8, <1>9

\* The outgoing buffers are always well formed, whether filled by send_all or
\* empty after hydration.
LEMMA FilledType ==
  ASSUME NEW kind \in {"empty", "certificates", "init"}
  PROVE  /\ Filled(kind) \in [Indices -> [kind : {"empty", "certificates", "init", "relay"},
                                          from : SUBSET Message]]
         /\ \A i \in Indices : Filled(kind)[i].kind # "relay"
BY DEF Filled

\* In the current attempt, once an update completes a round none is under way
\* any more: every device has answered, and answers only once.
LEMMA RoundOver ==
  ASSUME IInv, NEW u \in net, Completes(u)
  PROVE  \A v \in net \ {u} : v.attempt < attempt
<1> SUFFICES ASSUME NEW v \in net \ {u}, ~(v.attempt < attempt) PROVE FALSE
  OBVIOUS
<1>1. /\ v.device \in Device /\ v.attempt \in Nat
      /\ u.device \in Device /\ attempt \in Nat /\ u.complete \in BOOLEAN
  BY DEF IInv, TypeOK
<1>2. v.attempt = attempt /\ u.attempt = attempt /\ result = "none"
  BY <1>1 DEF IInv, Underway, Accepts, Completes
<1>3. identifier_to_indices(v.device) \cap Received = {}
  BY <1>2 DEF IInv, Underway
<1>4. v.device # u.device
  BY <1>2 DEF IInv, OneUpdate
<1>5. {m.share : m \in receive_messages(u)} = Indices
  BY DEF Completes, round_received
<1>6. u.complete
  <2>1. SUFFICES ASSUME ~u.complete PROVE FALSE
    OBVIOUS
  <2>2. receive_messages(u) = input
    BY <2>1, ReceiveAdds DEF IInv
  <2>3. Received = Indices
    BY <1>5, <2>2 DEF Received
  <2> QED BY <1>1, <2>3, IndicesPartitioned DEF Completes, Accepts, waiting_for
<1>7. Received \cup identifier_to_indices(u.device) = Indices
  BY <1>5, <1>6, ReceiveAdds DEF IInv
<1> QED BY <1>1, <1>3, <1>4, <1>7, IndicesPartitioned

\* An accepted update brings messages of the current round.
LEMMA ReceiveCurrent ==
  ASSUME IInv, NEW u \in net, Accepts(u)
  PROVE  /\ round <= last_round
         /\ \A m \in receive_messages(u) : m.attempt = attempt /\ m.round = round
<1>1. u.attempt = attempt /\ u.round = round
  BY DEF IInv, Underway, Accepts
<1>2. round <= last_round
  <2>1. round # last_round + 1
    BY <1>1 DEF IInv, StoredRound, Accepts
  <2> QED BY <2>1, RoundsAssumption DEF IInv, TypeOK
<1> QED BY <1>1, <1>2, ReceiveAdds DEF IInv, RoundIntegrity

\* With empty incoming buffers and no update of the current attempt under way,
\* nothing is left to show about the messages.
LEMMA FreshBuffers ==
  ASSUME input' = {}, attempt' \in Nat, net' \subseteq net, TypeOK,
         \A v \in net' : v.attempt < attempt'
  PROVE  RoundIntegrity' /\ Underway' /\ OneUpdate'
<1>1. Received' = {}
  BY DEF Received
<1>2. \A v \in net' : v.attempt \in Nat
  BY DEF TypeOK
<1> QED BY <1>1, <1>2 DEF RoundIntegrity, Underway, OneUpdate, identifier_to_indices

\* The initial state of a running task.
LEMMA RoundsInit == Init => IInv
<1> SUFFICES ASSUME Init PROVE IInv
  OBVIOUS
<1> USE RoundsAssumption
<1>1. output \in [Indices -> [kind : {"empty", "certificates", "init", "relay"},
                              from : SUBSET Message]]
      /\ \A i \in Indices : output[i].kind # "relay"
  BY FilledType DEF Init
<1>2. /\ pdf \in BOOLEAN /\ group \in BOOLEAN /\ attempt = 0
      /\ helper \in Helper \cup {NoHelper}
      /\ HelperCurrent
  BY ZenonT(30) DEF Init, Helper, NoHelper, HelperCurrent
<1>p. poisoned \in BOOLEAN
  BY ZenonT(30) DEF Init
<1>r. /\ round \in 0 .. last_round + 1 /\ stored \in 0 .. last_round + 1
      /\ input = {} /\ net = {} /\ faults \in Nat /\ result = "none"
      /\ answered = [d \in Device |-> <<>>]
  BY DEF Init
<1>3. TypeOK
  BY <1>1, <1>2, <1>p, <1>r DEF TypeOK
<1>4. Received = {}
  BY DEF Init, Received
<1> QED BY <1>1, <1>2, <1>3, <1>4 DEF Init, IInv, RoundIntegrity, RelayComplete, AgreedResult,
                                   Underway, SignatureFits, StoredRound, OneUpdate

\* A poll answers a round that the device has not answered.
LEMMA PollStep == ASSUME IInv, NEW d \in Device, Poll(d) PROVE IInv'
<1>0. PICK complete \in BOOLEAN :
        /\ net' = net \cup {[device |-> d, attempt |-> attempt, round |-> round,
                             complete |-> complete]}
        /\ IF complete THEN UNCHANGED faults ELSE Fault
  BY DEF Poll
<1> DEFINE u == [device |-> d, attempt |-> attempt, round |-> round, complete |-> complete]
<1>1. round \in Nat /\ attempt \in Nat /\ faults' \in Nat
  BY <1>0, RoundsAssumption DEF IInv, TypeOK, Fault
<1>2. /\ UNCHANGED <<attempt, round, input, output, result, stored, pdf, group, helper, poisoned>>
      /\ answered' = [answered EXCEPT ![d] = [attempt |-> attempt, round |-> round]]
      /\ HasWork(d)
  BY DEF Poll, helpers
<1>n. net' = net \cup {u} /\ u.device = d /\ u.attempt = attempt /\ u.round = round
  BY <1>0
<1>3. Received' = Received
  BY <1>2 DEF Received
<1>4. TypeOK'
  BY <1>1, <1>2, <1>n DEF IInv, TypeOK
<1> HIDE DEF u
<1>5. Underway'
  <2>1. answered'[d] = [attempt |-> attempt, round |-> round]
    BY <1>2 DEF IInv, TypeOK
  <2>2. identifier_to_indices(d) \cap Received = {}
    BY <1>2 DEF HasWork, waiting_for, IInv, Underway
  <2>3. ASSUME NEW v \in net, v.attempt = attempt, result = "none"
        PROVE  /\ v.round = round
               /\ answered'[v.device] = [attempt |-> attempt, round |-> round]
               /\ identifier_to_indices(v.device) \cap Received = {}
    BY <1>2, <2>1, <2>3 DEF IInv, Underway, TypeOK
  <2> QED BY <1>1, <1>2, <1>3, <1>n, <2>1, <2>2, <2>3 DEF IInv, Underway, identifier_to_indices
<1>6. OneUpdate'
  <2>1. \A v \in net : v.attempt = attempt /\ result = "none" => v.device # d
    BY <1>2 DEF IInv, Underway, HasWork
  <2> QED BY <1>2, <1>n, <2>1 DEF IInv, OneUpdate
<1>7. StoredRound'
  <2>1. round <= last_round
    BY <1>2 DEF HasWork
  <2>2. result = "none" => stored = round
    BY <1>1, <2>1, RoundsAssumption DEF IInv, StoredRound
  <2>3. round # last_round + 1
    BY <1>1, <2>1, RoundsAssumption
  <2> QED BY <1>2, <2>2, <2>3 DEF StoredRound
<1> QED BY <1>2, <1>4, <1>5, <1>6, <1>7 DEF IInv, RoundIntegrity, RelayComplete, AgreedResult,
                                          SignatureFits, HelperCurrent

\* An update that is refused, dropped or lost leaves the task alone, and so do
\* a helper that dies and a mutex that is poisoned.
LEMMA DropStep ==
  ASSUME IInv, net' \subseteq net, faults' \in Nat,
         UNCHANGED <<attempt, round, input, output, result, answered, stored, pdf, group>>,
         helper' \in Helper \cup {NoHelper}, HelperCurrent', poisoned' \in BOOLEAN
  PROVE  IInv'
<1>1. Received' = Received
  BY DEF Received
<1>2. TypeOK'
  BY DEF IInv, TypeOK
<1>3. Underway' /\ OneUpdate' /\ StoredRound'
  BY <1>1 DEF IInv, Underway, OneUpdate, StoredRound, identifier_to_indices
<1> QED BY <1>2, <1>3 DEF IInv, RoundIntegrity, RelayComplete, AgreedResult, SignatureFits

\* An update that does not complete the round.
LEMMA ListenStep ==
  ASSUME IInv, NEW u \in net, Listen(u), net' = net \ {u}, UNCHANGED <<answered, faults>>
  PROVE  IInv'
<1>1. /\ Accepts(u)
      /\ input' = receive_messages(u)
      /\ UNCHANGED <<attempt, round, output, result, stored, pdf, group, helper, poisoned>>
  BY DEF Listen, helpers
<1>h. helper' \in Helper \cup {NoHelper} /\ HelperCurrent' /\ poisoned' \in BOOLEAN
  BY <1>1 DEF IInv, TypeOK, HelperCurrent
<1>c. CASE ~u.complete
  <2>1. input' = input
    BY <1>1, <1>c, ReceiveAdds DEF IInv
  <2>2. faults' \in Nat
    BY DEF IInv, TypeOK
  <2> QED BY <1>1, <1>h, <2>1, <2>2, DropStep
<1>d. CASE u.complete
  <2>1. Received' = Received \cup identifier_to_indices(u.device)
    <3>1. Received' = {m.share : m \in receive_messages(u)}
      BY <1>1 DEF Received
    <3> QED BY <1>d, <3>1, ReceiveAdds DEF IInv
  <2>2. TypeOK'
    BY <1>1, ReceiveAdds DEF IInv, TypeOK
  <2>3. RoundIntegrity'
    BY <1>1, ReceiveCurrent DEF RoundIntegrity
  <2>4. Underway'
    <3>1. u.device \in Device /\ u.attempt = attempt
      BY <1>1 DEF IInv, TypeOK, Accepts
    <3>2. ASSUME NEW v \in net', v.attempt = attempt, result = "none"
          PROVE  identifier_to_indices(v.device) \cap Received' = {}
      <4>1. v \in net /\ v # u /\ v.device \in Device
        BY DEF IInv, TypeOK
      <4>2. identifier_to_indices(v.device) \cap Received = {}
        BY <3>2, <4>1 DEF IInv, Underway
      <4>3. v.device # u.device
        BY <3>1, <3>2, <4>1 DEF IInv, OneUpdate
      <4> QED BY <2>1, <3>1, <4>1, <4>2, <4>3, IndicesPartitioned
    <3>3. ASSUME NEW d \in Device
          PROVE  \/ identifier_to_indices(d) \subseteq Received'
                 \/ identifier_to_indices(d) \cap Received' = {}
      BY <2>1, <3>1, IndicesPartitioned DEF IInv, Underway
    <3> QED BY <1>1, <3>2, <3>3 DEF IInv, Underway, identifier_to_indices
  <2>5. OneUpdate' /\ StoredRound'
    BY <1>1 DEF IInv, OneUpdate, StoredRound
  <2> QED BY <1>1, <1>h, <2>2, <2>3, <2>4, <2>5 DEF IInv, RelayComplete, AgreedResult,
                                                  SignatureFits
<1> QED BY <1>c, <1>d DEF IInv, TypeOK

\* The incoming buffers are emptied and the outgoing ones filled or lost, at
\* the end of a round or at the start of an attempt.
LEMMA RefillStep ==
  ASSUME IInv, input' = {}, net' \subseteq net, UNCHANGED <<result, answered, pdf, group>>,
         attempt' \in Nat, round' \in 0 .. last_round + 1, stored' = round', faults' \in Nat,
         NEW kind \in {"empty", "certificates", "init"}, output' = Filled(kind),
         \A v \in net' : v.attempt < attempt',
         helper' \in Helper \cup {NoHelper}, HelperCurrent', poisoned' \in BOOLEAN
  PROVE  IInv'
<1>1. output' \in [Indices -> [kind : {"empty", "certificates", "init", "relay"},
                               from : SUBSET Message]]
  BY FilledType
<1>2. TypeOK'
  BY <1>1 DEF IInv, TypeOK
<1>3. RelayComplete'
  BY FilledType DEF RelayComplete
<1>4. RoundIntegrity' /\ Underway' /\ OneUpdate'
  BY FreshBuffers DEF IInv
<1> QED BY <1>2, <1>3, <1>4 DEF IInv, AgreedResult, SignatureFits, StoredRound

\* An update that completes a round other than the last one.
LEMMA AdvanceStep ==
  ASSUME IInv, NEW u \in net, AdvanceTask(u), net' = net \ {u}, UNCHANGED <<answered, faults>>
  PROVE  IInv'
<1>1. /\ Completes(u) /\ Accepts(u)
      /\ round > 0 /\ round < last_round
      /\ round' = round + 1 /\ stored' = round + 1
      /\ output' = relay(receive_messages(u))
      /\ input' = {}
      /\ UNCHANGED <<attempt, result, pdf, group, helper, poisoned>>
  BY DEF AdvanceTask, Completes, helpers
<1>2. attempt' \in Nat /\ round \in Nat /\ round' \in 0 .. last_round + 1
  BY <1>1, RoundsAssumption DEF IInv, TypeOK
<1>3. \A v \in net' : v.attempt < attempt'
  BY <1>1, RoundOver
<1>4. RoundIntegrity' /\ Underway' /\ OneUpdate'
  BY <1>1, <1>2, <1>3, FreshBuffers DEF IInv
<1>5. receive_messages(u) \subseteq Message
      /\ \A m \in receive_messages(u) : m.attempt = attempt /\ m.round = round
  BY <1>1, ReceiveAdds, ReceiveCurrent DEF IInv
<1>6. TypeOK'
  BY <1>1, <1>2, <1>5 DEF IInv, TypeOK, relay
<1>7. RelayComplete'
  <2> SUFFICES ASSUME NEW i \in Indices
               PROVE  /\ {m.share : m \in output'[i].from} = Indices \ {i}
                      /\ \A m \in output'[i].from : m.attempt = attempt' /\ m.round = round' - 1
    BY DEF RelayComplete
  <2>1. output'[i].from = {m \in receive_messages(u) : m.share # i}
    BY <1>1 DEF relay
  <2>2. {m.share : m \in receive_messages(u)} = Indices
    BY <1>1 DEF Completes, round_received
  <2>3. {m.share : m \in output'[i].from} = Indices \ {i}
    BY <2>1, <2>2
  <2>4. round' - 1 = round /\ attempt' = attempt
    BY <1>1, <1>2
  <2> QED BY <1>5, <2>1, <2>3, <2>4
<1>8. StoredRound'
  <2>1. round' # last_round + 1
    BY <1>1, <1>2, RoundsAssumption
  <2> QED BY <1>1, <2>1 DEF StoredRound
<1> QED BY <1>1, <1>4, <1>6, <1>7, <1>8 DEF IInv, AgreedResult, SignatureFits, HelperCurrent

\* The update that completes the last round.
LEMMA FinalizeStep ==
  ASSUME IInv, NEW u \in net, FinalizeTask(u), net' = net \ {u}, UNCHANGED <<answered, faults>>
  PROVE  IInv'
<1>1. /\ Completes(u) /\ Accepts(u)
      /\ round = last_round
      /\ NeedsHelper(u) => HelperUsable
      /\ round' = round + 1 /\ stored' = round + 1
      /\ result' = IF NeedsHelper(u) THEN include_signature
                   ELSE get_final_message(receive_messages(u))
      /\ helper' = IF NeedsHelper(u) THEN NoHelper ELSE helper
      /\ input' = {}
      /\ UNCHANGED <<attempt, output, pdf, group, poisoned>>
  BY DEF FinalizeTask, Completes
<1>2. attempt' \in Nat /\ round' \in 0 .. last_round + 1
  BY <1>1, RoundsAssumption DEF IInv, TypeOK
<1>3. \A v \in net' : v.attempt < attempt'
  BY <1>1, RoundOver
<1>4. RoundIntegrity' /\ Underway' /\ OneUpdate'
  BY <1>1, <1>2, <1>3, FreshBuffers DEF IInv
<1>5. get_final_message(receive_messages(u)) = "value"
  BY <1>1, ReceiveCurrent DEF get_final_message
<1>6. NeedsHelper(u) => helper.attempt = attempt
  BY <1>1 DEF IInv, HelperCurrent, HelperUsable, NeedsHelper
<1>7. result' = "value"
  BY <1>1, <1>5, <1>6 DEF include_signature
<1>8. TypeOK'
  BY <1>1, <1>2, <1>7 DEF IInv, TypeOK
<1> QED BY <1>1, <1>4, <1>7, <1>8 DEF IInv, RelayComplete, AgreedResult, SignatureFits,
                                     HelperCurrent, StoredRound

\* The same for a PDF task without a helper that can be used.
LEMMA PanicStep ==
  ASSUME IInv, NEW u \in net, FinalizePanics(u), net' = net \ {u}, UNCHANGED <<answered, faults>>
  PROVE  IInv'
<1>1. /\ Completes(u)
      /\ round = last_round
      /\ round' = round + 1
      /\ input' = {}
      /\ poisoned' = (poisoned \/ helper = NoHelper)
      /\ helper' \in {helper, NoHelper}
      /\ UNCHANGED <<attempt, output, result, stored, pdf, group>>
  BY DEF FinalizePanics
<1>2. attempt' \in Nat /\ round' \in 0 .. last_round + 1 /\ round' > last_round
  BY <1>1, RoundsAssumption DEF IInv, TypeOK
<1>3. \A v \in net' : v.attempt < attempt'
  BY <1>1, RoundOver
<1>4. RoundIntegrity' /\ Underway' /\ OneUpdate'
  BY <1>1, <1>2, <1>3, FreshBuffers DEF IInv
<1>5. TypeOK'
  BY <1>1, <1>2 DEF IInv, TypeOK
<1>6. StoredRound'
  <2>1. result = "none" => stored = last_round
    BY <1>1, RoundsAssumption DEF IInv, StoredRound
  <2>2. \A v \in net' : v.attempt # attempt'
    BY <1>2, <1>3 DEF IInv, TypeOK
  <2> QED BY <1>1, <2>1, <2>2 DEF StoredRound
<1>7. ~(round' <= last_round)
  BY <1>2, RoundsAssumption
<1> QED BY <1>1, <1>4, <1>5, <1>6, <1>7 DEF IInv, RelayComplete, AgreedResult, SignatureFits,
                                          HelperCurrent

\* The same for a group without a certificate.
LEMMA CertificateStep == ASSUME IInv, NEW u \in net, CertificateFails(u) PROVE IInv'
<1>1. /\ Completes(u) /\ Accepts(u)
      /\ round = last_round
      /\ round' = round + 1 /\ round' = last_round + 1
      /\ input' = receive_messages(u)
      /\ net' = net \ {u} /\ faults' = faults + 1
      /\ UNCHANGED <<attempt, output, result, answered, stored, pdf, group, helper, poisoned>>
  BY DEF CertificateFails, Completes, Fault, helpers
<1>2. /\ attempt \in Nat /\ round' \in 0 .. last_round + 1 /\ ~(round' <= last_round)
      /\ faults' \in Nat
  BY <1>1, RoundsAssumption DEF IInv, TypeOK
<1>3. \A v \in net' : v.attempt < attempt /\ v.attempt # attempt
  BY <1>1, <1>2, RoundOver DEF IInv, TypeOK
<1>4. Received' = Indices
  BY <1>1 DEF Received, Completes, round_received
<1>5. TypeOK'
  BY <1>1, <1>2, ReceiveAdds DEF IInv, TypeOK
<1>6. RoundIntegrity'
  BY <1>1, <1>2, ReceiveCurrent DEF RoundIntegrity
<1>7. Underway'
  BY <1>1, <1>2, <1>3, <1>4, IndicesPartitioned DEF IInv, Underway, TypeOK, identifier_to_indices
<1>8. StoredRound'
  <2>1. result = "none" => stored = last_round
    BY <1>1, RoundsAssumption DEF IInv, StoredRound
  <2> QED BY <1>1, <1>3, <2>1 DEF StoredRound
<1>9. OneUpdate' /\ RelayComplete'
  BY <1>1, <1>2, <1>3 DEF OneUpdate, RelayComplete
<1> QED BY <1>1, <1>5, <1>6, <1>7, <1>8, <1>9 DEF IInv, AgreedResult, SignatureFits, HelperCurrent

\* The process stops between requests: the updates under way are still of the
\* round it comes back to.
LEMMA CrashStep == ASSUME IInv, Crash PROVE IInv'
<1>1. /\ input' = {} /\ output' = Filled("empty") /\ faults' \in Nat
      /\ helper' = NoHelper /\ poisoned' = FALSE
      /\ result = "none" /\ round' = stored
      /\ UNCHANGED <<attempt, result, answered, net, pdf, group, stored>>
  BY DEF Crash, Fault, Rehydrate, IInv, TypeOK
<1>2. Received' = {}
  BY <1>1 DEF Received
<1>3. TypeOK'
  BY ZenonT(30), <1>1, FilledType DEF IInv, TypeOK
<1>4. \A v \in net : v.attempt = attempt => round' = round
  BY <1>1 DEF IInv, StoredRound
<1>5. Underway'
  BY <1>1, <1>2, <1>4 DEF IInv, Underway, identifier_to_indices
<1>6. RelayComplete'
  BY <1>1, FilledType DEF RelayComplete
<1> QED BY <1>1, <1>3, <1>5, <1>6 DEF IInv, RoundIntegrity, AgreedResult, SignatureFits,
                                     HelperCurrent, StoredRound, OneUpdate

\* The timer begins a new attempt, or the process stops while it does.
LEMMA RestartStep == ASSUME IInv, restart \/ RestartPanics \/ CrashInRestart PROVE IInv'
<1> USE RoundsAssumption
<1>1. /\ attempt \in Nat /\ attempt' = attempt + 1
      /\ faults' \in Nat /\ stored \in 0 .. last_round + 1
      /\ \A v \in net : v.attempt \in Nat /\ v.attempt <= attempt
      /\ net' = net /\ UNCHANGED <<answered, pdf, group>>
      /\ input' = {}
  BY DEF restart, RestartPanics, CrashInRestart, Rehydrate, Fault, IInv, TypeOK, Underway
<1>2. \A v \in net' : v.attempt < attempt'
  BY <1>1
<1>3. CASE RestartPanics \/ CrashInRestart
  <2>1. /\ output' = Filled("empty") /\ round' = stored /\ stored' = stored
        /\ helper' = NoHelper /\ poisoned' = FALSE /\ UNCHANGED result
    BY <1>3 DEF RestartPanics, CrashInRestart, Rehydrate
  <2>2. helper' \in Helper \cup {NoHelper} /\ HelperCurrent' /\ poisoned' \in BOOLEAN
    BY ZenonT(30), <2>1 DEF HelperCurrent
  <2>3. attempt' \in Nat
    BY <1>1
  <2> QED BY <1>1, <1>2, <2>1, <2>2, <2>3, RefillStep
<1>4. CASE restart
  <2>1. poisoned' = poisoned /\ poisoned \in BOOLEAN /\ attempt' \in Nat
    BY <1>1, <1>4 DEF restart, IInv, TypeOK
  <2>2. CASE UNCHANGED result
    <3>1. /\ round' = 1 /\ stored' = 1 /\ output' = Filled("init")
          /\ helper' = IF pdf THEN [attempt |-> attempt + 1, alive |-> TRUE] ELSE NoHelper
      BY <1>4, <2>2 DEF restart, Stale
    <3>2. helper' \in Helper \cup {NoHelper} /\ HelperCurrent'
      BY <1>1, <3>1 DEF Helper, NoHelper, HelperCurrent
    <3> QED BY <1>1, <1>2, <2>1, <2>2, <3>1, <3>2, RefillStep
  <2>3. CASE ~UNCHANGED result
    <3>1. result' = "error" /\ helper' = NoHelper /\ UNCHANGED <<round, stored, output>>
      BY <1>4, <2>3 DEF restart
    <3>2. TypeOK'
      BY <1>1, <2>1, <3>1 DEF IInv, TypeOK
    <3>3. RoundIntegrity' /\ Underway' /\ OneUpdate'
      BY <1>1, <1>2, <2>1, FreshBuffers DEF IInv
    <3> QED BY <3>1, <3>2, <3>3 DEF IInv, RelayComplete, AgreedResult, SignatureFits,
                                   HelperCurrent, StoredRound
  <2> QED BY <2>2, <2>3
<1> QED BY <1>3, <1>4

\* Every step of the server, the devices and the network keeps IInv.
LEMMA RoundsNext == IInv /\ [Next]_vars => IInv'
<1> SUFFICES ASSUME IInv, [Next]_vars PROVE IInv'
  OBVIOUS
<1> USE RoundsAssumption
<1>t. /\ attempt \in Nat /\ round \in 0 .. last_round + 1 /\ faults \in Nat
      /\ helper \in Helper \cup {NoHelper} /\ poisoned \in BOOLEAN
  BY DEF IInv, TypeOK
<1>h. UNCHANGED <<attempt, helper>> => helper' \in Helper \cup {NoHelper} /\ HelperCurrent'
  BY <1>t DEF IInv, HelperCurrent
<1>1. ASSUME NEW d \in Device, Poll(d) PROVE IInv'
  BY <1>1, PollStep
<1>2. ASSUME NEW u \in net, update_task(u) PROVE IInv'
  <2>1. CASE Refuse(u)
    <3>1. /\ net' \subseteq net /\ faults' \in Nat
          /\ UNCHANGED <<attempt, round, input, output, result, answered, stored, pdf, group,
                         helper, poisoned>>
      BY <1>2, <1>t, <2>1 DEF update_task, Refuse, Fault, helpers
    <3> QED BY <1>t, <1>h, <3>1, DropStep
  <2>2. CASE ~Refuse(u)
    <3>1. net' = net \ {u} /\ UNCHANGED <<answered, faults>>
      BY <1>2, <2>2 DEF update_task
    <3>2. CASE Listen(u)
      BY <3>1, <3>2, ListenStep
    <3>3. CASE StartTask(u)
      <4>1. \A v \in net' : v.attempt < attempt'
        BY <3>1, <3>3, RoundOver DEF StartTask
      <4> QED BY <1>t, <1>h, <3>1, <3>3, <4>1, RefillStep DEF StartTask, helpers
    <3>4. CASE AdvanceTask(u)
      BY <3>1, <3>4, AdvanceStep
    <3>5. CASE FinalizeTask(u)
      BY <3>1, <3>5, FinalizeStep
    <3>6. CASE FinalizePanics(u)
      BY <3>1, <3>6, PanicStep
    <3> QED BY <1>2, <2>2, <3>2, <3>3, <3>4, <3>5, <3>6 DEF update_task
  <2> QED BY <2>1, <2>2
<1>3. CASE restart \/ RestartPanics \/ CrashInRestart
  BY <1>3, RestartStep
<1>4. CASE Crash
  BY <1>4, CrashStep
<1>5. ASSUME NEW u \in net, CrashInFinalize(u) PROVE IInv'
  <2>1. \A v \in net' : v.attempt < attempt'
    BY <1>5, RoundOver DEF CrashInFinalize
  <2>2. helper' \in Helper \cup {NoHelper} /\ HelperCurrent' /\ poisoned' \in BOOLEAN
    BY ZenonT(30), <1>5 DEF CrashInFinalize, Rehydrate, HelperCurrent
  <2> QED BY <1>5, <1>t, <2>1, <2>2, RefillStep DEF CrashInFinalize, Rehydrate, Fault
<1>6. CASE Lose
  BY <1>6, <1>t, <1>h, DropStep DEF Lose, Fault, helpers
<1>7. CASE HelperDies
  <2>1. helper' \in Helper \cup {NoHelper} /\ HelperCurrent'
    BY ZenonT(30), <1>7, <1>t DEF HelperDies, Helper, NoHelper, HelperCurrent, IInv
  <2> QED BY <1>7, <1>t, <2>1, DropStep DEF HelperDies, Fault
<1>8. CASE OtherPanics
  BY <1>8, <1>t, <1>h, DropStep DEF OtherPanics, Fault
<1>9. CASE UNCHANGED vars
  BY <1>9, <1>t, <1>h, DropStep DEF vars, helpers
<1>10. ASSUME NEW u \in net, CertificateFails(u) PROVE IInv'
  BY <1>10, CertificateStep
<1> QED BY <1>1, <1>2, <1>3, <1>4, <1>5, <1>6, <1>7, <1>8, <1>9, <1>10 DEF Next, Over

\* The inductive invariant holds in every behaviour.
LEMMA RoundsInductive == Spec => []IInv
BY RoundsInit, RoundsNext, PTL DEF Spec

\* update_task compares only the attempt, yet no message of another round gets
\* into the incoming buffers, for any devices, shares, rounds and losses.
THEOREM RoundSafety == Spec => []RoundIntegrity
<1>1. IInv => RoundIntegrity
  BY DEF IInv
<1> QED BY <1>1, RoundsInductive, PTL

\* relay gives every share one message of each other active share, of the round
\* just completed.
THEOREM RelaySafety == Spec => []RelayComplete
<1>1. IInv => RelayComplete
  BY DEF IInv
<1> QED BY <1>1, RoundsInductive, PTL

\* get_final_message never meets last messages of different attempts or rounds.
THEOREM ResultSafety == Spec => []AgreedResult
<1>1. IInv => AgreedResult
  BY DEF IInv
<1> QED BY <1>1, RoundsInductive, PTL

\* The variables of the task, the devices and the helper keep their types.
THEOREM RoundsTypeCorrect == Spec => []TypeOK
<1>1. IInv => TypeOK
  BY DEF IInv
<1> QED BY <1>1, RoundsInductive, PTL

\* What is under way belongs to the round and to devices that are waited for.
THEOREM UnderwaySafety == Spec => []Underway
<1>1. IInv => Underway
  BY DEF IInv
<1> QED BY <1>1, RoundsInductive, PTL

\* include_signature never puts a signature into a document that was hashed in
\* another attempt, whatever helpers die and panics and restarts there are.
THEOREM SignatureSafety == Spec => []SignatureFits
<1>1. IInv => SignatureFits
  BY DEF IInv
<1> QED BY <1>1, RoundsInductive, PTL

-----------------------------------------------------------------------------
(***************************************************************************)
(* On track                                                                *)
(***************************************************************************)
\* Most of the steps below need no arithmetic.
USE Zenon

\* No device is ahead of the server: what it answered last is of an earlier
\* attempt, or of a round that the attempt has reached.
AnswersPast ==
  \A d \in Device :
    answered[d] # <<>> =>
      /\ answered[d].attempt <= attempt
      /\ answered[d].round <= last_round
      /\ answered[d].attempt = attempt /\ result = "none" => answered[d].round <= round

\* A round that goes on lacks a message: update_task ends a round with its last.
StillWaiting == result = "none" /\ round <= last_round => Received # Indices

TrackInv == IInv /\ AnswersPast /\ StillWaiting

\* The initial state of a running task.
LEMMA TrackInit == Init => TrackInv
<1> SUFFICES ASSUME Init PROVE TrackInv
  OBVIOUS
<1>1. AnswersPast
  BY DEF Init, AnswersPast
<1>2. Received = {} /\ Indices # {}
  BY RoundsAssumption DEF Init, Received, Indices
<1> QED BY <1>1, <1>2, RoundsInit DEF TrackInv, StillWaiting

\* Where a step that is not a poll takes the attempt and the round.
LEMMA RoundMoves ==
  ASSUME IInv, [Next]_vars
  PROVE  \/ \E d \in Device : Poll(d)
         \/ /\ answered' = answered
            /\ \/ attempt' = attempt + 1
               \/ /\ attempt' = attempt
                  /\ \/ round' \in {round, round + 1, last_round}
                     \/ result' # "none"
                  /\ result = "none" \/ result' = result
<1>1. ASSUME NEW u \in net, update_task(u)
      PROVE  /\ answered' = answered /\ attempt' = attempt
             /\ round' \in {round, round + 1}
             /\ result = "none" \/ result' = result
  <2>1. round = 0 => 1 = round + 1
    BY SMT DEF IInv, TypeOK
  <2>2. Completes(u) => result = "none"
    BY DEF Completes, Accepts
  <2>3. CASE Refuse(u) \/ Listen(u)
    BY <1>1, <2>3 DEF update_task, Refuse, Listen
  <2>4. CASE StartTask(u) \/ AdvanceTask(u)
    BY <1>1, <2>1, <2>4 DEF update_task, StartTask, AdvanceTask
  <2>5. CASE FinalizeTask(u) \/ FinalizePanics(u)
    BY <1>1, <2>2, <2>5 DEF update_task, FinalizeTask, FinalizePanics
  <2> QED BY <1>1, <2>3, <2>4, <2>5 DEF update_task
<1>2. CASE restart \/ RestartPanics \/ CrashInRestart
  BY <1>2 DEF restart, RestartPanics, CrashInRestart, Rehydrate
<1>3. CASE Crash
  BY <1>3 DEF Crash, Rehydrate, IInv, StoredRound
<1>4. ASSUME NEW u \in net, CrashInFinalize(u)
      PROVE  answered' = answered /\ attempt' = attempt /\ round' = round + 1 /\ result' = result
  BY <1>4 DEF CrashInFinalize, Rehydrate
<1>5. CASE Lose \/ HelperDies \/ OtherPanics
  BY <1>5 DEF Lose, HelperDies, OtherPanics
<1>6. CASE UNCHANGED vars
  BY <1>6 DEF vars
<1>7. ASSUME NEW u \in net, CertificateFails(u)
      PROVE  answered' = answered /\ attempt' = attempt /\ round' = round + 1 /\ result' = result
  BY <1>7 DEF CertificateFails
<1> QED BY <1>1, <1>2, <1>3, <1>4, <1>5, <1>6, <1>7 DEF Next, Over

\* A device answers the round it is shown, and the server only goes forward: to
\* a new attempt, to the next round, or back to the last one.
LEMMA AnswersPastStep == ASSUME TrackInv, [Next]_vars PROVE AnswersPast'
<1> USE RoundsAssumption
<1>1. /\ attempt \in Nat /\ round \in Nat
      /\ answered \in [Device -> [attempt : Nat, round : Nat] \cup {<<>>}]
  BY SMT DEF TrackInv, IInv, TypeOK
<1>2. ASSUME NEW d \in Device, answered[d] # <<>>
      PROVE  /\ answered[d].attempt \in Nat /\ answered[d].round \in Nat
             /\ answered[d].attempt <= attempt
             /\ answered[d].round <= last_round
             /\ answered[d].attempt = attempt /\ result = "none" => answered[d].round <= round
  BY <1>1, <1>2 DEF TrackInv, AnswersPast
<1>3. ASSUME NEW e \in Device, Poll(e) PROVE AnswersPast'
  <2>1. /\ UNCHANGED <<attempt, round, result>> /\ round <= last_round
        /\ answered' = [answered EXCEPT ![e] = [attempt |-> attempt, round |-> round]]
    BY <1>3 DEF Poll, HasWork
  <2>2. ASSUME NEW d \in Device, d # e PROVE answered'[d] = answered[d]
    BY <1>1, <2>1, <2>2
  <2>3. answered'[e] = [attempt |-> attempt, round |-> round]
    BY <1>1, <2>1
  <2> QED BY SMT, <1>1, <1>2, <2>1, <2>2, <2>3 DEF AnswersPast
<1>4. CASE answered' = answered /\ attempt' = attempt + 1
  BY SMT, <1>1, <1>2, <1>4 DEF AnswersPast
<1>5. CASE /\ answered' = answered /\ attempt' = attempt
           /\ round' \in {round, round + 1, last_round} \/ result' # "none"
           /\ result = "none" \/ result' = result
  BY SMT, <1>1, <1>2, <1>5 DEF AnswersPast
<1> QED BY <1>3, <1>4, <1>5, RoundMoves DEF TrackInv

\* The messages that complete a round are taken out of the buffers at once.
LEMMA StillWaitingStep == ASSUME TrackInv, [Next]_vars PROVE StillWaiting'
<1> USE RoundsAssumption
<1>e. input' = {} => StillWaiting'
  <2>1. input' = {} => Received' = {}
    BY DEF Received
  <2>2. Indices # {}
    BY DEF Indices
  <2> QED BY <2>1, <2>2 DEF StillWaiting
<1>u. UNCHANGED <<round, input, result>> => StillWaiting'
  BY DEF TrackInv, StillWaiting, Received
<1>1. ASSUME NEW d \in Device, Poll(d) PROVE StillWaiting'
  BY <1>1, <1>u DEF Poll
<1>2. ASSUME NEW u \in net, update_task(u) PROVE StillWaiting'
  <2>1. CASE Listen(u)
    <3>1. /\ Received' = {m.share : m \in receive_messages(u)} /\ round' = round
          /\ ~round_received(receive_messages(u)) \/ round > last_round
      BY <2>1 DEF Listen, Received
    <3>2. round \in Nat
      BY SMT DEF TrackInv, IInv, TypeOK
    <3> QED BY SMT, <3>1, <3>2 DEF round_received, StillWaiting
  <2> QED BY <1>2, <1>e, <1>u, <2>1 DEF update_task, Refuse, StartTask, AdvanceTask, FinalizeTask,
                                       FinalizePanics
<1>3. CASE restart \/ RestartPanics \/ CrashInRestart \/ Crash
  BY <1>3, <1>e DEF restart, RestartPanics, CrashInRestart, Crash, Rehydrate
<1>4. ASSUME NEW u \in net, CrashInFinalize(u) PROVE StillWaiting'
  BY <1>4, <1>e DEF CrashInFinalize, Rehydrate
<1>5. CASE Lose \/ HelperDies \/ OtherPanics
  BY <1>5, <1>u DEF Lose, HelperDies, OtherPanics
<1>6. CASE UNCHANGED vars
  BY <1>6, <1>u DEF vars
<1>7. ASSUME NEW u \in net, CertificateFails(u) PROVE StillWaiting'
  <2>1. round' = last_round + 1
    BY <1>7 DEF CertificateFails
  <2> QED BY SMT, <2>1 DEF StillWaiting
<1> QED BY <1>1, <1>2, <1>3, <1>4, <1>5, <1>6, <1>7 DEF Next, Over

\* The inductive invariant of the properties of a task on track.
LEMMA TrackInductive == Spec => []TrackInv
<1>1. ASSUME TrackInv, [Next]_vars PROVE TrackInv'
  <2>1. IInv'
    BY <1>1, RoundsNext DEF TrackInv
  <2>2. AnswersPast' /\ StillWaiting'
    BY <1>1, AnswersPastStep, StillWaitingStep
  <2> QED BY <2>1, <2>2 DEF TrackInv
<1> QED BY <1>1, TrackInit, PTL DEF Spec

\* How a task on track ends.
Ends == result = "value" \/ (pdf /\ result = "error")

\* Before any round has messages, a task with something to send out and with its
\* helper is on track.
LEMMA FreshOnTrack ==
  ASSUME result' = "none", round' <= last_round, pdf' => HelperUsable',
         \A i \in Indices : output'[i].kind # "empty",
         \A d \in Device : answered'[d] # [attempt |-> attempt', round |-> round']
  PROVE  OnTrack'
BY DEF OnTrack

\* No device has answered the next round, or the first one of the next attempt.
LEMMA NextUnanswered ==
  ASSUME TrackInv, result = "none", NEW d \in Device
  PROVE  /\ answered[d] # [attempt |-> attempt, round |-> round + 1]
         /\ answered[d] # [attempt |-> attempt + 1, round |-> 1]
<1>1. attempt \in Nat /\ round \in Nat
  BY SMT, RoundsAssumption DEF TrackInv, IInv, TypeOK
<1>2. CASE answered[d] = <<>>
  BY SMT, <1>2
<1>3. CASE answered[d] # <<>>
  BY SMT, <1>1, <1>3 DEF TrackInv, AnswersPast
<1> QED BY <1>2, <1>3

\* restart puts the task on track, or fails it.
LEMMA RestartOnTrack == ASSUME TrackInv, restart PROVE OnTrack' \/ Ends'
<1> USE RoundsAssumption
<1>2. /\ result = "none" /\ attempt' = attempt + 1 /\ answered' = answered /\ pdf' = pdf
      /\ ~(pdf /\ poisoned) /\ poisoned' = poisoned
  BY DEF restart, Stale
<1>3. CASE UNCHANGED result
  <2>1. /\ round' = 1 /\ output' = Filled("init")
        /\ helper' = IF pdf THEN [attempt |-> attempt + 1, alive |-> TRUE] ELSE NoHelper
    BY <1>2, <1>3 DEF restart
  <2>2. \A i \in Indices : output'[i].kind # "empty"
    BY <2>1 DEF Filled
  <2>3. pdf' => HelperUsable'
    BY SMT, <1>2, <2>1 DEF HelperUsable, NoHelper
  <2>4. \A d \in Device : answered'[d] # [attempt |-> attempt', round |-> round']
    BY <1>2, <2>1, NextUnanswered
  <2>5. round' <= last_round
    BY SMT, <2>1
  <2> QED BY <1>2, <1>3, <2>2, <2>3, <2>4, <2>5, FreshOnTrack
<1>4. CASE ~UNCHANGED result
  BY SMT, <1>2, <1>4 DEF restart, Ends
<1> QED BY <1>3, <1>4

\* A complete answer to the work the device was given.
LEMMA PollOnTrack ==
  ASSUME TrackInv, OnTrack, NEW e \in Device, Poll(e), faults' = faults
  PROVE  OnTrack'
<1>1. faults \in Nat
  BY DEF TrackInv, IInv, TypeOK
<1>0. PICK complete \in BOOLEAN :
        /\ net' = net \cup {[device |-> e, attempt |-> attempt, round |-> round,
                             complete |-> complete]}
        /\ IF complete THEN UNCHANGED faults ELSE Fault
  BY DEF Poll
<1>c. complete
  BY SMT, <1>0, <1>1 DEF Fault
<1> DEFINE u == [device |-> e, attempt |-> attempt, round |-> round, complete |-> complete]
<1>2. net' = net \cup {u}
  BY <1>0
<1>3. /\ UNCHANGED <<attempt, round, input, output, result, stored, pdf, group, helper, poisoned>>
      /\ answered' = [answered EXCEPT ![e] = [attempt |-> attempt, round |-> round]]
  BY DEF Poll, helpers
<1>4. u.device = e /\ u.attempt = attempt /\ u.complete
  BY <1>c
<1> HIDE DEF u
<1>5. ASSUME NEW d \in Device, waiting_for(d)', d # e,
             answered'[d] = [attempt |-> attempt', round |-> round']
      PROVE  \E v \in net' : v.device = d /\ v.attempt = attempt' /\ v.complete
  <2>1. waiting_for(d)
    BY <1>3, <1>5 DEF waiting_for, Received, identifier_to_indices
  <2>2. answered'[d] = answered[d]
    BY <1>3, <1>5 DEF TrackInv, IInv, TypeOK
  <2> QED BY <1>2, <1>3, <1>5, <2>1, <2>2 DEF OnTrack
<1>6. \E v \in net' : v.device = e /\ v.attempt = attempt' /\ v.complete
  BY <1>2, <1>3, <1>4
<1>7. HelperUsable' = HelperUsable
  BY <1>3 DEF HelperUsable
<1> QED BY <1>3, <1>5, <1>6, <1>7 DEF OnTrack

\* An update of a device that is not waited for, or of another attempt.
LEMMA RefuseOnTrack ==
  ASSUME TrackInv, OnTrack, NEW u \in net, Refuse(u), net \ {u} \subseteq net', answered' = answered
  PROVE  OnTrack'
<1>1. UNCHANGED <<attempt, round, input, output, result, stored, pdf, group, helper, poisoned>>
  BY DEF Refuse, helpers
<1>2. ASSUME NEW d \in Device, waiting_for(d)',
             answered'[d] = [attempt |-> attempt', round |-> round']
      PROVE  \E v \in net' : v.device = d /\ v.attempt = attempt' /\ v.complete
  <2>1. waiting_for(d)
    BY <1>1, <1>2 DEF waiting_for, Received, identifier_to_indices
  <2>2. PICK v \in net : v.device = d /\ v.attempt = attempt /\ v.complete
    BY <1>1, <1>2, <2>1 DEF OnTrack
  <2>3. v # u
    BY <2>1, <2>2 DEF Refuse, Accepts, OnTrack
  <2> QED BY <1>1, <2>2, <2>3
<1>3. HelperUsable' = HelperUsable
  BY <1>1 DEF HelperUsable
<1> QED BY <1>1, <1>2, <1>3 DEF OnTrack

\* The update of a device that was waited for, and not the last of the round: it
\* is complete, or the task was not on track.
LEMMA ListenOnTrack ==
  ASSUME TrackInv, OnTrack, NEW u \in net, Listen(u), net' = net \ {u}, answered' = answered
  PROVE  OnTrack'
<1>1. /\ Accepts(u) /\ input' = receive_messages(u)
      /\ UNCHANGED <<attempt, round, output, result, stored, pdf, group, helper, poisoned>>
  BY DEF Listen, helpers
<1>2. u.device \in Device /\ u.attempt = attempt /\ result = "none" /\ waiting_for(u.device)
  BY <1>1 DEF TrackInv, IInv, TypeOK, Accepts
<1>3. u.complete
  <2>1. answered[u.device] = [attempt |-> attempt, round |-> round]
    BY <1>2 DEF TrackInv, IInv, Underway
  <2>2. PICK v \in net : v.device = u.device /\ v.attempt = attempt /\ v.complete
    BY <1>2, <2>1 DEF OnTrack
  <2>3. v = u
    BY <1>2, <2>2 DEF TrackInv, IInv, OneUpdate
  <2> QED BY <2>2, <2>3
<1>4. Received' = Received \cup identifier_to_indices(u.device)
  <2>1. Received' = {m.share : m \in receive_messages(u)}
    BY <1>1 DEF Received
  <2> QED BY <1>3, <2>1, ReceiveAdds DEF TrackInv, IInv
<1>5. ASSUME NEW d \in Device, waiting_for(d)',
             answered'[d] = [attempt |-> attempt', round |-> round']
      PROVE  \E v \in net' : v.device = d /\ v.attempt = attempt' /\ v.complete
  <2>1. waiting_for(d) /\ d # u.device
    BY <1>4, <1>5 DEF waiting_for, identifier_to_indices
  <2>2. PICK v \in net : v.device = d /\ v.attempt = attempt /\ v.complete
    BY <1>1, <1>5, <2>1 DEF OnTrack
  <2> QED BY <1>1, <2>1, <2>2
<1>6. HelperUsable' = HelperUsable
  BY <1>1 DEF HelperUsable
<1> QED BY <1>1, <1>5, <1>6 DEF OnTrack

\* The update that ends a round other than the last: every device has work again.
LEMMA AdvanceOnTrack ==
  ASSUME TrackInv, OnTrack, NEW u \in net, StartTask(u) \/ AdvanceTask(u), answered' = answered
  PROVE  OnTrack'
<1> USE RoundsAssumption
<1>1. /\ round' = round + 1 /\ round < last_round
      /\ UNCHANGED <<attempt, result, pdf, group, helper, poisoned>>
      /\ output' \in {Filled("init"), relay(receive_messages(u))}
  BY SMT DEF StartTask, AdvanceTask, helpers
<1>2. \A i \in Indices : output'[i].kind # "empty"
  BY SMT, <1>1 DEF Filled, relay
<1>3. round \in Nat /\ result = "none" /\ (pdf => HelperUsable)
  BY SMT DEF TrackInv, IInv, TypeOK, OnTrack
<1>4. pdf' => HelperUsable'
  BY <1>1, <1>3 DEF HelperUsable
<1>5. \A d \in Device : answered'[d] # [attempt |-> attempt', round |-> round']
  BY <1>1, <1>3, NextUnanswered
<1>6. round' <= last_round /\ result' = "none"
  BY SMT, <1>1, <1>3
<1> QED BY <1>2, <1>4, <1>5, <1>6, FreshOnTrack

\* The update that ends the last round gives the value.
LEMMA FinalValue == ASSUME IInv, NEW u \in net, FinalizeTask(u) PROVE result' = "value"
<1>1. Accepts(u) /\ (NeedsHelper(u) => HelperUsable)
  BY DEF FinalizeTask, Completes
<1>2. round = last_round
  BY DEF FinalizeTask
<1>3. get_final_message(receive_messages(u)) = "value"
  BY <1>1, <1>2, ReceiveCurrent DEF get_final_message
<1>4. NeedsHelper(u) => include_signature = "value"
  BY <1>1 DEF IInv, HelperCurrent, HelperUsable, include_signature
<1> QED BY <1>3, <1>4 DEF FinalizeTask

\* Nothing but a fault gets a task off its track before the end.
LEMMA OnTrackStep ==
  ASSUME TrackInv, OnTrack, [Next]_vars, faults' = faults
  PROVE  OnTrack' \/ Ends'
<1>1. ~Fault
  BY SMT DEF TrackInv, IInv, TypeOK, Fault
<1>2. ASSUME NEW d \in Device, Poll(d) PROVE OnTrack'
  BY <1>2, PollOnTrack
<1>3. ASSUME NEW u \in net, update_task(u) PROVE OnTrack' \/ Ends'
  <2>1. net' = net \ {u} /\ answered' = answered
    BY <1>1, <1>3 DEF update_task
  <2>2. CASE Refuse(u)
    BY <2>1, <2>2, RefuseOnTrack
  <2>3. CASE Listen(u)
    BY <2>1, <2>3, ListenOnTrack
  <2>4. CASE StartTask(u) \/ AdvanceTask(u)
    BY <2>1, <2>4, AdvanceOnTrack
  <2>5. CASE FinalizeTask(u)
    BY <2>5, FinalValue DEF TrackInv, Ends
  <2>6. CASE FinalizePanics(u)
    BY <2>6 DEF FinalizePanics, NeedsHelper, OnTrack
  <2> QED BY <1>3, <2>2, <2>3, <2>4, <2>5, <2>6 DEF update_task
<1>4. CASE restart
  BY <1>4, RestartOnTrack
<1>5. ~RestartPanics
  BY DEF RestartPanics, OnTrack, HelperUsable
<1>6. ~Crash /\ ~CrashInRestart /\ ~Lose /\ ~HelperDies /\ ~OtherPanics
  BY <1>1 DEF Crash, CrashInRestart, Lose, HelperDies, OtherPanics
<1>7. \A u \in net : ~CrashInFinalize(u) /\ ~CertificateFails(u)
  BY <1>1 DEF CrashInFinalize, CertificateFails
<1>8. CASE UNCHANGED vars
  BY <1>8 DEF vars, helpers, OnTrack, waiting_for, Received, identifier_to_indices, HelperUsable
<1> QED BY <1>2, <1>3, <1>4, <1>5, <1>6, <1>7, <1>8 DEF Next, Over

\* A task is on track when it starts and after every restart, and stays so
\* without further faults, for any devices, shares, rounds, attempts and late
\* updates.
THEOREM TrackSafety == Spec => StaysOnTrack
<1>1. ASSUME Init PROVE OnTrack
  <2>1. /\ result = "none" /\ round <= last_round
        /\ \A i \in Indices : output[i].kind # "empty"
    <3>1. /\ result = "none" /\ round \in {0, 1}
          /\ output = Filled("certificates") \/ output = Filled("init")
      BY <1>1 DEF Init
    <3> QED BY SMT, <3>1, RoundsAssumption DEF Filled
  <2>2. \A d \in Device : answered[d] # [attempt |-> attempt, round |-> round]
    <3>1. answered = [d \in Device |-> <<>>]
      BY <1>1 DEF Init
    <3> QED BY SMT, <3>1
  <2>3. pdf => HelperUsable
    BY SMT, <1>1 DEF Init, HelperUsable, NoHelper
  <2> QED BY <2>1, <2>2, <2>3 DEF OnTrack
<1>2. TrackInv /\ [Next]_vars =>
        [(OnTrack \/ restart) /\ faults' = faults =>
           OnTrack' \/ result' = "value" \/ (pdf /\ result' = "error")]_vars
  <2> SUFFICES ASSUME TrackInv, [Next]_vars, OnTrack \/ restart, faults' = faults
               PROVE  OnTrack' \/ result' = "value" \/ (pdf /\ result' = "error")
    OBVIOUS
  <2>1. OnTrack' \/ Ends'
    BY OnTrackStep, RestartOnTrack
  <2>2. pdf' = pdf
    BY DEF Next, vars, helpers, Poll, update_task, Refuse, Listen, StartTask, AdvanceTask,
           FinalizeTask, FinalizePanics, restart, RestartPanics, Crash, CrashInRestart,
           CrashInFinalize, CertificateFails, Rehydrate, Lose, HelperDies, OtherPanics, Over
  <2> QED BY <2>1, <2>2 DEF Ends
<1> QED BY <1>1, <1>2, TrackInductive, PTL DEF Spec, StaysOnTrack

\* As long as a task is on track somebody can bring it forward: the server never
\* waits for a device that is done, and never sits on a round it has.
THEOREM TrackMoves == Spec => []OnTrackMoves
<1>1. ASSUME TrackInv, OnTrack
      PROVE  \/ \E d \in Device : HasWork(d)
             \/ \E u \in net : Accepts(u) /\ u.complete
  <2>1. Received \subseteq Indices /\ Received # Indices
    BY SMT, <1>1 DEF TrackInv, StillWaiting, OnTrack, IInv, TypeOK, Received, Message
  <2>2. PICK i \in Indices : i \notin Received
    BY <2>1
  <2>3. PICK d \in Device : i \in identifier_to_indices(d)
    BY DEF Indices, Device, identifier_to_indices
  <2>4. waiting_for(d)
    BY <2>2, <2>3 DEF waiting_for
  <2>5. CASE answered[d] # [attempt |-> attempt, round |-> round]
    BY <1>1, <2>4, <2>5 DEF OnTrack, HasWork
  <2>6. CASE \E u \in net : u.device = d /\ u.attempt = attempt /\ u.complete
    BY <1>1, <2>4, <2>6 DEF OnTrack, Accepts
  <2> QED BY <1>1, <2>4, <2>5, <2>6 DEF OnTrack
<1>2. TrackInv => OnTrackMoves
  BY <1>1 DEF OnTrackMoves
<1> QED BY <1>2, TrackInductive, PTL

=============================================================================
