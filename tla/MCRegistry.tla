----------------------------- MODULE MCRegistry -----------------------------
(***************************************************************************)
(* Instances of Registry for TLC.                                          *)
(***************************************************************************)
EXTENDS Registry, TLC

\* One suite of each kind of threshold task, with the protocol that needs all
\* shares among them, and one that no protocol supports.
SomeSuites == {[protocol |-> "Gg18", key_type |-> "SignPdf"],
               [protocol |-> "Musig2", key_type |-> "SignChallenge"],
               [protocol |-> "Elgamal", key_type |-> "Decrypt"],
               [protocol |-> "Frost", key_type |-> "Decrypt"]}

DecryptSuite == {[protocol |-> "Elgamal", key_type |-> "Decrypt"]}

DeviceSymmetry == Permutations(Devices)

=============================================================================
