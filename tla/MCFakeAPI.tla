----------------------------- MODULE MCFakeAPI -----------------------------
(***************************************************************************)
(* One fake server (FakePMAPI): the account state of FakeAPI and the       *)
(* message list FakeAPICounts counts over.  No operation of user.go reads *)
(* or writes messages, nor does getCounts read the account state, so the  *)
(* two parts step independently: the account part moves and the message  *)
(* list keeps its value.                                                   *)
(***************************************************************************)
EXTENDS FakeAPI

CONSTANTS A1, A2, A3, A4, L1, L2, NoAddress

VARIABLES messages, addressID

MCAddressIDs == {A1, A2, A3, A4}
MCMissingKeys == {A1}

\* Messages of two of the addresses, two labels, lists of up to two messages.
Counts == INSTANCE FakeAPICounts WITH AddressIDs <- {A1, A2}, LabelIDs <- {L1, L2},
                                      MaxMessages <- 2, AllAddresses <- NoAddress

MCInit == Init /\ Counts!Init

MCNext == Next /\ UNCHANGED <<messages, addressID>>

(* CountMessages and getAllCounts answer, for each label, exactly the      *)
(* number of the address's messages carrying it and how many are unread.   *)
CountsMatchReference == Counts!CountsMatchReference
=============================================================================
