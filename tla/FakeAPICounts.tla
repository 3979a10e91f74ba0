--------------------------- MODULE FakeAPICounts ---------------------------
(***************************************************************************)
(* getCounts of the fake API (test/fakeapi/counts.go): the per-label       *)
(* totals and unread counts CountMessages answers with, computed over the  *)
(* fake's message list, against the counts defined over the set of        *)
(* messages.  The state is one input: the message list and the address the *)
(* counts are asked for ("" for all of them, as getAllCounts does).        *)
(***************************************************************************)
EXTENDS Naturals, FiniteSets, Sequences, SequencesExt

CONSTANTS
  AddressIDs,   \* addresses messages may belong to
  LabelIDs,     \* labels messages may carry
  MaxMessages,  \* bound on the length of the message list
  AllAddresses  \* the "" address ID

ASSUME AllAddresses \notin AddressIDs

VARIABLES
  messages,     \* api.messages: a sequence of [addr, labels, unread]
  addressID     \* the argument of getCounts

vars == <<messages, addressID>>

\* A message's LabelIDs: an order of some distinct labels.
LabelLists == {s \in BoundedSeq(LabelIDs, Cardinality(LabelIDs)) : Len(s) = Cardinality(ToSet(s))}

Messages == [addr : AddressIDs, labels : LabelLists, unread : {0, 1}]

(***************************************************************************)
(* Translation of the code                                                 *)
(***************************************************************************)
\* Mutant: Unread is incremented for every message after the first.
CountLabelAllUnread(counts, l, m) ==
  IF l \in DOMAIN counts
  THEN [counts EXCEPT ![l] = [total |-> @.total + 1, unread |-> @.unread + 1]]
  ELSE counts @@ (l :> [total |-> 1, unread |-> m.unread])

\* One label of one message: the entry is created with Total 1 and the
\* message's Unread, or Total is incremented and Unread too when the
\* message is unread.
CountLabel(counts, l, m) ==
  IF l \in DOMAIN counts
  THEN [counts EXCEPT ![l] = [total |-> @.total + 1,
                              unread |-> @.unread + (IF m.unread = 1 THEN 1 ELSE 0)]]
  ELSE counts @@ (l :> [total |-> 1, unread |-> m.unread])

\* getCounts: every message of the address (all of them for ""), every
\* label of it, in order; the map becomes the result list.
GetCounts(msgs, addr) ==
  LET counted == SelectSeq(msgs, LAMBDA m : addr = AllAddresses \/ m.addr = addr)
      byLabel == FoldLeft(LAMBDA c, m : FoldLeft(LAMBDA c2, l : CountLabel(c2, l, m), c, m.labels),
                          <<>>, counted)
  IN {[label |-> l, total |-> byLabel[l].total, unread |-> byLabel[l].unread] :
        l \in DOMAIN byLabel}

(***************************************************************************)
(* Reference definition                                                    *)
(***************************************************************************)
\* For every label some counted message carries: how many counted messages
\* carry it, and how many of those are unread.
ReferenceCounts(msgs, addr) ==
  LET idx   == {i \in DOMAIN msgs : addr = AllAddresses \/ msgs[i].addr = addr}
      has(l) == {i \in idx : l \in ToSet(msgs[i].labels)}
  IN {[label |-> l, total |-> Cardinality(has(l)),
       unread |-> Cardinality({i \in has(l) : msgs[i].unread = 1})] :
        l \in {l \in LabelIDs : has(l) # {}}}

(***************************************************************************)
(* Specification                                                           *)
(***************************************************************************)
Init ==
  /\ messages \in BoundedSeq(Messages, MaxMessages)
  /\ addressID \in AddressIDs \cup {AllAddresses}

Next == UNCHANGED vars

Spec == Init /\ [][Next]_vars

(***************************************************************************)
(* Properties                                                              *)
(***************************************************************************)
(* CountMessages and getAllCounts answer, for each label, exactly the      *)
(* number of the address's messages carrying it and how many are unread.   *)
CountsMatchReference == GetCounts(messages, addressID) = ReferenceCounts(messages, addressID)
=============================================================================
