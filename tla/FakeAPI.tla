------------------------------ MODULE FakeAPI ------------------------------
(***************************************************************************)
(* The account state of the fake API the integration tests run against    *)
(* (test/fakeapi/user.go): the user and address key rings that Unlock and *)
(* ReloadKeys fill, and the address list ReorderAddresses permutes, with   *)
(* the address update events it queues.  Unlock walks the addresses in     *)
(* their current order, so the two interact.                               *)
(*                                                                         *)
(* checkAndRecordCall (not in this file) may fail a call before it changes *)
(* anything; a failed call, like a wrong passphrase, leaves the state as   *)
(* it was and is a stuttering step.                                        *)
(***************************************************************************)
EXTENDS Naturals, Sequences, SequencesExt

CONSTANTS
  AddressIDs,   \* IDs of the account's addresses
  MissingKeys,  \* addresses whose HasKeys is pmapi.MissingKeys
  BrokenKeys,   \* addresses whose keys do not unlock with the passphrase
  UnknownIDs    \* IDs a ReorderAddresses request may name that no address has

ASSUME MissingKeys \subseteq AddressIDs /\ BrokenKeys \subseteq AddressIDs
ASSUME UnknownIDs \cap AddressIDs = {}

VARIABLES
  addresses,   \* *api.addresses: a sequence of [id, order]
  userKR,      \* api.userKeyRing # nil
  addrKR,      \* the addresses with api.addrKeyRing[a.ID] # nil
  lastEvent,   \* lastEvent[a]: Order of the latest address update event, 0 if none
  requested,   \* the last ReorderAddresses request that was carried out
  unlockResult \* what the last Unlock returned: "none", "nil" or "error"

vars == <<addresses, userKR, addrKR, lastEvent, requested, unlockResult>>

Keyed == AddressIDs \ MissingKeys

AddressOrders == {s \in [1..Cardinality(AddressIDs) -> AddressIDs] : ToSet(s) = AddressIDs}

\* Requests: every order of the addresses, and those orders with one ID
\* replaced by one no address has.
Requests ==
  AddressOrders \cup
    {[s EXCEPT ![i] = u] : s \in AddressOrders, i \in 1..Cardinality(AddressIDs), u \in UnknownIDs}

(***************************************************************************)
(* Translation of the code                                                 *)
(***************************************************************************)
\* Mutant: addresses with missing keys are not skipped.
UnlockAddressesNoMissingCheck(kr) ==
  LET RECURSIVE L(_, _)
      L(i, acc) ==
        IF i > Len(addresses) THEN [err |-> FALSE, kr |-> acc]
        ELSE LET a == addresses[i].id
             IN CASE a \in acc        -> L(i + 1, acc)
                  [] a \in BrokenKeys -> [err |-> TRUE, kr |-> acc]
                  [] OTHER            -> L(i + 1, acc \cup {a})
  IN L(1, kr)

\* Mutant: an address with missing keys ends the loop.
UnlockAddressesStopAtMissing(kr) ==
  LET RECURSIVE L(_, _)
      L(i, acc) ==
        IF i > Len(addresses) THEN [err |-> FALSE, kr |-> acc]
        ELSE LET a == addresses[i].id
             IN CASE a \in MissingKeys -> [err |-> FALSE, kr |-> acc]
                  [] a \in acc         -> L(i + 1, acc)
                  [] a \in BrokenKeys  -> [err |-> TRUE, kr |-> acc]
                  [] OTHER             -> L(i + 1, acc \cup {a})
  IN L(1, kr)

\* The loop of Unlock over the addresses in list order: addresses with
\* missing keys and those already unlocked are skipped, the first address
\* whose keys fail to unlock returns the error.
UnlockAddresses(kr) ==
  LET RECURSIVE L(_, _)
      L(i, acc) ==
        IF i > Len(addresses) THEN [err |-> FALSE, kr |-> acc]
        ELSE LET a == addresses[i].id
             IN CASE a \in MissingKeys \/ a \in acc -> L(i + 1, acc)
                  [] a \in BrokenKeys                 -> [err |-> TRUE, kr |-> acc]
                  [] OTHER                            -> L(i + 1, acc \cup {a})
  IN L(1, kr)

\* Unlock with the right passphrase: a user already unlocked returns nil
\* at once (line 37); otherwise the user key ring is set, then the address
\* key rings.
Unlock ==
  /\ IF userKR
     THEN unlockResult' = "nil" /\ UNCHANGED <<userKR, addrKR>>
     ELSE LET r == UnlockAddresses(addrKR)
          IN /\ userKR' = TRUE
             /\ addrKR' = r.kr
             /\ unlockResult' = IF r.err THEN "error" ELSE "nil"
  /\ UNCHANGED <<addresses, lastEvent, requested>>

\* ReloadKeys: UpdateUser, whose only effect is the recorded call (its
\* failure returns first), then Unlock.
ReloadKeys == Unlock

\* Mutant: the update event is queued before the address is moved.
ReorderStepEventFirst(ids, w, as, ev) ==
  LET j == IF \E i \in DOMAIN as : as[i].id = ids[w]
           THEN CHOOSE i \in DOMAIN as : as[i].id = ids[w] ELSE 1
      sw == [as EXCEPT ![w] = as[j], ![j] = as[w]]
  IN [as |-> [sw EXCEPT ![w].order = w],
      ev |-> [ev EXCEPT ![as[w].id] = w]]

\* One iteration of ReorderAddresses: find the wanted address (index 0,
\* the first, when no address has the ID), swap it into place, number it,
\* queue its update event.
ReorderStep(ids, w, as, ev) ==
  LET j == IF \E i \in DOMAIN as : as[i].id = ids[w]
           THEN CHOOSE i \in DOMAIN as : as[i].id = ids[w] ELSE 1
      sw == [as EXCEPT ![w] = as[j], ![j] = as[w]]
  IN [as |-> [sw EXCEPT ![w].order = w],
      ev |-> [ev EXCEPT ![sw[w].id] = w]]

ReorderAddresses ==
  \E ids \in Requests :
    LET RECURSIVE Loop(_, _)
        Loop(w, st) == IF w > Len(ids) THEN st
                       ELSE Loop(w + 1, ReorderStep(ids, w, st.as, st.ev))
        r == Loop(1, [as |-> addresses, ev |-> lastEvent])
    IN /\ addresses' = r.as
       /\ lastEvent' = r.ev
       /\ requested' = ids
       /\ UNCHANGED <<userKR, addrKR, unlockResult>>

Init ==
  /\ \E s \in AddressOrders : addresses = [i \in DOMAIN s |-> [id |-> s[i], order |-> i]]
  /\ userKR = FALSE
  /\ addrKR = {}
  /\ lastEvent = [a \in AddressIDs |-> 0]
  /\ requested = <<>>
  /\ unlockResult = "none"

Next == Unlock \/ ReloadKeys \/ ReorderAddresses

Spec == Init /\ [][Next]_vars

(***************************************************************************)
(* Properties                                                              *)
(***************************************************************************)
TypeOK ==
  /\ addresses \in Seq([id : AddressIDs, order : Nat])
  /\ userKR \in BOOLEAN
  /\ addrKR \subseteq Keyed
  /\ lastEvent \in [AddressIDs -> Nat]
  /\ unlockResult \in {"none", "nil", "error"}

(* When Unlock returns nil, KeyRingForAddressID has a key ring for every   *)
(* address that has keys, however many calls of Unlock came before.       *)
UnlockedMeansAllAddressKeys == unlockResult = "nil" => Keyed \subseteq addrKR

(* After ReorderAddresses with an order of all addresses, the address list *)
(* is in that order, each address's Order is its position, and the latest *)
(* update event of each address carries that Order.                        *)
ReorderedAsRequested ==
  requested \in AddressOrders =>
    \A i \in DOMAIN addresses :
      /\ addresses[i].id = requested[i]
      /\ addresses[i].order = i
      /\ lastEvent[addresses[i].id] = i
=============================================================================
