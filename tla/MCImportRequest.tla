-------------------------- MODULE MCImportRequest --------------------------
(***************************************************************************)
(* Every target list of up to three labels drawn from the five system     *)
(* labels the code names and two custom ones, one of which is also the    *)
(* global mailbox of the transfer rules.                                   *)
(***************************************************************************)
EXTENDS ImportRequest

CONSTANTS Custom, Imported

MCCustomLabels == {Custom, Imported}
MCGlobalMailboxes == {Imported}
=============================================================================
