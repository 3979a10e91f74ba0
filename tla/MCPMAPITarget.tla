--------------------------- MODULE MCPMAPITarget ---------------------------
(***************************************************************************)
(* Model-checking instance of PMAPITarget.  The batch bounds are scaled    *)
(* down from 10 items and 25 MB to 2 items and 3 units, with body sizes    *)
(* that fill a batch by count (1+1), by size (2+2) and exceed it alone (4). *)
(***************************************************************************)
EXTENDS PMAPITarget

MCNumMsgs == 4
MCSizes == {1, 2, 4}
MCMaxItems == 2
MCMaxSize == 3
MCSingleReplies == {"ok", "refused", "noResult", "transportErr"}

\* A draft with two attachments can fail at the first or the second.
MCMaxAttachments == 2

\* One request left behind by a cancelled earlier run.
MCStaleMsgs == {MCNumMsgs + 1}

\* With a failing bulk call, batches are resubmitted whole and every
\* resubmission branches over the replies to each of its messages: the
\* one-message replies are cut to the two outcomes that differ.
MCFaultySingleReplies == {"ok", "refused"}

\* Three messages still fill a batch, fail it, and resubmit it with the
\* third message in it.
MCFaultyNumMsgs == 3
=============================================================================
