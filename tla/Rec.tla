-------------------------------- MODULE Rec --------------------------------
(***************************************************************************)
(* The recommendation type of house/rec.h.  It is a module of its own so   *)
(* that the queue, the lock file and the policy speak of the same values.  *)
(***************************************************************************)

REC_NONE  == "none"
REC_OPEN  == "open"
REC_CLOSE == "close"

\* The recommendations a notification can carry.
Kind == {REC_OPEN, REC_CLOSE}
Recs == Kind \cup {REC_NONE}

=============================================================================
