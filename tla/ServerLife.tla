----------------------------- MODULE ServerLife -----------------------------
(***************************************************************************)
(* What the web viewer promises its owner: requests are served only while  *)
(* the server lives, stopping lets the ones in service finish, and the     *)
(* server's memory goes only when the last of them has.                    *)
(***************************************************************************)
CONSTANT Conn

VARIABLES phase,     \* "off" | "open" | "closing"
          live       \* the requests in service

Init == phase = "off" /\ live = {}

Open == phase = "off" /\ phase' = "open" /\ UNCHANGED live

Begin(c) ==
    /\ phase # "off" /\ c \notin live
    /\ live' = live \cup {c}
    /\ UNCHANGED phase

End(c) ==
    /\ c \in live
    /\ live' = live \ {c}
    /\ UNCHANGED phase

Close == phase = "open" /\ phase' = "closing" /\ UNCHANGED live

FreeAll == phase = "closing" /\ live = {} /\ phase' = "off" /\ UNCHANGED live

Next == Open \/ Close \/ FreeAll \/ \E c \in Conn : Begin(c) \/ End(c)

vars == <<phase, live>>

Spec == Init /\ [][Next]_vars /\ WF_vars(FreeAll) /\ \A c \in Conn : WF_vars(End(c))

=============================================================================
