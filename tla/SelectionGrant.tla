---------------------------- MODULE SelectionGrant ----------------------------
(****************************************************************************)
(* What the handshake marker promises: a screen is shared without asking      *)
(* only against a permit, each session of Chrome Remote Desktop is issued one *)
(* permit at most, and a permit serves a single request.                      *)
(****************************************************************************)
CONSTANTS
    Sessions,   \* the sessions permits are issued for
    Requesters  \* those who ask for a screen

VARIABLES
    issued,   \* sessions a permit was issued for
    permit,   \* whether the next request is served without asking
    served    \* requests that were

grant == <<issued, permit, served>>

\* A permit takes the place of one not yet used, or is lost to the request that
\* is using that one.
Issue(s) ==
    /\ s \notin issued
    /\ issued' = issued \cup {s}
    /\ permit' \in {TRUE, permit}
    /\ UNCHANGED served

\* A permit ages, and goes with its handshake.
Withdraw ==
    /\ permit
    /\ permit' = FALSE
    /\ UNCHANGED <<issued, served>>

Use(r) ==
    /\ permit
    /\ permit' = FALSE
    /\ served' = served \cup {r}
    /\ UNCHANGED issued

Init == issued = {} /\ permit = FALSE /\ served = {}

Next ==
    \/ \E s \in Sessions : Issue(s)
    \/ Withdraw
    \/ \E r \in Requesters : Use(r)

Spec == Init /\ [][Next]_grant
=============================================================================
