----------------------------- MODULE KeyCustody -----------------------------
(***************************************************************************)
(* What `redisctl cloud auth` promises about a profile's API key, with the *)
(* stores, the servers and the commands left out: keys are created and     *)
(* revoked, the profile comes to use a live key or none, and the key in    *)
(* use is revoked only while the user is leaving (a logout is under way).  *)
(***************************************************************************)
CONSTANT None

VARIABLES
    live,    \* keys the server accepts
    used,    \* the key the profile resolves to, or None
    leaving  \* is a logout under way?

vars == <<live, used, leaving>>

Init == live = {} /\ used = None /\ leaving = FALSE

Create ==
    /\ live \subseteq live'
    /\ \E k \in live' \ live : live' = live \cup {k}
    /\ UNCHANGED <<used, leaving>>

Use == used' \in live \cup {None} /\ UNCHANGED <<live, leaving>>

Revoke ==
    \E k \in live :
        /\ k = used => leaving
        /\ live' = live \ {k}
        /\ UNCHANGED <<used, leaving>>

Leave == leaving' = ~leaving /\ UNCHANGED <<live, used>>

Next == Create \/ Use \/ Revoke \/ Leave

Spec == Init /\ [][Next]_vars
=============================================================================
