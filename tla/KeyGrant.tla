------------------------------ MODULE KeyGrant ------------------------------
(***************************************************************************)
(* What a command may rely on when it asks Redis Cloud for an API key: one *)
(* request makes at most one key, on the account asked for (or picked      *)
(* before anything is made), and the answer is that very key or a failure. *)
(* CloudAuth's Mint is one request of this kind.                           *)
(***************************************************************************)
CONSTANTS None, Account

VARIABLES
    open,   \* is a request under way?
    want,   \* the account it has to be for, or None: whichever the session is on
    made,   \* the key the server made for it
    answer  \* what the caller got

vars == <<open, want, made, answer>>

Init == ~open /\ want = None /\ made = None /\ answer = None

Ask == open' /\ want' \in Account \cup {None} /\ made' = None /\ answer' = None

Pick ==
    /\ open /\ want = None /\ made = None
    /\ want' \in Account
    /\ UNCHANGED <<open, made, answer>>

\* Making the key ends the request; the reply that carries it may be lost.
Make ==
    /\ open /\ ~open'
    /\ made' # None /\ (want # None => made'.acct = want)
    /\ answer' \in {made', None}
    /\ UNCHANGED want

Refuse == open /\ ~open' /\ UNCHANGED <<want, made, answer>>

Dismiss == ~open /\ ~open' /\ want' = None /\ made' = None /\ answer' = None

Next == (~open /\ Ask) \/ Pick \/ Make \/ Refuse \/ Dismiss

Spec == Init /\ [][Next]_vars
=============================================================================
