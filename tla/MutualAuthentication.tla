------------------------- MODULE MutualAuthentication -------------------------
(***************************************************************************)
(* What the handshake of the README promises, without messages and keys    *)
(* ("both parties have verified each others identity", README.md:12-17).   *)
(*                                                                         *)
(* A session is one attempt of one client.  The server offers a session a  *)
(* challenge, the client then trusts the server, the server then claims    *)
(* the challenge for that session and accepts the client: in this order,   *)
(* each once, and never for a session whose challenge is gone.             *)
(***************************************************************************)
CONSTANTS
    Sessions,
    Users,
    UserOf,   \* the user a session is for
    Places,   \* where challenges are kept, one for a user in each
    None

VARIABLES
    pending,   \* pending[k]: the session whose challenge is kept in k, or None
    offered,   \* the sessions the server has made a challenge for
    trusted,   \* the sessions whose client has verified the server
    claimed,   \* the sessions whose challenge was taken to be compared
    accepted   \* the sessions whose client the server has verified

vars == <<pending, offered, trusted, claimed, accepted>>

Slots == Places \X Users

Init ==
    /\ pending = [k \in Slots |-> None]
    /\ offered = {} /\ trusted = {} /\ claimed = {} /\ accepted = {}

(* A challenge takes the place of an earlier one of the same user.         *)
Offer(s, p) ==
    /\ s \notin offered
    /\ pending' = [pending EXCEPT ![<<p, UserOf[s]>>] = s]
    /\ offered' = offered \cup {s}
    /\ UNCHANGED <<trusted, claimed, accepted>>

Trust(s) ==
    /\ s \in offered \ trusted
    /\ trusted' = trusted \cup {s}
    /\ UNCHANGED <<pending, offered, claimed, accepted>>

(* Only a challenge that is still kept can be claimed, and it is then gone.*)
Claim(s, p) ==
    /\ s \in trusted
    /\ pending[<<p, UserOf[s]>>] = s
    /\ pending' = [pending EXCEPT ![<<p, UserOf[s]>>] = None]
    /\ claimed' = claimed \cup {s}
    /\ UNCHANGED <<offered, trusted, accepted>>

Accept(s) ==
    /\ s \in claimed \ accepted
    /\ accepted' = accepted \cup {s}
    /\ UNCHANGED <<pending, offered, trusted, claimed>>

(* Challenges are lost, have expired, or are used up in vain.              *)
Drop(S) ==
    /\ pending' = [k \in Slots |-> IF k \in S THEN None ELSE pending[k]]
    /\ UNCHANGED <<offered, trusted, claimed, accepted>>

Next ==
    \/ \E s \in Sessions : Trust(s) \/ Accept(s)
    \/ \E s \in Sessions, p \in Places : Offer(s, p) \/ Claim(s, p)
    \/ \E S \in SUBSET Slots : Drop(S)

Spec == Init /\ [][Next]_vars

(* The server never accepts a client that has not verified it first, and a *)
(* challenge is kept for one user at one place, and nowhere once claimed.  *)
Agreement ==
    /\ accepted \subseteq claimed /\ claimed \subseteq trusted /\ trusted \subseteq offered
    /\ \A k \in Slots : pending[k] # None =>
           /\ pending[k] \in offered \ claimed
           /\ UserOf[pending[k]] = k[2]
           /\ \A l \in Slots : pending[l] = pending[k] => l = k
===============================================================================
