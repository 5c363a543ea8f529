---------------------------- MODULE OneTimeToken ----------------------------
(***************************************************************************)
(* What the enrollment endpoint promises, without files, locks or          *)
(* threads: an enrollment token buys at most one device certificate, and   *)
(* the certificate goes to the request that redeemed the token.            *)
(*                                                                         *)
(* A token may be redeemed and buy nothing (the signing failed, or the     *)
(* process stopped between the two steps): the promise is "at most once".  *)
(***************************************************************************)
CONSTANTS Token,    \* enrollment tokens
          Req,      \* POST /enroll requests
          NoReq     \* "nobody has redeemed this token"

VARIABLES owner,    \* owner[t]: the request that redeemed t
          issued    \* the requests for which a certificate was signed

vars == <<owner, issued>>

Init == /\ owner = [t \in Token |-> NoReq]
        /\ issued = {}

(* A request redeems a token nobody has redeemed; it presents one token.   *)
Redeem(r, t) == /\ owner[t] = NoReq
                /\ \A u \in Token : owner[u] # r
                /\ owner' = [owner EXCEPT ![t] = r]
                /\ UNCHANGED issued

(* A certificate is signed, once, for a request that redeemed a token.     *)
Issue(r) == /\ \E t \in Token : owner[t] = r
            /\ r \notin issued
            /\ issued' = issued \cup {r}
            /\ UNCHANGED owner

Next == \E r \in Req : Issue(r) \/ \E t \in Token : Redeem(r, t)

Spec == Init /\ [][Next]_vars
=============================================================================
