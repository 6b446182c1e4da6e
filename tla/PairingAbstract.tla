--------------------------- MODULE PairingAbstract ---------------------------
(***************************************************************************)
(* What the pairing store promises (spec sections 3 and 4.7): one pairing  *)
(* code outstanding at a time; a claim consumes the code and grants one    *)
(* fresh token with a role below Admin; grants are only ever withdrawn     *)
(* (revoked or expired), never brought back; a restart keeps the grants    *)
(* and forgets the code.                                                   *)
(***************************************************************************)
EXTENDS Naturals

CONSTANTS
    Codes,           \* pairing codes
    GrantRoles,      \* the roles a claim may grant
    NoCode           \* no code outstanding

VARIABLES
    pending,         \* the outstanding code, or NoCode
    grants,          \* live grants: [tok, role] records
    issued           \* every token secret ever handed out

vars == <<pending, grants, issued>>

Init ==
    /\ pending = NoCode
    /\ issued \subseteq Nat
    /\ \A g \in grants : g.tok \in issued /\ g.role \in GrantRoles

\* A call that issues nothing may withdraw grants (revocation, expiry).
Withdraw == grants' \subseteq grants

\* start_pairing: a new code replaces the old one.
Start ==
    /\ \E k \in Codes : pending' = k
    /\ Withdraw
    /\ UNCHANGED issued

\* claim: the outstanding code is consumed and at most one grant, for a
\* token never issued before, is added.
Claim ==
    /\ pending # NoCode
    /\ pending' = NoCode
    /\ issued \subseteq issued'
    /\ \A a, b \in issued' \ issued : a = b
    /\ \A g, h \in grants' \ grants : g = h
    /\ \A g \in grants' \ grants : g.tok \in issued' \ issued /\ g.role \in GrantRoles

\* Any other call: validation, listing, revocation, a claim with a wrong
\* code, the passing of time.
Touch ==
    /\ Withdraw
    /\ UNCHANGED <<pending, issued>>

\* The process restarts: the grants survive, the code does not.
Restart ==
    /\ pending' = NoCode
    /\ UNCHANGED <<grants, issued>>

Next == Start \/ Claim \/ Touch \/ Restart

Spec == Init /\ [][Next]_vars

=============================================================================
