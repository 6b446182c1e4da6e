------------------------------- MODULE Pairing -------------------------------
(***************************************************************************)
(* PairingStore (trust-runtime/src/web/pairing.rs).  Every public method  *)
(* reads the clock, then takes the state mutex and does the rest under it; *)
(* the model splits each call into Call (the clock read, before the lock)  *)
(* and one atomic step for the locked section, so calls of several        *)
(* callers interleave between the two.  save_tokens can succeed, fail     *)
(* before the file is opened, or fail after the truncating open (the file *)
(* then no longer parses and loads as empty); its errors are ignored.     *)
(* Token secrets are fresh numbers, ids are the claim's second (the id    *)
(* "pair-<now>" is determined by now), codes are model values.            *)
(***************************************************************************)
EXTENDS Naturals, Sequences, FiniteSets

CONSTANTS
    Callers,          \* threads calling the store concurrently
    Codes,            \* pairing codes generate_code may produce
    RequestRoles,     \* requested_role arguments ("none" for None)
    CodeTTL,          \* PAIRING_CODE_TTL_SECS
    TokenTTL,         \* PAIRING_TOKEN_TTL_SECS
    MaxTokens,        \* PAIRING_MAX_TOKENS
    InitialFiles,     \* token files the store may start from
    NoCode,           \* pending = None
    Corrupt,          \* a file that does not parse
    MaxClock,         \* bound on the wall clock (seconds)
    MaxClaims,        \* bound on claim calls
    MaxRestarts,      \* bound on process restarts
    AllowSaveFailure  \* whether save_tokens may fail

VARIABLES
    clock,            \* now_secs()
    tokens,           \* state.tokens
    pending,          \* state.pending: NoCode or [code, exp]
    file,             \* the tokens file: a token sequence or Corrupt
    pc,               \* per caller: "idle" or the call in progress
    nextTok,          \* the next fresh token secret
    restarts

vars == <<clock, tokens, pending, file, pc, nextTok, restarts>>

-----------------------------------------------------------------------------
\* sanitize_requested_role: None is Operator, Admin is lowered to Engineer.
SanitizeKeepsAdmin(r) == IF r = "none" THEN "Operator" ELSE r

Sanitize(r) ==
    CASE r = "none"  -> "Operator"
      [] r = "Admin" -> "Engineer"
      [] OTHER       -> r

\* prune_expired_tokens: keep the entries with expires_at >= now.
Prune(ts, now) == SelectSeq(ts, LAMBDA e : e.exp >= now)

\* normalize_loaded_tokens: a token without expires_at gets created_at +
\* TTL, or now + 1 if that has already passed.
Normalize(ts, now) ==
    [i \in DOMAIN ts |->
        IF ts[i].exp # 0 THEN ts[i]
        ELSE LET cand == ts[i].created + TokenTTL
             IN [ts[i] EXCEPT !.exp = IF cand <= now THEN now + 1 ELSE cand]]

\* load_tokens: a missing or unparsable file is an empty token list.
LoadFile(f) == IF f = Corrupt THEN <<>> ELSE f

\* save_tokens, called when cond holds, its error ignored.
Save(cond, ts) ==
    file' \in IF cond /\ AllowSaveFailure THEN {ts, file, Corrupt}
              ELSE IF cond THEN {ts}
              ELSE {file}

EnabledCount(ts) == Cardinality({i \in DOMAIN ts : ts[i].enabled})

\* The capacity check of claim.
AtCapacity(ts) == EnabledCount(ts) >= MaxTokens

-----------------------------------------------------------------------------
(* The calls; each reads now before it takes the lock.                     *)

CallsAt(t) ==
       [op : {"start"}, now : {t}, code : Codes]
  \cup [op : {"claim"}, now : {t}, code : Codes, role : RequestRoles]
  \cup [op : {"validate", "revokeAll"}, now : {t}]
  \cup [op : {"revoke"}, now : {t}, id : 0..MaxClock]

\* A caller enters a method and reads the clock.  Claims are bounded.
Call(c) ==
    /\ pc[c] = [op |-> "idle"]
    /\ \E call \in CallsAt(clock) :
          /\ call.op = "claim" => nextTok <= MaxClaims
          /\ pc' = [pc EXCEPT ![c] = call]
    /\ UNCHANGED <<clock, tokens, pending, file, nextTok, restarts>>

Done(c) == pc' = [pc EXCEPT ![c] = [op |-> "idle"]]

\* start_pairing: prune (saving if anything went), then replace the code.
StartPairing(c) ==
    LET call == pc[c]
        kept == Prune(tokens, call.now)
    IN /\ call.op = "start"
       /\ tokens' = kept
       /\ Save(Len(kept) # Len(tokens), kept)
       /\ pending' = [code |-> call.code, exp |-> call.now + CodeTTL]
       /\ Done(c)
       /\ UNCHANGED <<clock, nextTok, restarts>>

\* claim: prune (never saved here), take the code, then the expiry, code
\* and capacity checks; the code stays only when it did not match.
Claim(c) ==
    LET call == pc[c]
        kept == Prune(tokens, call.now)
        new  == [id |-> call.now, tok |-> nextTok, created |-> call.now,
                 enabled |-> TRUE, role |-> Sanitize(call.role),
                 exp |-> call.now + TokenTTL]
        granted == /\ pending # NoCode
                   /\ ~(pending.exp < call.now)
                   /\ pending.code = call.code
                   /\ ~AtCapacity(kept)
    IN /\ call.op = "claim"
       /\ pending' = IF pending # NoCode /\ ~(pending.exp < call.now)
                        /\ pending.code # call.code
                     THEN pending ELSE NoCode
       /\ IF granted
          THEN /\ tokens' = Append(kept, new)
               /\ Save(TRUE, Append(kept, new))
               /\ nextTok' = nextTok + 1
          ELSE /\ tokens' = kept
               /\ UNCHANGED <<file, nextTok>>
       /\ Done(c)
       /\ UNCHANGED <<clock, restarts>>

\* validate_with_role and list: prune, saving if anything went.
Validate(c) ==
    LET call == pc[c]
        kept == Prune(tokens, call.now)
    IN /\ call.op = "validate"
       /\ tokens' = kept
       /\ Save(Len(kept) # Len(tokens), kept)
       /\ Done(c)
       /\ UNCHANGED <<clock, pending, nextTok, restarts>>

\* revoke: prune, disable every token with the id, save if one matched.
Revoke(c) ==
    LET call == pc[c]
        kept == Prune(tokens, call.now)
        ts   == [i \in DOMAIN kept |->
                    IF kept[i].id = call.id THEN [kept[i] EXCEPT !.enabled = FALSE]
                    ELSE kept[i]]
    IN /\ call.op = "revoke"
       /\ tokens' = ts
       /\ Save(\E i \in DOMAIN kept : kept[i].id = call.id, ts)
       /\ Done(c)
       /\ UNCHANGED <<clock, pending, nextTok, restarts>>

\* revoke_all: prune, disable every enabled token, save if there was one.
RevokeAll(c) ==
    LET call == pc[c]
        kept == Prune(tokens, call.now)
        ts   == [i \in DOMAIN kept |-> [kept[i] EXCEPT !.enabled = FALSE]]
    IN /\ call.op = "revokeAll"
       /\ tokens' = ts
       /\ Save(EnabledCount(kept) > 0, ts)
       /\ Done(c)
       /\ UNCHANGED <<clock, pending, nextTok, restarts>>

-----------------------------------------------------------------------------
\* PairingStore::load after a restart: load and normalize the file; no code
\* is pending; calls in progress are gone.
Restart ==
    /\ restarts < MaxRestarts
    /\ restarts' = restarts + 1
    /\ tokens' = Normalize(LoadFile(file), clock)
    /\ pending' = NoCode
    /\ pc' = [c \in Callers |-> [op |-> "idle"]]
    /\ UNCHANGED <<clock, file, nextTok>>

Tick ==
    /\ clock < MaxClock
    /\ clock' = clock + 1
    /\ UNCHANGED <<tokens, pending, file, pc, nextTok, restarts>>

\* PairingStore::with_clock at start-up.
Init ==
    /\ clock \in 0..TokenTTL
    /\ file \in InitialFiles
    /\ tokens = Normalize(LoadFile(file), clock)
    /\ pending = NoCode
    /\ pc = [c \in Callers |-> [op |-> "idle"]]
    /\ nextTok = 1
    /\ restarts = 0

Next ==
    \/ \E c \in Callers :
          Call(c) \/ StartPairing(c) \/ Claim(c) \/ Validate(c)
          \/ Revoke(c) \/ RevokeAll(c)
    \/ Restart \/ Tick

Spec == Init /\ [][Next]_vars

-----------------------------------------------------------------------------
\* The refinement mapping: the live grants are the enabled tokens that have
\* not expired by the wall clock; every secret below nextTok (0 being a
\* token from the file the store started with) has been issued.
GrantRoles == {"Viewer", "Operator", "Engineer"}

Grants == {[tok |-> tokens[i].tok, role |-> tokens[i].role] :
              i \in {j \in DOMAIN tokens : tokens[j].enabled /\ tokens[j].exp >= clock}}

PA == INSTANCE PairingAbstract WITH
          pending <- IF pending = NoCode THEN NoCode ELSE pending.code,
          grants <- Grants,
          issued <- 0..(nextTok - 1)

\* The store implements the two-phase pairing of spec section 4.7 across
\* concurrent callers, the clock and restarts: a grant appears only when a
\* claim consumes the outstanding code, for a fresh token and never as
\* Admin; revoked and expired tokens never come back, a restart included
\* (which relies on claim, revoke and revoke_all saving the token file).
PairingRefinesAbstract == PA!Spec

=============================================================================
