----------------------------- MODULE AuthSessions -----------------------------
(***************************************************************************)
(* Sign-in, the MFA challenge, and the rotation of refresh tokens in the   *)
(* API service.  Requests are sequences of atomic store calls, as in       *)
(* Enrollment.  Access tokens are signed, stored nowhere and never taken   *)
(* back; they are not part of the state.                                   *)
(***************************************************************************)
EXTENDS Integers, FiniteSets

CONSTANTS
    User, MFAUser,  \* the users, and those with MFA enabled
    Token,          \* refresh tokens crypto/rand may give
    Request,        \* request goroutines that may run at the same time
    Backends,       \* the stores main.go may choose: "memory", "postgres"
    Faults,         \* whether database calls may fail and the API restart
    NoUser, NoToken

ASSUME UserAssumption == MFAUser \subseteq User /\ NoUser \notin User
ASSUME TokenAssumption == NoToken \notin Token /\ IsFiniteSet(Token) /\ IsFiniteSet(Request)
ASSUME BackendsAssumption == Backends \subseteq {"memory", "postgres"}
ASSUME FaultsAssumption == Faults \in BOOLEAN

VARIABLES
    backend,   \* the store main.go chose, once
    tokens,     \* the rows of refresh_tokens; from: the token a refresh gave up
    held,       \* tokens some answer carried to a client
    challenged, \* users who hold an MFA token that has not expired
    solved,     \* users of whom a TOTP code was ever accepted
    mfaLog,     \* users with an auth.mfa.success entry in the audit log
    req         \* the local state of every request goroutine

vars == <<backend, tokens, held, challenged, solved, mfaLog, req>>

-----------------------------------------------------------------------------
TokenRecord == [state : {"unused", "live", "revoked"}, expired : BOOLEAN,
                user : User \cup {NoUser}, from : Token \cup {NoToken}]

AuditAction == {"auth.login.success", "auth.login.failure", "auth.mfa.challenge",
                "auth.mfa.success", "auth.mfa.verify", "auth.logout"}

\* old: the token a refresh was asked with; new: the one it will give.
Point == {"idle", "revoke", "user", "save"} \cup AuditAction

RequestState == [at : Point, user : User \cup {NoUser},
                 old : Token \cup {NoToken}, new : Token \cup {NoToken}]

Idle == [at |-> "idle", user |-> NoUser, old |-> NoToken, new |-> NoToken]

At(p, u, t) == [at |-> p, user |-> u, old |-> t, new |-> NoToken]

\* As in Enrollment.
MayFail == Faults /\ backend = "postgres"

\* What a store call does and what it reports (see Enrollment).
Outcome == {x \in [applied : BOOLEAN, ok : BOOLEAN] :
               /\ x.ok => x.applied
               /\ ~MayFail => x.ok}

Fresh == {t \in Token : tokens[t].state = "unused" /\ t \notin held
                           /\ \A r \in Request : req[r].new # t}

AcceptedIgnoringRevocation(t) == tokens[t].state # "unused" /\ ~tokens[t].expired

\* GetRefreshToken finds the row, not revoked and not expired.
Accepted(t) == tokens[t].state = "live" /\ ~tokens[t].expired

\* As in Enrollment: PostgreSQL rejects the row, the error is dropped.
AuditRowKept == backend = "memory"

Init ==
    /\ backend \in Backends
    /\ tokens = [t \in Token |-> [state |-> "unused", expired |-> FALSE,
                                  user |-> NoUser, from |-> NoToken]]
    /\ held = {}
    /\ challenged = {}
    /\ solved = {}
    /\ mfaLog = {}
    /\ req = [r \in Request |-> Idle]

\* Where Login goes once the password is verified.
AfterPasswordSkippingMFA(u) == "save"

AfterPasswordChallengingAll(u) == "auth.mfa.challenge"

AfterPassword(u) == IF u \in MFAUser THEN "auth.mfa.challenge" ELSE "save"

(* Login: the password is right or wrong; an unknown e-mail is answered like a
   wrong password. *)
Login(r) ==
    /\ req[r].at = "idle"
    /\ \E u \in User, right \in BOOLEAN :
          req' = [req EXCEPT ![r] =
             At(IF right THEN AfterPassword(u) ELSE "auth.login.failure", u, NoToken)]
    /\ UNCHANGED <<backend, tokens, held, challenged, solved, mfaLog>>

(* VerifyMFA: the MFA token is checked, then ValidateTOTP accepts the code or
   does not.  Neither is used up. *)
VerifyMFA(r) ==
    /\ req[r].at = "idle"
    /\ \E u \in challenged :
          \/ /\ solved' = solved \cup {u}
             /\ req' = [req EXCEPT ![r] = At("auth.mfa.success", u, NoToken)]
          \/ /\ solved' = solved
             /\ req' = [req EXCEPT ![r] = At("auth.mfa.verify", u, NoToken)]
    /\ UNCHANGED <<backend, tokens, held, challenged, mfaLog>>

(* Refresh, first call: GetRefreshToken. *)
RefreshLookup(r) ==
    /\ req[r].at = "idle"
    /\ \E t \in held :
          /\ Accepted(t)
          /\ req' = [req EXCEPT ![r] = At("revoke", tokens[t].user, t)]
    /\ UNCHANGED <<backend, tokens, held, challenged, solved, mfaLog>>

RevokedNever(t) == tokens

\* RevokeRefreshToken finds the row whatever its state.
Revoked(t) == IF tokens[t].state = "unused" THEN tokens
              ELSE [tokens EXCEPT ![t].state = "revoked"]

(* Refresh, second call: RevokeRefreshToken, its error discarded. *)
RefreshRevoke(r) ==
    /\ req[r].at = "revoke"
    /\ \E x \in Outcome : tokens' = IF x.applied THEN Revoked(req[r].old) ELSE tokens
    /\ req' = [req EXCEPT ![r].at = "user"]
    /\ UNCHANGED <<backend, held, challenged, solved, mfaLog>>

(* Refresh, third call: GetUserByID; when it fails the answer is a 401. *)
RefreshUser(r) ==
    /\ req[r].at = "user"
    /\ \E x \in Outcome :
          req' = [req EXCEPT ![r] = IF x.ok THEN [@ EXCEPT !.at = "save"] ELSE Idle]
    /\ UNCHANGED <<backend, tokens, held, challenged, solved, mfaLog>>

(* issueTokensAndRespond: SaveRefreshToken, its error discarded. *)
SaveRefreshToken(r) ==
    /\ req[r].at = "save"
    /\ \E t \in Fresh, x \in Outcome :
          /\ tokens' = IF x.applied
                THEN [tokens EXCEPT ![t] = [state |-> "live", expired |-> FALSE,
                                            user |-> req[r].user, from |-> req[r].old]]
                ELSE tokens
          /\ req' = [req EXCEPT ![r].at = "auth.login.success", ![r].new = t]
    /\ UNCHANGED <<backend, held, challenged, solved, mfaLog>>

(* Logout: RevokeRefreshToken with the token in the body, whoever it belongs to,
   its error discarded. *)
Logout(r) ==
    /\ req[r].at = "idle"
    /\ \E t \in held, u \in User, x \in Outcome :
          /\ tokens' = IF x.applied THEN Revoked(t) ELSE tokens
          /\ req' = [req EXCEPT ![r] = At("auth.logout", u, NoToken)]
    /\ UNCHANGED <<backend, held, challenged, solved, mfaLog>>

\* Where a handler goes after recordAudit: VerifyMFA goes on to issue tokens,
\* the others answer.
AfterAudit(q) == IF q.at = "auth.mfa.success" THEN [q EXCEPT !.at = "save"] ELSE Idle

(* recordAudit, its error discarded, and the answer, which may carry a
   refresh token or an MFA token.  Of the log only what MFARequired is about is
   kept. *)
RecordAudit(r) ==
    /\ req[r].at \in AuditAction
    /\ mfaLog' = IF AuditRowKept /\ req[r].at = "auth.mfa.success"
                   THEN mfaLog \cup {req[r].user} ELSE mfaLog
    /\ held' = held \cup ({req[r].new} \ {NoToken})
    /\ challenged' = IF req[r].at = "auth.mfa.challenge"
                       THEN challenged \cup {req[r].user} ELSE challenged
    /\ req' = [req EXCEPT ![r] = AfterAudit(@)]
    /\ UNCHANGED <<backend, tokens, solved>>

(* Seven days pass, or the fifteen minutes of an MFA token. *)
ExpireToken(t) ==
    /\ tokens[t].state # "unused" /\ ~tokens[t].expired
    /\ tokens' = [tokens EXCEPT ![t].expired = TRUE]
    /\ UNCHANGED <<backend, held, challenged, solved, mfaLog, req>>

ExpireChallenge(u) ==
    /\ u \in challenged
    /\ challenged' = challenged \ {u}
    /\ UNCHANGED <<backend, tokens, held, solved, mfaLog, req>>

Restart ==
    /\ MayFail
    /\ \E r \in Request : req[r].at # "idle"
    /\ req' = [r \in Request |-> Idle]
    /\ UNCHANGED <<backend, tokens, held, challenged, solved, mfaLog>>

Next ==
    \/ \E r \in Request :
          \/ Login(r) \/ VerifyMFA(r) \/ Logout(r)
          \/ RefreshLookup(r) \/ RefreshRevoke(r) \/ RefreshUser(r)
          \/ SaveRefreshToken(r) \/ RecordAudit(r)
    \/ \E t \in Token : ExpireToken(t)
    \/ \E u \in User : ExpireChallenge(u)
    \/ Restart

Spec == Init /\ [][Next]_vars

-----------------------------------------------------------------------------
(* Properties *)

\* Every variable keeps its shape.
TypeOK ==
    /\ backend \in {"memory", "postgres"}
    /\ tokens \in [Token -> TokenRecord]
    /\ held \subseteq Token
    /\ challenged \subseteq MFAUser
    /\ solved \subseteq MFAUser /\ mfaLog \subseteq MFAUser
    /\ req \in [Request -> RequestState]

\* The tokens given for token t, and the refreshes that found t live and have
\* not stored their token yet.
Successors(t) == {s \in Token : tokens[s].from = t}
Refreshing(t) == {r \in Request : req[r].old = t /\ req[r].at \in {"revoke", "user", "save"}}

Spent(t) == tokens[t].state = "revoked" \/ (tokens[t].state = "live" /\ tokens[t].expired)

\* The lookup and the revocation are not one step, so one token may be
\* exchanged more than once; while calls succeed, no more often than there are
\* requests at a time.
SuccessorsBounded ==
    ~MayFail => \A t \in Token :
       Cardinality(Successors(t)) + Cardinality(Refreshing(t)) <= Cardinality(Request)

\* Whatever fails, and however often tokens were rotated since, a user with MFA
\* holds a refresh token only if a code of theirs was accepted, and with the
\* MemoryStore has none without the acceptance being on record.
MFARequired ==
    /\ \A t \in held : tokens[t].user \in MFAUser => tokens[t].user \in solved
    /\ backend = "memory" => \A t \in Token :
          tokens[t].state # "unused" /\ tokens[t].user \in MFAUser =>
             tokens[t].user \in mfaLog

\* A token that is revoked or expired, with no refresh under way that found it
\* live, is never exchanged again and never comes back.
SpentIsFinal ==
    [][\A t \in Token :
          Spent(t) /\ Refreshing(t) = {} =>
             /\ Spent(t)' /\ Refreshing(t)' = {}
             /\ Successors(t)' = Successors(t)]_vars
=============================================================================
