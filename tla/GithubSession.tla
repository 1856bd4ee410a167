---------------------------- MODULE GithubSession ----------------------------
(* The GitHub session of a browser: GithubOAuthService over GithubTokenVault. *)
(* Requests use one session at the same time. GitHub takes a refresh token    *)
(* once (external): a token of generation n is answered with generation       *)
(* n + 1, and every earlier token is dead from then on.                       *)
EXTENDS Naturals

CONSTANTS
  Request,          \* requests that need the session
  MaxTokens,        \* generations of tokens
  MaxFaults         \* answers of GitHub that do not come within fifteen seconds

SessionAssumption == "free" \notin Request /\ MaxTokens \in Nat \ {0} /\ MaxFaults \in Nat

VARIABLES
  valid,       \* the generation GitHub takes, 0 when there is no grant
  vault,       \* the entry in Redis: a generation (0: none) and whether its access token is due
  lock,        \* who holds the refresh lock
  call,        \* per request: where it is, the entry it read, its answer
  login,       \* the sign-in: none, granted, failed, done
  signOut,     \* the sign-out: where it is and the entry it read
  faults

vars == <<valid, vault, lock, call, login, signOut, faults>>

NoEntry == [gen |-> 0, due |-> FALSE]
Idle == [at |-> "idle", entry |-> NoEntry, answer |-> "none"]
MayFail == faults < MaxFaults /\ faults' = faults + 1

Init ==
  /\ valid = 0 /\ vault = NoEntry /\ lock = "free" /\ call = [r \in Request |-> Idle]
  /\ login = "none" /\ signOut = [at |-> "idle", gen |-> 0] /\ faults = 0

Fresh(entry) == entry.gen # 0 /\ ~entry.due
-----------------------------------------------------------------------------
(* Signing in: a code is exchanged for the first tokens, the account is       *)
(* fetched, the entry is stored. When one of these fails the grant is revoked.*)

Exchange ==
  /\ login = "none" /\ login' = "granted" /\ valid' = 1
  /\ UNCHANGED <<vault, lock, call, signOut, faults>>

StoreSession ==
  /\ login = "granted" /\ login' = "done" /\ vault' = [gen |-> 1, due |-> FALSE]
  /\ UNCHANGED <<valid, lock, call, signOut, faults>>

TryRevokeGrant ==
  /\ login = "granted" /\ MayFail /\ login' = "failed" /\ valid' = 0
  /\ UNCHANGED <<vault, lock, call, signOut>>

\* Less than a minute is left for the access token.
BecomeDue ==
  /\ Fresh(vault) /\ vault.gen < MaxTokens /\ vault' = [vault EXCEPT !.due = TRUE]
  /\ UNCHANGED <<valid, lock, call, login, signOut, faults>>
-----------------------------------------------------------------------------
(* A request *)

Answer(r, answer) == call' = [call EXCEPT ![r] = [at |-> "leaving", entry |-> NoEntry, answer |-> answer]]
At(r, at, entry) == call' = [call EXCEPT ![r].at = at, ![r].entry = entry]

GetSession(r) ==
  /\ login = "done" /\ call[r].at = "idle"
  /\ IF vault.gen = 0 THEN Answer(r, "expired")
     ELSE IF Fresh(vault) THEN Answer(r, "session")
     ELSE At(r, "refresh", vault)
  /\ UNCHANGED <<valid, vault, lock, login, signOut, faults>>

RefreshSession(r) ==
  /\ call[r].at = "refresh"
  /\ IF lock = "free" THEN lock' = r /\ At(r, "locked", call[r].entry)
     ELSE UNCHANGED lock /\ At(r, "waiting", NoEntry)
  /\ UNCHANGED <<valid, vault, login, signOut, faults>>

\* Every 200 ms, sixty times.
Poll(r) ==
  /\ call[r].at = "waiting"
  /\ Answer(r, IF vault.gen = 0 THEN "expired" ELSE IF Fresh(vault) THEN "session" ELSE "busy")
  /\ UNCHANGED <<valid, vault, lock, login, signOut, faults>>

\* A mutant of ReadLatest: the entry that was read before the lock is refreshed.
ReadEarlier(r) ==
  /\ call[r].at = "locked"
  /\ At(r, "asking", call[r].entry)
  /\ UNCHANGED <<valid, vault, lock, login, signOut, faults>>

ReadLatest(r) ==
  /\ call[r].at = "locked"
  /\ IF vault.gen = 0 THEN Answer(r, "expired")
     ELSE IF Fresh(vault) THEN Answer(r, "session")
     ELSE At(r, "asking", vault)
  /\ UNCHANGED <<valid, vault, lock, login, signOut, faults>>

\* GitHub takes the refresh token, refuses it, or takes it and is not heard.
RequestToken(r) ==
  LET gen == call[r].entry.gen IN
  /\ call[r].at = "asking"
  /\ \/ /\ gen # valid /\ At(r, "refused", NoEntry) /\ UNCHANGED <<valid, faults>>
     \/ /\ gen = valid /\ valid' = gen + 1 /\ At(r, "rotated", [gen |-> gen + 1, due |-> FALSE])
        /\ UNCHANGED faults
     \/ /\ gen = valid /\ valid' = gen + 1 /\ MayFail /\ Answer(r, "failed")
     \/ /\ MayFail /\ Answer(r, "failed") /\ UNCHANGED valid
  /\ UNCHANGED <<vault, lock, login, signOut>>

DeleteSession(r) ==
  /\ call[r].at = "refused" /\ vault' = NoEntry /\ Answer(r, "expired")
  /\ UNCHANGED <<valid, lock, login, signOut, faults>>

\* Redis may not answer: the new tokens are lost.
StoreTokens(r) ==
  /\ call[r].at = "rotated"
  /\ \/ vault' = call[r].entry /\ Answer(r, "session") /\ UNCHANGED faults
     \/ UNCHANGED vault /\ MayFail /\ Answer(r, "failed")
  /\ UNCHANGED <<valid, lock, login, signOut>>

\* The lock is released by its holder only; it outlives a request of fifteen
\* seconds, so it does not expire before.
Leave(r) ==
  /\ call[r].at = "leaving" /\ lock' = IF lock = r THEN "free" ELSE lock
  /\ call' = [call EXCEPT ![r] = [Idle EXCEPT !.answer = call[r].answer]]
  /\ UNCHANGED <<valid, vault, login, signOut, faults>>
-----------------------------------------------------------------------------
(* Signing out *)

RevokeSession ==
  /\ login = "done" /\ signOut.at = "idle" /\ signOut' = [at |-> "read", gen |-> vault.gen]
  /\ UNCHANGED <<valid, vault, lock, call, login, faults>>

DeleteEntry ==
  /\ signOut.at = "read" /\ vault' = NoEntry
  /\ signOut' = [signOut EXCEPT !.at = IF signOut.gen = 0 THEN "gone" ELSE "deleted"]
  /\ UNCHANGED <<valid, lock, call, login, faults>>

\* A mutant of RevokeGrant: whatever GitHub answers counts as revoked.
RevokeAnyway ==
  /\ signOut.at = "deleted" /\ signOut' = [signOut EXCEPT !.at = "revoked"]
  /\ valid' = IF signOut.gen = valid THEN 0 ELSE valid
  /\ UNCHANGED <<vault, lock, call, login, faults>>

\* GitHub revokes the grant with all its tokens when the access token is good.
RevokeGrant ==
  /\ signOut.at = "deleted"
  /\ \/ /\ signOut.gen = valid /\ valid' = 0 /\ signOut' = [signOut EXCEPT !.at = "revoked"] /\ UNCHANGED faults
     \/ /\ signOut.gen # valid /\ signOut' = [signOut EXCEPT !.at = "failed"] /\ UNCHANGED <<valid, faults>>
     \/ /\ MayFail /\ signOut' = [signOut EXCEPT !.at = "failed"] /\ UNCHANGED valid
  /\ UNCHANGED <<vault, lock, call, login>>
-----------------------------------------------------------------------------
Next ==
  \/ Exchange \/ StoreSession \/ TryRevokeGrant \/ BecomeDue
  \/ RevokeSession \/ DeleteEntry \/ RevokeGrant
  \/ \E r \in Request :
       GetSession(r) \/ RefreshSession(r) \/ Poll(r) \/ ReadLatest(r) \/ RequestToken(r)
       \/ DeleteSession(r) \/ StoreTokens(r) \/ Leave(r)

Spec == Init /\ [][Next]_vars
-----------------------------------------------------------------------------
(* Properties *)

\* As long as nobody signs out and GitHub and Redis answer, no request loses
\* the session: whichever of them refreshes it, and however their reads of the
\* vault lie around that, the entry is the one that GitHub takes, and nobody is
\* told that the sign-in has expired.
SessionSurvives ==
  faults = 0 /\ signOut.at = "idle" /\ login = "done" =>
    /\ \A r \in Request : call[r].answer # "expired"
    /\ vault.gen # 0
    /\ (\A r \in Request : call[r].at # "rotated") => vault.gen = valid

\* A sign-out that found the session and answers that it was revoked leaves no
\* token that GitHub takes, also when a refresh had replaced the tokens between
\* its reading the vault and its call.
SignOutRevokes == signOut.at = "revoked" => valid = 0
=============================================================================
