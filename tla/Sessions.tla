------------------------------- MODULE Sessions -------------------------------
(***************************************************************************)
(* The sessions of one user: app/modules/auth, get_principal() and the     *)
(* update of a user.                                                       *)
(*                                                                         *)
(* A login opens a family of refresh tokens.  A refresh replaces the token *)
(* of a family by the next one; a logout, a change of password, the end of *)
(* an account and the second use of a token revoke tokens by one UPDATE.   *)
(* Access tokens carry the version of the account they were issued under.  *)
(*                                                                         *)
(* A request is a transaction: a login holds the row of the account, a     *)
(* refresh the row of its token.  An UPDATE sees the tokens there are when *)
(* it begins and reaches them one by one: it waits for one that another    *)
(* request holds, holds it from then on, and passes over one that was      *)
(* replaced meanwhile.  It never learns of the token that replaced it.     *)
(***************************************************************************)
EXTENDS Naturals, FiniteSets

CONSTANTS
  Caller,      \* requests served at the same time
  Tokens,      \* bound: how many refresh tokens are issued
  MaxFailed,   \* max_failed_logins
  MaxVersion,  \* bound of token_version
  Nobody

ASSUME SessionsAssumption ==
  Tokens \in Nat /\ MaxFailed \in Nat \ {0} /\ MaxVersion \in Nat /\ Nobody \notin Caller

Token   == 1..Tokens
Version == 0..MaxVersion

VARIABLES
  account,      \* the row of the user
  accountLock,  \* who holds it
  token,        \* the refresh tokens: state and family, named after its first
  call,         \* what each caller is doing
  access,       \* versions under which access tokens were issued
  over,         \* of these, the versions a completed revocation had to end
  ended,        \* families a completed revocation had to end
  overlapped,   \* two revocations of the account have overlapped
  wrong         \* wrong passwords in a row

sessionVars == <<account, accountLock, token, call, access, over, ended, overlapped, wrong>>

Accounts == [active : BOOLEAN, version : Version, failed : 0..(MaxFailed - 1), locked : BOOLEAN]

TokenRow == [state : {"NONE", "LIVE", "REVOKED"}, family : Token]

(* "logoutAll" stands for the change of password, too.  seen and known are   *)
(* the version and the access tokens there were when it began, targets what  *)
(* its UPDATE has found and not yet reached, caught what it has reached, and *)
(* covers the families it has lost nothing of.                               *)
Ops == {"idle", "login", "refresh", "logoutAll", "deactivate", "revoking", "revokingAll"}

Calls == [op : Ops, token : Token \cup {0}, seen : Version \cup 0..(MaxFailed - 1), known : SUBSET Version,
          off : BOOLEAN, targets : SUBSET Token, caught : SUBSET Token, covers : SUBSET Token]
Idle  == [op |-> "idle", token |-> 0, seen |-> 0, known |-> {}, off |-> FALSE,
          targets |-> {}, caught |-> {}, covers |-> {}]

SessionsTypeOK ==
  /\ account \in Accounts
  /\ accountLock \in Caller \cup {Nobody}
  /\ token \in [Token -> TokenRow]
  /\ call \in [Caller -> Calls]
  /\ access \subseteq Version /\ over \subseteq Version /\ ended \subseteq Token
  /\ overlapped \in BOOLEAN
  /\ wrong \in Nat

SessionsInit ==
  /\ account = [active |-> TRUE, version |-> 0, failed |-> 0, locked |-> FALSE]
  /\ accountLock = Nobody
  /\ token = [t \in Token |-> [state |-> "NONE", family |-> t]]
  /\ call = [c \in Caller |-> Idle]
  /\ access = {} /\ over = {} /\ ended = {}
  /\ overlapped = FALSE /\ wrong = 0

-----------------------------------------------------------------------------
Live      == {t \in Token : token[t].state = "LIVE"}
Unissued  == {t \in Token : token[t].state = "NONE"}
NextToken == CHOOSE t \in Unissued : TRUE

\* Mutant: a refresh reads its token without FOR UPDATE.
NeverHeld(t) == FALSE

(* A refresh holds its token, an UPDATE those it has reached. *)
HeldByRefresh(t) == \E c \in Caller : call[c].op = "refresh" /\ call[c].token = t

Free(t) == ~HeldByRefresh(t) /\ \A c \in Caller : t \notin call[c].caught

(* The end of a transaction: its locks go. *)
Leave(c) ==
  /\ call' = [call EXCEPT ![c] = Idle]
  /\ accountLock' = IF accountLock = c THEN Nobody ELSE accountLock

-----------------------------------------------------------------------------
(***************************************************************************)
(* login(): the account is read and held.                                  *)
(***************************************************************************)
\* Mutant: the account is read without FOR UPDATE.
NotHeld(c) == accountLock' = accountLock

HeldBy(c) == accountLock' = c

BeginLogin(c) ==
  /\ call[c] = Idle /\ accountLock = Nobody
  /\ HeldBy(c)
  /\ call' = [call EXCEPT ![c] = [Idle EXCEPT !.op = "login", !.seen = account.failed]]
  /\ UNCHANGED <<account, token, access, over, ended, overlapped, wrong>>

(* What a wrong password does to the account. *)
Failed(seen) ==
  IF account.locked THEN account
  ELSE IF seen + 1 >= MaxFailed THEN [account EXCEPT !.failed = 0, !.locked = TRUE]
  ELSE [account EXCEPT !.failed = seen + 1]

WrongPassword(c) ==
  /\ call[c].op = "login"
  /\ account' = Failed(call[c].seen)
  /\ wrong' = IF account'.locked THEN 0 ELSE wrong + 1
  /\ Leave(c)
  /\ UNCHANGED <<token, access, over, ended, overlapped>>

(* issue_tokens() *)
Issued(family) ==
  token' = [token EXCEPT ![NextToken] = [state |-> "LIVE", family |-> family]]

Login(c) ==
  /\ call[c].op = "login"
  /\ account.active /\ ~account.locked
  /\ Unissued # {}
  /\ Issued(NextToken)
  /\ access' = access \cup {account.version}
  /\ account' = [account EXCEPT !.failed = 0]
  /\ wrong' = 0
  /\ Leave(c)
  /\ UNCHANGED <<over, ended, overlapped>>

LockoutEnds ==
  /\ account.locked
  /\ account' = [account EXCEPT !.locked = FALSE]
  /\ UNCHANGED <<accountLock, token, call, access, over, ended, overlapped, wrong>>

-----------------------------------------------------------------------------
(***************************************************************************)
(* refresh(): the token is read and held, then the user is read.           *)
(***************************************************************************)
BeginRefresh(c, t) ==
  /\ call[c] = Idle /\ Free(t)
  /\ token[t].state = "LIVE" /\ account.active
  /\ call' = [call EXCEPT ![c] = [Idle EXCEPT !.op = "refresh", !.token = t, !.seen = account.version]]
  /\ UNCHANGED <<account, accountLock, token, access, over, ended, overlapped, wrong>>

Successor(old, new) ==
  [token EXCEPT ![old].state = "REVOKED", ![new] = [state |-> "LIVE", family |-> token[old].family]]

(* The new token refers to the account, which a login may hold. *)
Refresh(c) ==
  /\ call[c].op = "refresh" /\ accountLock = Nobody
  /\ Unissued # {}
  /\ token' = Successor(call[c].token, NextToken)
  /\ access' = access \cup {call[c].seen}
  /\ Leave(c)
  /\ UNCHANGED <<account, over, ended, overlapped, wrong>>

-----------------------------------------------------------------------------
(***************************************************************************)
(* The UPDATE that revokes the live tokens of a family, or all of them.    *)
(***************************************************************************)
Find(c, op, families) ==
  call' = [call EXCEPT ![c] = [@ EXCEPT !.op = op, !.caught = {}, !.covers = families,
                                        !.targets = {t \in Live : token[t].family \in families}]]

(* It reaches a token that is still good, *)
Catch(c, t) ==
  /\ t \in call[c].targets /\ Free(t) /\ t \in Live
  /\ call' = [call EXCEPT ![c].targets = @ \ {t}, ![c].caught = @ \cup {t}]
  /\ UNCHANGED <<account, accountLock, token, access, over, ended, overlapped, wrong>>

(* or one that was replaced or revoked since it looked. *)
Miss(c, t) ==
  /\ t \in call[c].targets /\ Free(t) /\ t \notin Live
  /\ call' = [call EXCEPT ![c].targets = @ \ {t}, ![c].covers = @ \ {token[t].family}]
  /\ UNCHANGED <<account, accountLock, token, access, over, ended, overlapped, wrong>>

(* It has reached all that it found. *)
Reached(c) == call[c].targets = {}

Revoked(found) ==
  [t \in Token |-> IF t \in found THEN [token[t] EXCEPT !.state = "REVOKED"] ELSE token[t]]

(* logout(), or refresh() with a token that was replaced or revoked before.  *)
BeginRevoke(c, t) ==
  /\ call[c] = Idle
  /\ token[t].state # "NONE"
  /\ Find(c, "revoking", {token[t].family})
  /\ UNCHANGED <<account, accountLock, token, access, over, ended, overlapped, wrong>>

Revoke(c) ==
  /\ call[c].op = "revoking" /\ Reached(c)
  /\ token' = Revoked(call[c].caught)
  /\ ended' = ended \cup call[c].covers
  /\ Leave(c)
  /\ UNCHANGED <<account, access, over, overlapped, wrong>>

-----------------------------------------------------------------------------
(***************************************************************************)
(* logout_all(), change_password(), update_user() with is_active = False:  *)
(* the account is read, all its tokens are revoked and the version it had  *)
(* when it was read is raised.                                             *)
(***************************************************************************)
(* get_principal(): the access token is one of this version. *)
BeginLogoutAll(c) ==
  /\ call[c] = Idle
  /\ account.active /\ account.version \in access /\ account.version < MaxVersion
  /\ call' = [call EXCEPT ![c] = [Idle EXCEPT !.op = "logoutAll", !.seen = account.version, !.known = access]]
  /\ UNCHANGED <<account, accountLock, token, access, over, ended, overlapped, wrong>>

BeginDeactivate(c) ==
  /\ call[c] = Idle
  /\ account.active /\ account.version < MaxVersion
  /\ call' = [call EXCEPT ![c] = [Idle EXCEPT !.op = "deactivate", !.seen = account.version, !.known = access,
                                              !.off = TRUE]]
  /\ UNCHANGED <<account, accountLock, token, access, over, ended, overlapped, wrong>>

FindAll(c) ==
  /\ call[c].op \in {"logoutAll", "deactivate"}
  /\ Find(c, "revokingAll", {token[t].family : t \in Token \ Unissued})
  /\ UNCHANGED <<account, accountLock, token, access, over, ended, overlapped, wrong>>

\* Mutant: the access tokens are forgotten.
NotRaised(seen) == seen

Raised(seen) == seen + 1

Overlaps(c) == \E d \in Caller \ {c} : call[d].op \in {"logoutAll", "deactivate", "revokingAll"}

RevokeAll(c) ==
  /\ call[c].op = "revokingAll" /\ Reached(c) /\ accountLock = Nobody
  /\ token' = Revoked(call[c].caught)
  /\ account' = [account EXCEPT !.version = Raised(call[c].seen), !.active = @ /\ ~call[c].off]
  /\ over' = over \cup call[c].known
  /\ ended' = ended \cup call[c].covers
  /\ overlapped' = (overlapped \/ Overlaps(c))
  /\ Leave(c)
  /\ UNCHANGED <<access, wrong>>

(* update_user() with is_active = True *)
Activate ==
  /\ ~account.active /\ accountLock = Nobody
  /\ account' = [account EXCEPT !.active = TRUE]
  /\ UNCHANGED <<accountLock, token, call, access, over, ended, overlapped, wrong>>

-----------------------------------------------------------------------------
(* A refusal, or a connection that is lost. *)
Abandon(c) ==
  /\ call[c] # Idle
  /\ Leave(c)
  /\ UNCHANGED <<account, token, access, over, ended, overlapped, wrong>>

SessionsNext ==
  \/ LockoutEnds \/ Activate
  \/ \E c \in Caller :
       \/ BeginLogin(c) \/ WrongPassword(c) \/ Login(c)
       \/ Refresh(c) \/ Revoke(c) \/ Abandon(c)
       \/ BeginLogoutAll(c) \/ BeginDeactivate(c) \/ FindAll(c) \/ RevokeAll(c)
       \/ \E t \in Token : BeginRefresh(c, t) \/ BeginRevoke(c, t) \/ Catch(c, t) \/ Miss(c, t)

SessionsSpec == SessionsInit /\ [][SessionsNext]_sessionVars

-----------------------------------------------------------------------------
(***************************************************************************)
(* A family has one good token at most: of two refreshes with the same     *)
(* token the second finds it replaced (refresh).                           *)
(***************************************************************************)
OneLivePerFamily ==
  \A t, u \in Live : token[t].family = token[u].family => t = u

(***************************************************************************)
(* A session that was ended stays ended: no refresh brings a family back   *)
(* once it was revoked.  A family is excepted whose token was replaced     *)
(* between the moment the UPDATE looked and the moment it reached the row: *)
(* the successor is not found and stays good, though the logout was        *)
(* answered (refresh, logout, revoke_all_sessions).                        *)
(***************************************************************************)
EndedStaysEnded == \A t \in Live : token[t].family \notin ended

(***************************************************************************)
(* Of a session one refresh token is good until it ends, and none after.   *)
(***************************************************************************)
RefreshTokensHold == OneLivePerFamily /\ EndedStaysEnded

(***************************************************************************)
(* "access token lama langsung tidak berlaku": an access token issued      *)
(* before a revocation began is refused after it, and for good.  Two       *)
(* revocations at once may write the same version, or an earlier one, and  *)
(* nothing is said of them.                                                *)
(***************************************************************************)
OldAccessEnds == ~overlapped => account.version \notin over

(***************************************************************************)
(* Every wrong password counts, whatever logins run at the same time: the  *)
(* account is locked after MaxFailed of them in a row (login).             *)
(***************************************************************************)
AttemptsAreCounted == ~account.locked => account.failed = wrong /\ wrong < MaxFailed
=============================================================================
