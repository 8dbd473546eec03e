------------------------------- MODULE Accounts -------------------------------
(***************************************************************************)
(* The users table and the handlers of identity/application: sign-up by    *)
(* password, by Google or by invitation, the links that are mailed, login, *)
(* and the one column a user edits.                                        *)
(*                                                                         *)
(* A handler that reads a row, awaits and saves it writes every column of  *)
(* the copy it holds; such a handler is two actions and its copy is in     *)
(* req.  A handler whose statements name their columns, or whose insert    *)
(* the unique index decides, is one action.  A link's handler reads its    *)
(* token before its transaction; that transaction writes the same columns  *)
(* whether or not the token was spent meanwhile, so it is one action too.  *)
(*                                                                         *)
(* A lockout only delays a login, so a run may pass it at any time.  The   *)
(* failed attempts decide whether a successful login saves its copy; any   *)
(* wrong password sets them, so that choice is left open.                  *)
(***************************************************************************)
EXTENDS Integers, FiniteSets

CONSTANTS
  Users,    \* the people, by e-mail address
  Signable, \* the roles people ask for at sign-up in this instance
  Clients,  \* requests of the people, which hold what they have read
  Admins,   \* requests of Admins, likewise
  Idle      \* no request

SelfRegisterable == {"consumer", "node_operator", "rider"}
Invitable == {"node_operator", "rider", "admin"}
Reviewed == {"node_operator", "rider"}
Roles == SelfRegisterable \cup Invitable \cup {"node_staff"}

Slots == Clients \cup Admins

ASSUME AccountsAssumption == Signable \subseteq Roles /\ Clients \cap Admins = {}

VARIABLES
  account,   \* users
  invite,    \* invite_tokens: the user's link
  reset,     \* the users with a password reset link to use
  signedIn,  \* the users who have been given a session
  req        \* each request's kind and the rows it read

accountVars == <<account, invite, reset, signedIn>>

Statuses == {"none", "invited", "pending_review", "active"}
Accounts == [role : Roles \cup {"none"}, status : Statuses, credential : {"none", "password", "google"},
             phone : BOOLEAN, consent : BOOLEAN]
NoAccount == [role |-> "none", status |-> "none", credential |-> "none", phone |-> FALSE, consent |-> FALSE]

AccountsInit ==
  /\ account = [u \in Users |-> NoAccount]
  /\ invite = [u \in Users |-> "none"]
  /\ reset = {}
  /\ signedIn = {}
  /\ req = [s \in Slots |-> Idle]

Free(u) == account[u].status = "none"
Exists(u) == ~Free(u)

(* issueSession: its tokens let the user in from now on. *)
IssueSession(u) == signedIn' = signedIn \cup {u}

(***************************************************************************)
(* Creating an account.                                                    *)
(***************************************************************************)
SignedUp(role, credential) ==
  [role |-> role, status |-> IF role \in Reviewed THEN "pending_review" ELSE "active",
   credential |-> credential, phone |-> FALSE, consent |-> TRUE]

Register(u, role) ==
  /\ Free(u) /\ role \in SelfRegisterable
  /\ account' = [account EXCEPT ![u] = SignedUp(role, "password")]
  /\ UNCHANGED <<invite, reset, signedIn, req>>

GoogleSignUp(u, role, accepted) ==
  /\ Free(u) /\ role \in SelfRegisterable
  /\ accepted
  /\ account' = [account EXCEPT ![u] = SignedUp(role, "google")]
  /\ IssueSession(u)
  /\ UNCHANGED <<invite, reset, req>>

GoogleLogin(u) ==
  /\ account[u].credential = "google"
  /\ IssueSession(u)
  /\ UNCHANGED <<account, invite, reset, req>>

(* createInvite: the inviter gives a phone number, never consent. *)
Invited(role) == [role |-> role, status |-> "invited", credential |-> "none", phone |-> TRUE, consent |-> FALSE]
CreateInvite(u, role) ==
  /\ Free(u)
  /\ account' = [account EXCEPT ![u] = Invited(role)]
  /\ invite' = [invite EXCEPT ![u] = "live"]

Invite(u, role) ==
  /\ role \in Invitable
  /\ CreateInvite(u, role)
  /\ UNCHANGED <<reset, signedIn, req>>

ConfirmInvite(u) ==
  /\ invite[u] = "live"
  /\ invite' = [invite EXCEPT ![u] = "spent"]
  /\ account' = [account EXCEPT ![u].credential = "password", ![u].status = "active", ![u].consent = TRUE]
  /\ UNCHANGED <<reset, signedIn, req>>

InviteLapses(u) ==
  /\ invite[u] = "live"
  /\ invite' = [invite EXCEPT ![u] = "spent"]
  /\ UNCHANGED <<account, reset, signedIn, req>>

(* ActivateUserService.activate, a column update inside the caller's transaction. *)
Activated(u) == [account EXCEPT ![u].status = "active"]

(***************************************************************************)
(* Password reset.                                                         *)
(***************************************************************************)
(* Mutant: a link is mailed for any account. *)
RequestResetUnchecked(u) ==
  /\ Exists(u)
  /\ reset' = reset \cup {u}
  /\ UNCHANGED <<account, invite, signedIn, req>>

RequestReset(u) ==
  /\ account[u].credential = "password"
  /\ reset' = reset \cup {u}
  /\ UNCHANGED <<account, invite, signedIn, req>>

ConfirmReset(u) ==
  /\ u \in reset
  /\ reset' = reset \ {u}
  /\ account' = [account EXCEPT ![u].credential = "password"]
  /\ UNCHANGED <<invite, signedIn, req>>

ResetLapses(u) ==
  /\ u \in reset
  /\ reset' = reset \ {u}
  /\ UNCHANGED <<account, invite, signedIn, req>>

(***************************************************************************)
(* Requests that hold a copy of the user's row.                            *)
(***************************************************************************)
Take(s, request) == req[s] = Idle /\ req' = [req EXCEPT ![s] = request]
Drop(s) == req' = [req EXCEPT ![s] = Idle]
At(s, op) == req[s] # Idle /\ req[s].op = op

LoginRead(s, u) ==
  /\ account[u].credential = "password"
  /\ Take(s, [op |-> "login", user |-> u, row |-> account[u]])
  /\ UNCHANGED accountVars

(* A wrong password: registerFailedAttempt saves the copy. *)
LoginFails(s) ==
  /\ At(s, "login")
  /\ account' = [account EXCEPT ![req[s].user] = req[s].row]
  /\ Drop(s)
  /\ UNCHANGED <<invite, reset, signedIn>>

(* The right one: the copy is saved only if it has failed attempts to clear. *)
LoginSucceeds(s, clears) ==
  /\ At(s, "login")
  /\ IF clears
     THEN account' = [account EXCEPT ![req[s].user] = req[s].row]
     ELSE UNCHANGED account
  /\ IssueSession(req[s].user)
  /\ Drop(s)
  /\ UNCHANGED <<invite, reset>>

UpdateMineRead(s, u) ==
  /\ u \in signedIn
  /\ Take(s, [op |-> "updateMine", user |-> u, row |-> account[u]])
  /\ UNCHANGED accountVars

UpdateMineSave(s) ==
  /\ At(s, "updateMine")
  /\ account' = [account EXCEPT ![req[s].user] = [req[s].row EXCEPT !.phone = TRUE]]
  /\ Drop(s)
  /\ UNCHANGED <<invite, reset, signedIn>>

AccountsNext ==
  \/ \E u \in Users :
       \/ \E role \in Signable : Register(u, role) \/ Invite(u, role)
       \/ \E role \in Signable, accepted \in BOOLEAN : GoogleSignUp(u, role, accepted)
       \/ GoogleLogin(u) \/ ConfirmInvite(u) \/ InviteLapses(u)
       \/ RequestReset(u) \/ ConfirmReset(u) \/ ResetLapses(u)
       \/ \E s \in Clients : LoginRead(s, u) \/ UpdateMineRead(s, u)
  \/ \E s \in Clients :
       \/ LoginFails(s) \/ UpdateMineSave(s)
       \/ \E clears \in BOOLEAN : LoginSucceeds(s, clears)

(***************************************************************************)
(* Properties.                                                             *)
(***************************************************************************)
AccountsTypeOK ==
  /\ account \in [Users -> Accounts]
  /\ invite \in [Users -> {"none", "live", "spent"}]
  /\ reset \subseteq Users
  /\ signedIn \subseteq Users

(* Nobody is given a session, and no account gets a way to sign in, before *)
(* its owner has accepted the terms: an inviter cannot accept for the      *)
(* invited (confirm-invite.dto.ts), a reset link never opens an account    *)
(* that was not confirmed, and no save of an old copy takes consent back.  *)
ConsentBeforeUse ==
  \A u \in Users : u \in signedIn \/ account[u].credential # "none" => account[u].consent
================================================================================
