------------------------------ MODULE Accounts ------------------------------
(***************************************************************************)
(* One account (the User row of one e-mail address) and everybody who      *)
(* administers it: the users, members and scanners pages of the back       *)
(* office, the services behind them, and the links that set a password.    *)
(*                                                                         *)
(* A page shows a copy of the row that may be old, so its buttons may ask   *)
(* for anything they ever say; a service reads the row, decides, and       *)
(* writes by id later.                                                     *)
(***************************************************************************)
EXTENDS Naturals, Sequences, FiniteSets

CONSTANTS
  Staff,     \* open back-office pages, each with at most one call
  Actors,    \* roles of the people at these pages
  NewRoles,  \* roles an account may be given
  Forms,     \* open reset-password pages
  MaxLinks,  \* bound: password links ever mailed
  Nobody     \* null

UserRole == {"SUPERADMIN", "STAFF", "PLATFORM_ADMIN", "ACCOUNTANT",
             "ORGANIZER_OWNER", "ORGANIZER_MEMBER", "SCANNER", "CUSTOMER"}
TenantRoles == {"ORGANIZER_OWNER", "ORGANIZER_MEMBER", "SCANNER"}
Rows == [role : UserRole, active : BOOLEAN, password : BOOLEAN]

ASSUME AccountsAssumption ==
  /\ Actors \subseteq UserRole
  /\ NewRoles \subseteq UserRole
  /\ MaxLinks \in Nat
  /\ Nobody \notin Rows

CreatableBy ==
  [r \in UserRole |->
     CASE r = "SUPERADMIN" -> {"PLATFORM_ADMIN", "ACCOUNTANT",
                               "ORGANIZER_OWNER", "CUSTOMER"}
       [] r = "PLATFORM_ADMIN" -> {"ORGANIZER_OWNER", "CUSTOMER"}
       [] OTHER -> {}]
CanManageTarget(actor, role) ==
  actor = "SUPERADMIN" \/ role \in CreatableBy[actor]

VARIABLES
  account,  \* the row, or Nobody
  deleted,  \* the row existed and was deleted (it is not created again)
  links,    \* PasswordResetToken rows: "unused" or "used"
  call,     \* the call each page waits for
  form,     \* reset-password pages: the link and how far its call is
  forgot    \* how far the forgot-password call is

accountVars == <<account, deleted, links, call, form, forgot>>

Row(role, password) ==
  [role |-> role, active |-> TRUE, password |-> password]
UsersApi == {"active", "role", "create", "invalidate", "mail"}
MembersApi == {"active", "create", "invalidate", "mail", "delete"}
ScannersApi == {"active", "create", "password", "delete"}
NoCall == [op |-> "none"]
Exists == account # Nobody

AccountsInit ==
  /\ account = Nobody
  /\ deleted = FALSE
  /\ links = <<>>
  /\ call = [s \in Staff |-> NoCall]
  /\ form = [f \in Forms |-> Nobody]
  /\ forgot = "idle"

(***************************************************************************)
(* The pages: whom the backend serves there, whose rows they list (of the  *)
(* one tenant there is, for ORGANIZER_OWNER), and a row's buttons.         *)
(***************************************************************************)
UsersPage == [actors |-> {"SUPERADMIN", "PLATFORM_ADMIN"},
              lists |-> UserRole,
              buttons |-> {"active"}]
MembersPage == [actors |-> {"ORGANIZER_OWNER"},
                lists |-> {"ORGANIZER_MEMBER"},
                buttons |-> {"active", "invalidate", "delete"}]
ScannersPage == [actors |-> {"ORGANIZER_OWNER", "SUPERADMIN"},
                 lists |-> {"SCANNER"},
                 buttons |-> {"active", "password", "delete"}]
Pages == {UsersPage, MembersPage, ScannersPage}

\* A button of some page, of whose row the service lets the actor at it.
Pressed(actor, op) ==
  /\ Exists
  /\ \E p \in Pages :
       /\ op \in p.buttons
       /\ actor \in p.actors
       /\ account.role \in p.lists
       /\ p = UsersPage => CanManageTarget(actor, account.role)

(***************************************************************************)
(* The services read the target and decide ...                             *)
(***************************************************************************)
Begin(s, c) ==
  /\ call[s] = NoCall
  /\ call' = [call EXCEPT ![s] = c]
  /\ UNCHANGED <<account, deleted, links, form, forgot>>

\* The switch sends the negation of what its page shows, which may be old;
\* the users page's delete button sends FALSE.
SetActive(s, actor, to) ==
  /\ Pressed(actor, "active")
  /\ Begin(s, [op |-> "active", to |-> to])

Remove(s, actor) ==
  /\ Pressed(actor, "delete")
  /\ Begin(s, [op |-> "delete"])

SetPassword(s, actor) ==
  /\ Pressed(actor, "password")
  /\ Begin(s, [op |-> "password"])

ResendInvite(s, actor) ==
  /\ Pressed(actor, "invalidate")
  /\ ~account.password
  /\ Begin(s, [op |-> "invalidate"])

\* updateRole (no page calls it): the tenant's owner within the tenant, the
\* platform by hierarchy.
UpdateRole(s, actor, to) ==
  /\ Exists
  /\ IF actor = "ORGANIZER_OWNER"
     THEN {account.role, to} \subseteq TenantRoles
     ELSE CanManageTarget(actor, account.role) /\ to \in CreatableBy[actor]
  /\ Begin(s, [op |-> "role", to |-> to])

\* The three pages' create forms; a scanner gets its password there.
InvitedUsers(actor) == {Row(r, FALSE) : r \in CreatableBy[actor]}
InvitedMembers(actor) ==
  {Row("ORGANIZER_MEMBER", FALSE) : a \in MembersPage.actors \cap {actor}}
NewScanners(actor) ==
  {Row("SCANNER", TRUE) : a \in ScannersPage.actors \cap {actor}}

\* The e-mail is free.
CreateAccount(s, actor) ==
  /\ ~Exists /\ ~deleted
  /\ \E row \in InvitedUsers(actor) \cup InvitedMembers(actor)
                 \cup NewScanners(actor) :
       row.role \in NewRoles /\ Begin(s, [op |-> "create", row |-> row])

(***************************************************************************)
(* ... and write, by id: the row may have changed or gone meanwhile.       *)
(***************************************************************************)
Answer(s) == call' = [call EXCEPT ![s] = NoCall]

Write(s, op, row) ==
  /\ call[s].op = op
  /\ Exists
  /\ account' = row
  /\ Answer(s)
  /\ UNCHANGED <<deleted, links, form, forgot>>

\* (mutant: the service flips what it finds)
FlipActive(s) == Write(s, "active", [account EXCEPT !.active = ~@])

WriteActive(s) == Write(s, "active", [account EXCEPT !.active = call[s].to])
WriteRole(s) ==
  Write(s, "role", [account EXCEPT !.role = call[s].to])
WritePassword(s) == Write(s, "password", [account EXCEPT !.password = TRUE])

\* onDelete: Cascade takes the links along (and the refresh tokens).
Delete(s) ==
  /\ call[s].op = "delete"
  /\ Exists
  /\ account' = Nobody
  /\ deleted' = TRUE
  /\ links' = <<>>
  /\ Answer(s)
  /\ UNCHANGED <<form, forgot>>

\* Users and members are invited next; a scanner has its password.
InsertAccount(s) ==
  /\ call[s].op = "create"
  /\ ~Exists /\ ~deleted
  /\ account' = call[s].row
  /\ call' = [call EXCEPT ![s] = IF account'.password
                                  THEN NoCall ELSE [op |-> "invalidate"]]
  /\ UNCHANGED <<deleted, links, form, forgot>>

AllUsed == [l \in DOMAIN links |-> "used"]

InvalidateLinks(s) ==
  /\ call[s].op = "invalidate"
  /\ Len(links) < MaxLinks
  /\ links' = AllUsed
  /\ call' = [call EXCEPT ![s] = [op |-> "mail"]]
  /\ UNCHANGED <<account, deleted, form, forgot>>

SendInvite(s) ==
  /\ call[s].op = "mail"
  /\ Exists
  /\ Len(links) < MaxLinks
  /\ links' = Append(links, "unused")
  /\ Answer(s)
  /\ UNCHANGED <<account, deleted, form, forgot>>

\* A write that finds no row (or, for a create, finds one), a failure or a
\* restart.
FailCall(s) ==
  /\ call[s] # NoCall
  /\ Answer(s)
  /\ UNCHANGED <<account, deleted, links, form, forgot>>

(***************************************************************************)
(* forgotPassword and resetPassword.                                       *)
(***************************************************************************)
ForgotPassword ==
  /\ forgot = "idle"
  /\ Exists
  /\ account.active /\ account.password
  /\ Len(links) < MaxLinks
  /\ forgot' = "invalidate"
  /\ UNCHANGED <<account, deleted, links, call, form>>

ForgotInvalidates ==
  /\ forgot = "invalidate"
  /\ links' = AllUsed
  /\ forgot' = "mail"
  /\ UNCHANGED <<account, deleted, call, form>>

ForgotMails ==
  /\ forgot = "mail"
  /\ forgot' = "idle"
  /\ links' = IF Exists /\ Len(links) < MaxLinks THEN Append(links, "unused")
                                                 ELSE links
  /\ UNCHANGED <<account, deleted, call, form>>

\* resetPassword finds an unused link, and hashes the password.
FindLink(f, l) ==
  /\ form[f] = Nobody
  /\ l \in DOMAIN links
  /\ links[l] = "unused"
  /\ form' = [form EXCEPT ![f] = l]
  /\ UNCHANGED <<account, deleted, links, call, forgot>>

\* The transaction updates link and user by id (the tokens: Sessions).
ResetPassword(f) ==
  /\ form[f] # Nobody
  /\ form[f] \in DOMAIN links
  /\ links' = [links EXCEPT ![form[f]] = "used"]
  /\ account' = [account EXCEPT !.password = TRUE]
  /\ form' = [form EXCEPT ![f] = Nobody]
  /\ UNCHANGED <<deleted, call, forgot>>

FailReset(f) ==
  /\ form[f] # Nobody
  /\ form' = [form EXCEPT ![f] = Nobody]
  /\ UNCHANGED <<account, deleted, links, call, forgot>>

ExpireLink(l) ==
  /\ l \in DOMAIN links
  /\ links[l] = "unused"
  /\ \A f \in Forms : form[f] # l
  /\ links' = [links EXCEPT ![l] = "used"]
  /\ UNCHANGED <<account, deleted, call, form, forgot>>

\* Everything but what also changes refresh tokens.
Administer ==
  \/ \E s \in Staff, actor \in Actors :
       \/ \E to \in BOOLEAN : SetActive(s, actor, to)
       \/ Remove(s, actor) \/ SetPassword(s, actor)
       \/ ResendInvite(s, actor) \/ CreateAccount(s, actor)
       \/ \E to \in NewRoles : UpdateRole(s, actor, to)
  \/ \E s \in Staff :
       \/ WriteActive(s) \/ WriteRole(s) \/ WritePassword(s)
       \/ InsertAccount(s) \/ InvalidateLinks(s) \/ SendInvite(s)
       \/ FailCall(s)
  \/ ForgotPassword \/ ForgotInvalidates \/ ForgotMails
  \/ \E f \in Forms, l \in 1..MaxLinks : FindLink(f, l)
  \/ \E f \in Forms : FailReset(f)
  \/ \E l \in 1..MaxLinks : ExpireLink(l)

-----------------------------------------------------------------------------
\* Well-formed rows, links and calls.
AccountsTypeOK ==
  /\ account \in Rows \cup {Nobody}
  /\ deleted \in BOOLEAN
  /\ links \in Seq({"unused", "used"}) /\ Len(links) <= MaxLinks
  /\ \A s \in Staff : call[s] = NoCall \/
       call[s].op \in UsersApi \cup MembersApi \cup ScannersApi
  /\ form \in [Forms -> 1..MaxLinks \cup {Nobody}]
  /\ forgot \in {"idle", "invalidate", "mail"}

\* A button does what it says: however old the page it is on, and whoever
\* else acts on the account, "deactivate" never lets an account back in and
\* "activate" never locks one out.
SwitchDoesWhatItSays ==
  [][Exists /\ account' # Nobody /\ account'.active # account.active =>
       \E s \in Staff : /\ call[s].op = "active"
                        /\ call[s].to = account'.active]_accountVars

=============================================================================
