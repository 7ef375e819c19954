--------------------------- MODULE Sessions_proofs ---------------------------
(***************************************************************************)
(* The safety of Sessions, and of the account they belong to, for any      *)
(* number of tabs, back-office pages, reset forms, links and tokens.       *)
(***************************************************************************)
EXTENDS Sessions, SequenceTheorems, FiniteSetTheorems, TLAPS

\* The calls of the back office, with what they carry.
Calls ==
  {NoCall} \cup [op : {"active"}, to : BOOLEAN]
    \cup [op : {"role"}, to : UserRole] \cup [op : {"create"}, row : Rows]
    \cup [op : {"delete", "password", "invalidate", "mail"}]

\* Links belong to the account, which never comes back.
AccountInv ==
  /\ AccountsTypeOK
  /\ call \in [Staff -> Calls]
  /\ links # <<>> => Exists
  /\ deleted => ~Exists

\* The calls of the tabs.  A pair about to be issued names the session it
\* continues (a login names none yet).
Kinds == {"refresh", "login", "register"}
Pairs == [session : 0..Len(tokens), live : BOOLEAN, born : 0..resets,
          spared : BOOLEAN]
Lookups == [kind : {"refresh"}, at : {"find", "claim", "denied"},
            token : 1..Len(tokens)]
Issues == [kind : Kinds, at : {"issue"}, pair : Pairs]
Grants == [kind : Kinds, at : {"granted"}, token : 1..Len(tokens)]
Failures == [kind : Kinds, at : {"unavailable"}]

RequestInv ==
  request \in [Tabs -> {NoRequest} \cup Lookups \cup Issues \cup Grants
                         \cup Failures]

\* Between the claim of a rotation and its pair the session has no live
\* token, and nobody else makes one for it.
Rotating(b) == At(b, "issue") /\ request[b].kind = "refresh"

ForkInv ==
  /\ OneLiveToken
  /\ \A b \in Tabs : Rotating(b) =>
       /\ request[b].pair.session \in 1..Len(tokens)
       /\ \A n \in DOMAIN tokens :
            tokens[n].session = request[b].pair.session => ~Live(n)
  /\ \A b, d \in Tabs :
       /\ Rotating(b) /\ Rotating(d)
       /\ request[b].pair.session = request[d].pair.session
       => b = d

\* A pair about to be issued is as new as the resets, or was spared.
ResetInv ==
  /\ ResetEndsSessions
  /\ \A b \in Tabs :
       At(b, "issue") => request[b].pair.born = resets \/ request[b].pair.spared

\* There is room for the token of every call that can still be given one.
Productive == {b \in Pending : At(b, "issue") \/ Live(request[b].token)}

RoomInv ==
  /\ IsFiniteSet(Pending)
  /\ Len(tokens) + Cardinality(Productive) <= MaxTokens

IInv ==
  /\ AccountInv
  /\ SessionsTypeOK
  /\ resets \in Nat
  /\ RequestInv
  /\ ForkInv
  /\ ResetInv
  /\ RoomInv

-----------------------------------------------------------------------------
(***************************************************************************)
(* The account.                                                            *)
(***************************************************************************)
LEMMA CallForms ==
  ASSUME call \in [Staff -> Calls], NEW s \in Staff
  PROVE  /\ call[s].op = "active" => call[s].to \in BOOLEAN
         /\ call[s].op = "role" => call[s].to \in UserRole
         /\ call[s].op = "create" => call[s].row \in Rows
  BY DEF Calls, NoCall

LEMMA CallOps ==
  ASSUME NEW c \in Calls
  PROVE  c = NoCall \/ c.op \in UsersApi \cup MembersApi \cup ScannersApi
  BY DEF Calls, NoCall, UsersApi, MembersApi, ScannersApi

\* A step that changes no more than the account, the links and the calls, and
\* neither deletes nor creates.
LEMMA AccountStep ==
  ASSUME AccountInv,
         account' \in Rows \cup {Nobody}, Exists' <=> Exists,
         deleted' = deleted,
         links' \in Seq({"unused", "used"}), Len(links') <= MaxLinks,
         links' = <<>> \/ Exists,
         call' \in [Staff -> Calls],
         form' \in [Forms -> 1..MaxLinks \cup {Nobody}],
         forgot' \in {"idle", "invalidate", "mail"}
  PROVE  AccountInv'
<1>1. \A s \in Staff :
        call'[s] = NoCall \/
          call'[s].op \in UsersApi \cup MembersApi \cup ScannersApi
  BY CallOps
<1> QED
  BY <1>1 DEF AccountInv, AccountsTypeOK, Exists

\* The switch of an account turns only by a call that says so.
Switched ==
  Exists /\ account' # Nobody /\ account'.active # account.active =>
    \E s \in Staff : call[s].op = "active" /\ call[s].to = account'.active

\* The next call a page begins.
LEMMA BeginStep ==
  ASSUME AccountInv, NEW s \in Staff, NEW c \in Calls, Begin(s, c)
  PROVE  AccountInv' /\ Switched /\ (Exists' <=> Exists)
<1>1. call' \in [Staff -> Calls]
  BY DEF AccountInv, Begin
<1>2. UNCHANGED <<account, deleted, links, form, forgot>>
  BY DEF Begin
<1> QED
  BY <1>1, <1>2, AccountStep DEF AccountInv, AccountsTypeOK, Exists, Switched

LEMMA RequestedCalls ==
  ASSUME NEW s \in Staff, NEW actor \in Actors, AccountInv,
         \/ \E to \in BOOLEAN : SetActive(s, actor, to)
         \/ Remove(s, actor) \/ SetPassword(s, actor)
         \/ ResendInvite(s, actor) \/ CreateAccount(s, actor)
         \/ \E to \in NewRoles : UpdateRole(s, actor, to)
  PROVE  \E c \in Calls : Begin(s, c)
<1>1. ASSUME NEW to \in BOOLEAN, SetActive(s, actor, to)
      PROVE  \E c \in Calls : Begin(s, c)
  <2>1. [op |-> "active", to |-> to] \in Calls
    BY DEF Calls
  <2> QED
    BY <1>1, <2>1 DEF SetActive
<1>2. CASE Remove(s, actor) \/ SetPassword(s, actor) \/ ResendInvite(s, actor)
  <2>1. {[op |-> "delete"], [op |-> "password"], [op |-> "invalidate"]}
          \subseteq Calls
    BY DEF Calls
  <2> QED
    BY <1>2, <2>1 DEF Remove, SetPassword, ResendInvite
<1>3. CASE CreateAccount(s, actor)
  <2>1. PICK row \in InvitedUsers(actor) \cup InvitedMembers(actor)
                       \cup NewScanners(actor) :
             row.role \in NewRoles /\ Begin(s, [op |-> "create", row |-> row])
    BY <1>3 DEF CreateAccount
  <2>2. \E role : row = Row(role, FALSE) \/ row = Row(role, TRUE)
    BY DEF InvitedUsers, InvitedMembers, NewScanners
  <2>3. row \in Rows
    <3>1. PICK role : row = Row(role, FALSE) \/ row = Row(role, TRUE)
      BY <2>2
    <3>2. role \in UserRole
      BY <2>1, <3>1, AccountsAssumption DEF Row
    <3>3. Row(role, TRUE) \in Rows /\ Row(role, FALSE) \in Rows
      BY <3>2 DEF Row, Rows
    <3> QED
      BY <3>1, <3>3
  <2>4. [op |-> "create", row |-> row] \in Calls
    BY <2>3 DEF Calls
  <2> QED
    BY <2>1, <2>4
<1>4. ASSUME NEW to \in NewRoles, UpdateRole(s, actor, to)
      PROVE  \E c \in Calls : Begin(s, c)
  <2>1. [op |-> "role", to |-> to] \in Calls
    BY AccountsAssumption DEF Calls
  <2> QED
    BY <1>4, <2>1 DEF UpdateRole
<1> QED
  BY <1>1, <1>2, <1>3, <1>4

\* The writes by id; each keeps the switch but the one that was asked to turn
\* it.
LEMMA WriteStep ==
  ASSUME AccountInv, NEW s \in Staff, NEW op, NEW row \in Rows,
         Write(s, op, row),
         \/ row.active = account.active
         \/ op = "active" /\ row.active = call[s].to
  PROVE  AccountInv' /\ Switched /\ (Exists' <=> Exists)
<1>1. call' \in [Staff -> Calls]
  BY DEF AccountInv, Write, Answer, Calls
<1>2. UNCHANGED <<deleted, links, form, forgot>> /\ account' = row /\ Exists
  BY DEF Write
<1>3. Exists'
  BY <1>2, AccountsAssumption DEF Exists
<1>4. Switched
  BY <1>2 DEF Switched, Write
<1> QED
  BY <1>1, <1>2, <1>3, <1>4, AccountStep DEF AccountInv, AccountsTypeOK

LEMMA WritesStep ==
  ASSUME AccountInv, NEW s \in Staff,
         WriteActive(s) \/ WriteRole(s) \/ WritePassword(s)
  PROVE  AccountInv' /\ Switched /\ (Exists' <=> Exists)
<1>1. account \in Rows /\ call \in [Staff -> Calls]
  BY DEF WriteActive, WriteRole, WritePassword, Write, AccountInv,
         AccountsTypeOK, Exists
<1>2. CASE WriteActive(s)
  <2>1. call[s].to \in BOOLEAN
    BY <1>1, <1>2, CallForms DEF WriteActive, Write
  <2>2. /\ [account EXCEPT !.active = call[s].to] \in Rows
        /\ [account EXCEPT !.active = call[s].to].active = call[s].to
    BY <1>1, <2>1 DEF Rows
  <2> QED
    BY <1>2, <2>2, WriteStep DEF WriteActive
<1>3. CASE WriteRole(s)
  <2>1. call[s].to \in UserRole
    BY <1>1, <1>3, CallForms DEF WriteRole, Write
  <2>2. /\ [account EXCEPT !.role = call[s].to] \in Rows
        /\ [account EXCEPT !.role = call[s].to].active = account.active
    BY <1>1, <2>1 DEF Rows
  <2> QED
    BY <1>3, <2>2, WriteStep DEF WriteRole
<1>4. CASE WritePassword(s)
  <2>1. /\ [account EXCEPT !.password = TRUE] \in Rows
        /\ [account EXCEPT !.password = TRUE].active = account.active
    BY <1>1 DEF Rows
  <2> QED
    BY <1>4, <2>1, WriteStep DEF WritePassword
<1> QED
  BY <1>2, <1>3, <1>4

LEMMA InsertAccountStep ==
  ASSUME AccountInv, NEW s \in Staff, InsertAccount(s)
  PROVE  AccountInv' /\ Switched /\ Exists'
<1>1. call[s].row \in Rows
  BY CallForms DEF AccountInv, InsertAccount
<1>2. account' \in Rows /\ Exists'
  BY <1>1, AccountsAssumption DEF InsertAccount, Exists
<1>3. call' \in [Staff -> Calls]
  BY DEF AccountInv, InsertAccount, Calls
<1>4. \A t \in Staff :
        call'[t] = NoCall \/
          call'[t].op \in UsersApi \cup MembersApi \cup ScannersApi
  BY <1>3, CallOps
<1>5. UNCHANGED <<deleted, links, form, forgot>> /\ ~Exists /\ ~deleted
  BY DEF InsertAccount
<1> QED
  BY <1>2, <1>3, <1>4, <1>5 DEF AccountInv, AccountsTypeOK, Switched

LEMMA FunctionIsSeq ==
  ASSUME NEW S, NEW n \in Nat, NEW f \in [1..n -> S]
  PROVE  f \in Seq(S) /\ Len(f) = n
  BY SeqDef, LenProperties

LEMMA UpdatedLinks ==
  ASSUME AccountInv
  PROVE  /\ AllUsed \in Seq({"unused", "used"})
         /\ Len(AllUsed) = Len(links)
         /\ \A l \in DOMAIN links :
              /\ [links EXCEPT ![l] = "used"] \in Seq({"unused", "used"})
              /\ Len([links EXCEPT ![l] = "used"]) = Len(links)
<1>1. links \in Seq({"unused", "used"}) /\ Len(links) \in Nat
        /\ DOMAIN links = 1..Len(links)
  BY LenProperties DEF AccountInv, AccountsTypeOK
<1>2. AllUsed \in [1..Len(links) -> {"unused", "used"}]
  BY <1>1 DEF AllUsed
<1> QED
  BY <1>1, <1>2, FunctionIsSeq, ExceptSeq

\* Invitations, forgotten passwords and expiry: the links change, and with
\* them the call that waits.
LEMMA LinksStep ==
  ASSUME AccountInv, UNCHANGED <<account, deleted>>,
         \/ UNCHANGED links
         \/ links' = AllUsed
         \/ \E l \in DOMAIN links : links' = [links EXCEPT ![l] = "used"]
         \/ links' = Append(links, "unused") /\ Exists /\ Len(links) < MaxLinks,
         call' \in [Staff -> Calls],
         form' \in [Forms -> 1..MaxLinks \cup {Nobody}],
         forgot' \in {"idle", "invalidate", "mail"}
  PROVE  AccountInv' /\ Switched /\ (Exists' <=> Exists)
<1>1. links \in Seq({"unused", "used"}) /\ Len(links) <= MaxLinks
        /\ Len(links) \in Nat
  BY LenProperties DEF AccountInv, AccountsTypeOK
<1>2. CASE links' = Append(links, "unused") /\ Exists /\ Len(links) < MaxLinks
  <2>1. links' \in Seq({"unused", "used"}) /\ Len(links') = Len(links) + 1
    BY <1>1, <1>2, AppendProperties
  <2>2. Len(links') <= MaxLinks
    BY <1>1, <1>2, <2>1, AccountsAssumption
  <2> QED
    BY <1>2, <2>1, <2>2, AccountStep
    DEF AccountInv, AccountsTypeOK, Exists, Switched
<1>3. CASE \/ UNCHANGED links
           \/ links' = AllUsed
           \/ \E l \in DOMAIN links : links' = [links EXCEPT ![l] = "used"]
  <2>1. links' \in Seq({"unused", "used"}) /\ Len(links') = Len(links)
    BY <1>1, <1>3, UpdatedLinks
  <2>2. links' = <<>> \/ Exists
    BY <1>1, <2>1, EmptySeq DEF AccountInv
  <2> QED
    BY <1>1, <2>1, <2>2, AccountStep
    DEF AccountInv, AccountsTypeOK, Exists, Switched
<1> QED
  BY <1>2, <1>3

LEMMA AdministerStep ==
  ASSUME AccountInv, Administer
  PROVE  AccountInv' /\ Switched /\ (Exists => Exists')
<1> DEFINE Kept == AccountInv' /\ Switched /\ (Exists => Exists')
<1>0. /\ call \in [Staff -> Calls]
      /\ form \in [Forms -> 1..MaxLinks \cup {Nobody}]
      /\ forgot \in {"idle", "invalidate", "mail"}
      /\ links \in Seq({"unused", "used"}) /\ Len(links) <= MaxLinks
  BY DEF AccountInv, AccountsTypeOK
<1>1. ASSUME NEW s \in Staff, NEW actor \in Actors,
             \/ \E to \in BOOLEAN : SetActive(s, actor, to)
             \/ Remove(s, actor) \/ SetPassword(s, actor)
             \/ ResendInvite(s, actor) \/ CreateAccount(s, actor)
             \/ \E to \in NewRoles : UpdateRole(s, actor, to)
      PROVE  Kept
  <2>1. \E c \in Calls : Begin(s, c)
    BY <1>1, RequestedCalls
  <2> QED
    BY <2>1, BeginStep
<1>2. ASSUME NEW s \in Staff, WriteActive(s) \/ WriteRole(s) \/ WritePassword(s)
      PROVE  Kept
  BY <1>2, WritesStep
<1>3. ASSUME NEW s \in Staff, InsertAccount(s) PROVE Kept
  BY <1>3, InsertAccountStep
<1>4. ASSUME NEW s \in Staff, InvalidateLinks(s) PROVE Kept
  <2>1. call' \in [Staff -> Calls]
    BY <1>0, <1>4 DEF InvalidateLinks, Calls
  <2> QED
    BY <1>0, <1>4, <2>1, LinksStep DEF InvalidateLinks
<1>5. ASSUME NEW s \in Staff, SendInvite(s) PROVE Kept
  <2>1. call' \in [Staff -> Calls]
    BY <1>0, <1>5 DEF SendInvite, Answer, Calls
  <2> QED
    BY <1>0, <1>5, <2>1, LinksStep DEF SendInvite
<1>6. ASSUME NEW s \in Staff, FailCall(s) PROVE Kept
  <2>1. call' \in [Staff -> Calls]
    BY <1>0, <1>6 DEF FailCall, Answer, Calls
  <2> QED
    BY <1>0, <1>6, <2>1, LinksStep DEF FailCall
<1>7. ASSUME ForgotPassword PROVE Kept
  BY <1>0, <1>7, LinksStep DEF ForgotPassword
<1>8. ASSUME ForgotInvalidates PROVE Kept
  BY <1>0, <1>8, LinksStep DEF ForgotInvalidates
<1>9. ASSUME ForgotMails PROVE Kept
  BY <1>0, <1>9, LinksStep DEF ForgotMails
<1>10. ASSUME NEW f \in Forms, NEW l \in 1..MaxLinks, FindLink(f, l) PROVE Kept
  <2>1. form' \in [Forms -> 1..MaxLinks \cup {Nobody}]
    BY <1>0, <1>10 DEF FindLink
  <2> QED
    BY <1>0, <1>10, <2>1, LinksStep DEF FindLink
<1>11. ASSUME NEW f \in Forms, FailReset(f) PROVE Kept
  <2>1. form' \in [Forms -> 1..MaxLinks \cup {Nobody}]
    BY <1>0, <1>11 DEF FailReset
  <2> QED
    BY <1>0, <1>11, <2>1, LinksStep DEF FailReset
<1>12. ASSUME NEW l \in 1..MaxLinks, ExpireLink(l) PROVE Kept
  BY <1>0, <1>12, LinksStep DEF ExpireLink
<1> HIDE DEF Kept
<1>13. ASSUME NEW s \in Staff,
              \/ WriteActive(s) \/ WriteRole(s) \/ WritePassword(s)
              \/ InsertAccount(s) \/ InvalidateLinks(s) \/ SendInvite(s)
              \/ FailCall(s)
       PROVE  Kept
  BY <1>2, <1>3, <1>4, <1>5, <1>6, <1>13
<1>14. Kept
  BY <1>1, <1>7, <1>8, <1>9, <1>10, <1>11, <1>12, <1>13, Zenon
  DEF Administer
<1> QED
  BY <1>14 DEF Kept

LEMMA ResetPasswordStep ==
  ASSUME AccountInv, NEW f \in Forms, ResetPassword(f)
  PROVE  AccountInv' /\ Switched /\ Exists /\ Exists'
<1>1. links \in Seq({"unused", "used"}) /\ DOMAIN links = 1..Len(links)
        /\ Len(links) \in Nat
  BY LenProperties DEF AccountInv, AccountsTypeOK
<1>2. links # <<>> /\ Exists /\ account \in Rows
  BY <1>1, EmptySeq DEF AccountInv, AccountsTypeOK, ResetPassword, Exists
<1>3. account' \in Rows /\ account'.active = account.active /\ Exists'
  BY <1>2, AccountsAssumption DEF ResetPassword, Rows, Exists
<1>4. links' \in Seq({"unused", "used"}) /\ Len(links') = Len(links)
  BY UpdatedLinks DEF ResetPassword
<1>5. form' \in [Forms -> 1..MaxLinks \cup {Nobody}]
        /\ UNCHANGED <<deleted, call, forgot>>
  BY DEF AccountInv, AccountsTypeOK, ResetPassword
<1> QED
  BY <1>2, <1>3, <1>4, <1>5, AccountStep
  DEF AccountInv, AccountsTypeOK, Switched

LEMMA DeleteStep ==
  ASSUME AccountInv, NEW s \in Staff, Delete(s)
  PROVE  AccountInv' /\ Switched
<1>1. call' \in [Staff -> Calls]
  BY DEF AccountInv, Delete, Answer, Calls
<1>2. \A t \in Staff :
        call'[t] = NoCall \/
          call'[t].op \in UsersApi \cup MembersApi \cup ScannersApi
  BY <1>1, CallOps
<1>3. links' \in Seq({"unused", "used"}) /\ Len(links') <= MaxLinks
  BY EmptySeq, AccountsAssumption DEF Delete
<1> QED
  BY <1>1, <1>2, <1>3 DEF AccountInv, AccountsTypeOK, Exists, Delete, Switched

-----------------------------------------------------------------------------
(***************************************************************************)
(* Tokens and the calls about them.                                        *)
(***************************************************************************)
Token(n, k) == [session : 1..n, live : BOOLEAN, born : 0..k, spared : BOOLEAN]

LEMMA Counts ==
  ASSUME IInv
  PROVE  /\ Len(tokens) \in Nat /\ resets \in Nat /\ MaxTokens \in Nat
         /\ DOMAIN tokens = 1..Len(tokens)
         /\ tokens \in Seq(Token(Len(tokens), resets))
         /\ \A n \in 1..Len(tokens) : tokens[n] \in Token(Len(tokens), resets)
<1>1. tokens \in Seq(Token(Len(tokens), resets))
  BY DEF IInv, SessionsTypeOK, Token
<1>2. /\ Len(tokens) \in Nat /\ DOMAIN tokens = 1..Len(tokens)
      /\ \A n \in 1..Len(tokens) : tokens[n] \in Token(Len(tokens), resets)
  BY <1>1, LenProperties, ElementOfSeq
<1> QED
  BY <1>1, <1>2, SessionsAssumption DEF IInv

\* Rows stay well formed while tokens are issued and passwords reset.
LEMMA TokenGrows ==
  ASSUME NEW n \in Nat, NEW k \in Nat, NEW m \in Nat, NEW l \in Nat,
         n <= m, k <= l, NEW s \in Seq(Token(n, k))
  PROVE  s \in Seq(Token(m, l))
<1>1. Token(n, k) \subseteq Token(m, l)
  BY DEF Token
<1> QED
  BY <1>1, SeqMonotonic

Lookup(b) == At(b, "find") \/ At(b, "claim") \/ At(b, "denied")

LEMMA RequestForms ==
  ASSUME RequestInv, NEW b \in Tabs
  PROVE  /\ Lookup(b) => request[b] \in Lookups
         /\ At(b, "issue") => request[b] \in Issues
         /\ At(b, "granted") => request[b] \in Grants
         /\ request[b] = NoRequest \/ request[b].kind \in Kinds
<1>1. request[b] \in {NoRequest} \cup Lookups \cup Issues \cup Grants
                       \cup Failures
  BY DEF RequestInv
<1> QED
  BY <1>1 DEF Lookup, At, NoRequest, Lookups, Issues, Grants, Failures, Kinds

LEMMA OneMore ==
  ASSUME NEW S, IsFiniteSet(S), NEW x
  PROVE  /\ IsFiniteSet(S \cup {x})
         /\ Cardinality(S \cup {x}) <= Cardinality(S) + 1
<1>1. Cardinality(S) \in Nat
  BY FS_CardinalityType
<1>2. /\ IsFiniteSet(S \cup {x})
      /\ Cardinality(S \cup {x}) \in {Cardinality(S), Cardinality(S) + 1}
  BY FS_AddElement
<1> QED
  BY <1>1, <1>2

\* Room for the tokens of the calls under way is kept by a step that begins
\* none.
LEMMA RoomKept ==
  ASSUME IInv, Pending' \subseteq Pending, Productive' \subseteq Productive,
         Len(tokens') = Len(tokens)
  PROVE  RoomInv'
<1>1. IsFiniteSet(Pending) /\ IsFiniteSet(Productive)
  BY FS_Subset DEF IInv, RoomInv, Productive
<1>2. /\ IsFiniteSet(Pending')
      /\ Cardinality(Productive') <= Cardinality(Productive)
      /\ Cardinality(Productive') \in Nat /\ Cardinality(Productive) \in Nat
  BY <1>1, FS_Subset, FS_CardinalityType
<1> QED
  BY <1>2, Counts DEF IInv, RoomInv

\* ... and by one that begins a call where there is room.
LEMMA RoomTaken ==
  ASSUME IInv, NEW b \in Tabs, Pending' \subseteq Pending \cup {b},
         Productive' \subseteq Productive \cup {b}, Room,
         Len(tokens') = Len(tokens)
  PROVE  RoomInv'
<1>1. IsFiniteSet(Pending) /\ IsFiniteSet(Productive)
  BY FS_Subset DEF IInv, RoomInv, Productive
<1>2. /\ Cardinality(Productive) <= Cardinality(Pending)
      /\ Cardinality(Pending) \in Nat /\ Cardinality(Productive) \in Nat
  BY <1>1, FS_Subset, FS_CardinalityType DEF Productive
<1>3. /\ IsFiniteSet(Pending \cup {b}) /\ IsFiniteSet(Productive \cup {b})
      /\ Cardinality(Productive \cup {b}) <= Cardinality(Productive) + 1
  BY <1>1, OneMore
<1>4. /\ IsFiniteSet(Pending')
      /\ Cardinality(Productive') <= Cardinality(Productive) + 1
      /\ Cardinality(Productive') \in Nat
  <2>1. /\ IsFiniteSet(Pending') /\ IsFiniteSet(Productive')
        /\ Cardinality(Productive') <= Cardinality(Productive \cup {b})
    BY <1>3, FS_Subset
  <2>2. Cardinality(Productive') \in Nat
          /\ Cardinality(Productive \cup {b}) \in Nat
    BY <1>3, <2>1, FS_CardinalityType
  <2> QED
    BY <1>2, <1>3, <2>1, <2>2
<1> QED
  BY <1>2, <1>4, Counts DEF IInv, RoomInv, Room

\* A step of the pages that neither makes a pair nor touches a row.
LEMMA PageStep ==
  ASSUME IInv, NEW b \in Tabs,
         NEW r \in {NoRequest} \cup Lookups \cup Grants \cup Failures,
         request' = [request EXCEPT ![b] = r],
         UNCHANGED <<accountVars, tokens, resets>>,
         jar' \in [host : 0..Len(tokens), domain : 0..Len(tokens)],
         access' \subseteq Tabs, leaving' \subseteq Tabs,
         RoomInv'
  PROVE  IInv'
<1> USE DEF IInv
<1>1. AccountInv'
  BY DEF accountVars, AccountInv, AccountsTypeOK, Exists, Rows
<1>2. SessionsTypeOK'
  BY <1>1, Counts
  DEF SessionsTypeOK, AccountInv, Live, Exists, accountVars
<1>3. RequestInv'
  BY DEF RequestInv, Lookups, Issues, Grants, Failures, Pairs
<1>4. ~At(b, "issue")' /\ \A d \in Tabs \ {b} : request'[d] = request[d]
  BY DEF RequestInv, NoRequest, Lookups, Grants, Failures, At
<1>5. ForkInv'
  BY <1>4 DEF ForkInv, OneLiveToken, Live, Rotating, At
<1>6. ResetInv'
  BY <1>4 DEF ResetInv, ResetEndsSessions, Live, At
<1> QED
  BY <1>1, <1>2, <1>3, <1>5, <1>6

\* A step that changes neither the account nor a token nor a call about one.
LEMMA CookieStep ==
  ASSUME IInv, UNCHANGED <<accountVars, tokens, resets, request>>,
         jar' \in [host : 0..Len(tokens), domain : 0..Len(tokens)],
         access' \subseteq Tabs, leaving' \subseteq Tabs
  PROVE  IInv'
<1> USE DEF IInv
<1>1. AccountInv'
  BY DEF accountVars, AccountInv, AccountsTypeOK, Exists, Rows
<1>2. SessionsTypeOK'
  BY <1>1, Counts
  DEF SessionsTypeOK, AccountInv, Live, Exists, accountVars
<1>3. RequestInv' /\ ForkInv' /\ ResetInv'
  BY DEF RequestInv, Lookups, Issues, Grants, Failures, Pairs, ForkInv,
         OneLiveToken, Live, Rotating, At, ResetInv, ResetEndsSessions
<1>4. RoomInv'
  BY RoomKept DEF Pending, Productive, At, Live
<1> QED
  BY <1>1, <1>2, <1>3, <1>4

LEMMA Places ==
  IInv => /\ jar \in [host : 0..Len(tokens), domain : 0..Len(tokens)]
          /\ access \subseteq Tabs /\ leaving \subseteq Tabs
          /\ Cookie \in 0..Len(tokens)
  BY DEF IInv, SessionsTypeOK, Cookie

LEMMA GetValidTokenStep ==
  ASSUME IInv, NEW b \in Tabs, GetValidToken(b)
  PROVE  IInv'
<1> DEFINE r == [kind |-> "refresh", at |-> "find", token |-> Cookie]
<1>1. r \in Lookups
  BY Places, Counts DEF GetValidToken, Lookups
<1>2. /\ request' = [request EXCEPT ![b] = r]
      /\ UNCHANGED <<accountVars, tokens, resets, jar, access, leaving>>
      /\ Live(Cookie) => Room
  BY DEF GetValidToken, Advance
<1>3. request'[b] = r /\ \A d \in Tabs \ {b} : request'[d] = request[d]
  BY <1>2 DEF IInv, RequestInv
<1>4. RoomInv'
  <2>1. Pending' \subseteq Pending \cup {b}
    BY <1>2, <1>3 DEF Pending, At
  <2>2. CASE Live(Cookie)
    <3>1. Productive' \subseteq Productive \cup {b}
      BY <1>2, <1>3 DEF Productive, Pending, At, Live
    <3> QED
      BY <1>2, <2>1, <2>2, <3>1, RoomTaken
  <2>3. CASE ~Live(Cookie)
    <3>1. Productive' \subseteq Productive
      BY <1>2, <1>3, <2>3 DEF Productive, Pending, At, Live
    <3>2. IsFiniteSet(Pending')
      BY <2>1, OneMore, FS_Subset DEF IInv, RoomInv
    <3>3. /\ IsFiniteSet(Productive) /\ IsFiniteSet(Productive')
          /\ Cardinality(Productive') <= Cardinality(Productive)
      BY <3>1, FS_Subset DEF IInv, RoomInv, Productive
    <3>4. Cardinality(Productive) \in Nat /\ Cardinality(Productive') \in Nat
      BY <3>3, FS_CardinalityType
    <3> QED
      BY <1>2, <3>2, <3>3, <3>4, Counts DEF IInv, RoomInv
  <2> QED
    BY <2>2, <2>3
<1> HIDE DEF r
<1> QED
  BY <1>1, <1>2, <1>4, Places, PageStep

\* The steps of a call that takes a place where it gets no token.
LEMMA CallEnds ==
  ASSUME IInv, NEW b \in Tabs,
         NEW r \in {NoRequest} \cup Lookups \cup Grants \cup Failures,
         r \in Lookups => /\ At(b, "find") /\ r.token = request[b].token
                          /\ r.at = "claim" => Live(r.token),
         request' = [request EXCEPT ![b] = r],
         UNCHANGED <<accountVars, tokens, resets>>,
         jar' \in [host : 0..Len(tokens), domain : 0..Len(tokens)],
         access' \subseteq Tabs, leaving' \subseteq Tabs
  PROVE  IInv'
<1>1. request'[b] = r /\ \A d \in Tabs \ {b} : request'[d] = request[d]
  BY DEF IInv, RequestInv
<1>2. Pending' \subseteq Pending /\ Productive' \subseteq Productive
  BY <1>1
  DEF Pending, Productive, At, Live, NoRequest, Lookups, Grants, Failures
<1>3. RoomInv'
  BY <1>2, RoomKept
<1> QED
  BY <1>3, PageStep

LEMMA FindTokenStep ==
  ASSUME IInv, NEW b \in Tabs, FindToken(b)
  PROVE  IInv'
<1> DEFINE r == [request[b] EXCEPT !.at =
                   IF Live(request[b].token) THEN "claim" ELSE "denied"]
<1>1. At(b, "find") /\ Advance(b, r)
  BY DEF FindToken
<1>2. request[b] \in Lookups
  BY <1>1, RequestForms DEF IInv, Lookup
<1>3. /\ r \in Lookups /\ r.token = request[b].token
      /\ r.at = "claim" => Live(r.token)
  BY <1>2 DEF Lookups
<1> HIDE DEF r
<1> QED
  BY <1>1, <1>3, Places, CallEnds DEF Advance

LEMMA UnavailableStep ==
  ASSUME IInv, NEW b \in Tabs, Unavailable(b)
  PROVE  IInv'
<1> DEFINE r == [kind |-> request[b].kind, at |-> "unavailable"]
<1>1. request[b].kind \in Kinds
  BY RequestForms DEF IInv, Unavailable, Pending, At, NoRequest
<1>2. r \in Failures /\ r \notin Lookups
  BY <1>1 DEF Failures, Lookups
<1>3. Advance(b, r)
  BY DEF Unavailable
<1> HIDE DEF r
<1> QED
  BY <1>2, <1>3, Places, CallEnds DEF Advance

LEMMA ArriveStep ==
  ASSUME IInv, NEW b \in Tabs, Arrive(b)
  PROVE  IInv'
<1>1. jar' \in [host : 0..Len(tokens), domain : 0..Len(tokens)]
  <2>1. CASE Granted(b)
    <3>1. request[b].token \in 1..Len(tokens)
      BY <2>1, RequestForms DEF Granted, IInv, Grants
    <3> QED
      BY <2>1, <3>1, Places, Counts DEF Granted
  <2>2. CASE Denied(b) \/ NoAnswer(b)
    BY <2>2, Places, Counts DEF Denied, NoAnswer
  <2> QED
    BY <2>1, <2>2 DEF Arrive
<1>2. access' \subseteq Tabs /\ Done(b)
  BY Places DEF Arrive, Granted, Denied, NoAnswer
<1>3. NoRequest \notin Lookups
  BY DEF NoRequest, Lookups
<1> QED
  BY <1>1, <1>2, <1>3, Places, CallEnds DEF Done

LEMMA LogoutsStep ==
  ASSUME IInv, NEW b \in Tabs, Logout(b) \/ LogoutAnswered(b) \/ Expire(b)
  PROVE  IInv'
<1>1. /\ jar' \in [host : 0..Len(tokens), domain : 0..Len(tokens)]
      /\ access' \subseteq Tabs /\ leaving' \subseteq Tabs
  BY Places, Counts DEF Logout, LogoutAnswered, Expire
<1> QED
  BY <1>1, CookieStep DEF Logout, LogoutAnswered, Expire

LEMMA NextPair ==
  ASSUME NEW t \in Token(Len(tokens), resets), Len(tokens) \in Nat
  PROVE  [t EXCEPT !.live = TRUE] \in Pairs
<1>1. [t EXCEPT !.live = TRUE] \in Token(Len(tokens), resets)
  BY DEF Token
<1>2. Token(Len(tokens), resets) \subseteq Pairs
  BY DEF Token, Pairs
<1> QED
  BY <1>1, <1>2

LEMMA TypeKept ==
  ASSUME IInv, UNCHANGED <<accountVars, resets>>,
         jar' = jar, access' = access, leaving' = leaving,
         Len(tokens') = Len(tokens),
         tokens' \in Seq(Token(Len(tokens), resets)),
         \A n \in DOMAIN tokens' : tokens'[n].live => tokens[n].live
  PROVE  AccountInv' /\ SessionsTypeOK'
<1>1. AccountInv'
  BY DEF IInv, accountVars, AccountInv, AccountsTypeOK, Exists, Rows
<1>2. DOMAIN tokens' = 1..Len(tokens)
  BY LenProperties
<1> QED
  BY <1>1, <1>2, Counts
  DEF IInv, SessionsTypeOK, AccountInv, Live, Exists, accountVars, Token

\* The rotation: the session loses its live token and gets one that rotates,
\* or, when another refresh was faster, nothing.
LEMMA ClaimRotationStep ==
  ASSUME IInv, NEW b \in Tabs, ClaimRotation(b)
  PROVE  IInv'
<1> DEFINE n == request[b].token
           dead == [tokens[n] EXCEPT !.live = FALSE]
           r == IF Live(n) THEN Successor(b)
                ELSE [request[b] EXCEPT !.at = "denied"]
<1>1. request[b] \in Lookups /\ n \in 1..Len(tokens) /\ At(b, "claim")
  BY RequestForms DEF IInv, Lookup, ClaimRotation, Revoke, Lookups
<1>2. /\ tokens' = [tokens EXCEPT ![n] = dead]
      /\ request' = [request EXCEPT ![b] = r]
      /\ UNCHANGED <<accountVars, resets, jar, access, leaving>>
  BY DEF ClaimRotation, Revoke
<1>3. tokens[n] \in Token(Len(tokens), resets)
  BY <1>1, Counts
<1>4. dead \in Token(Len(tokens), resets)
  BY <1>3 DEF Token
<1>5. /\ dead.session = tokens[n].session /\ dead.born = tokens[n].born
      /\ dead.spared = tokens[n].spared /\ ~dead.live
  BY <1>3 DEF Token
<1> HIDE DEF dead
<1>6. /\ tokens' \in Seq(Token(Len(tokens), resets))
      /\ Len(tokens') = Len(tokens) /\ DOMAIN tokens' = 1..Len(tokens)
      /\ \A m \in 1..Len(tokens) :
           tokens'[m] = IF m = n THEN dead ELSE tokens[m]
  <2> HIDE DEF n
  <2>1. /\ tokens' \in Seq(Token(Len(tokens), resets))
        /\ Len(tokens') = Len(tokens)
        /\ \A m \in 1..Len(tokens) :
             tokens'[m] = IF m = n THEN dead ELSE tokens[m]
    BY <1>1, <1>2, <1>4, Counts, ExceptSeq
  <2>2. DOMAIN tokens' = 1..Len(tokens)
    BY <2>1, LenProperties
  <2> QED
    BY <2>1, <2>2
<1>7. \A m \in 1..Len(tokens) : /\ tokens'[m].session = tokens[m].session
                                /\ tokens'[m].born = tokens[m].born
                                /\ tokens'[m].spared = tokens[m].spared
                                /\ tokens'[m].live => tokens[m].live /\ m # n
  BY <1>5, <1>6
<1>8. CASE Live(n)
  <2>1. r = [kind |-> "refresh", at |-> "issue",
             pair |-> [tokens[n] EXCEPT !.live = TRUE]]
    BY <1>8 DEF Successor
  <2>2. r \in Issues /\ r.pair.session = tokens[n].session
          /\ r.pair.born = tokens[n].born /\ r.pair.spared = tokens[n].spared
          /\ r.kind = "refresh" /\ r.at = "issue"
    <3> DEFINE p == [tokens[n] EXCEPT !.live = TRUE]
    <3>1. p.session = tokens[n].session /\ p.born = tokens[n].born
            /\ p.spared = tokens[n].spared
      BY <1>3 DEF Token
    <3>2. p \in Pairs
      BY <1>3, Counts, NextPair
    <3> HIDE DEF p, r
    <3>3. r = [kind |-> "refresh", at |-> "issue", pair |-> p]
      BY <2>1 DEF p
    <3> QED
      BY <3>1, <3>2, <3>3 DEF Issues, Kinds
  <2>3. tokens[n].born = resets \/ tokens[n].spared
    BY <1>1, <1>8, Counts DEF IInv, ResetInv, ResetEndsSessions
  <2>4. \A d \in Tabs : Rotating(d) =>
          request[d].pair.session # tokens[n].session
    BY <1>1, <1>8, Counts DEF IInv, ForkInv
  <2>5. \A m \in 1..Len(tokens) :
          Live(m) /\ tokens[m].session = tokens[n].session => m = n
    BY <1>1, <1>8, Counts DEF IInv, ForkInv, OneLiveToken
  <2>6. tokens[n].session \in 1..Len(tokens)
    BY <1>3 DEF Token
  <2> HIDE DEF r, n
  <2>7. request'[b] = r /\ \A d \in Tabs \ {b} : request'[d] = request[d]
    BY <1>2 DEF IInv, RequestInv
  <2>8. RequestInv'
    BY <1>2, <1>6, <2>2
    DEF IInv, RequestInv, Lookups, Issues, Grants, Failures, Pairs
  <2>9. ForkInv'
    BY <1>6, <1>7, <2>2, <2>4, <2>5, <2>6, <2>7, Counts
    DEF IInv, ForkInv, OneLiveToken, Live, Rotating, At
  <2>10. ResetInv'
    BY <1>2, <1>6, <1>7, <2>2, <2>3, <2>7, Counts
    DEF IInv, ResetInv, ResetEndsSessions, Live, At
  <2>11. Pending' \subseteq Pending /\ Productive' \subseteq Productive
    <3>1. b \in Pending /\ b \in Productive
      BY <1>1, <1>8 DEF Pending, Productive, n
    <3>2. \A d \in Tabs : At(d, "find") \/ At(d, "claim") =>
            request[d].token \in 1..Len(tokens)
      BY RequestForms DEF IInv, Lookup, Lookups
    <3> QED
      BY <1>7, <2>2, <2>7, <3>1, <3>2 DEF Pending, Productive, At, Live
  <2>12. RoomInv'
    BY <1>6, <2>11, RoomKept
  <2>13. AccountInv' /\ SessionsTypeOK' /\ resets' \in Nat
    BY <1>2, <1>6, <1>7, Counts, TypeKept DEF IInv, SessionsTypeOK, Live
  <2> QED
    BY <2>8, <2>9, <2>10, <2>12, <2>13 DEF IInv
<1>9. CASE ~Live(n)
  <2>1. tokens' = tokens
    <3>1. dead = tokens[n]
      BY <1>3, <1>9 DEF Token, Live, dead
    <3> HIDE DEF n
    <3> QED
      BY <1>1, <1>6, <3>1, Counts, SeqEqual
  <2>2. r \in Lookups /\ r.at = "denied"
    BY <1>1, <1>9 DEF Lookups
  <2> HIDE DEF r, n
  <2>3. request'[b] = r /\ \A d \in Tabs \ {b} : request'[d] = request[d]
    BY <1>2 DEF IInv, RequestInv
  <2>4. Pending' \subseteq Pending /\ Productive' \subseteq Productive
    BY <2>1, <2>2, <2>3 DEF Pending, Productive, At, Live
  <2>5. RoomInv'
    BY <2>1, <2>4, RoomKept
  <2> QED
    BY <1>2, <2>1, <2>2, <2>5, Places, PageStep
<1> QED
  BY <1>8, <1>9

\* The new token is the only live one of its session: a rotation found none
\* left, and a login names its session after the token.
LEMMA IssueTokenPairStep ==
  ASSUME IInv, NEW b \in Tabs, IssueTokenPair(b)
  PROVE  IInv'
<1> DEFINE N == Len(tokens)
           t == IF request[b].kind = "refresh" THEN request[b].pair
                ELSE [request[b].pair EXCEPT !.session = N + 1]
           r == [kind |-> request[b].kind, at |-> "granted", token |-> N + 1]
<1>1. /\ At(b, "issue") /\ request[b] \in Issues /\ Exists
      /\ request[b].kind \in Kinds /\ request[b].pair \in Pairs
  BY RequestForms DEF IInv, IssueTokenPair, Issues
<1>2. /\ tokens' = Append(tokens, t)
      /\ request' = [request EXCEPT ![b] = r]
      /\ UNCHANGED <<accountVars, resets, jar, access, leaving>>
  BY DEF IssueTokenPair
<1>3. /\ t \in Token(N + 1, resets)
      /\ t.born = request[b].pair.born /\ t.spared = request[b].pair.spared
      /\ t.session = IF request[b].kind = "refresh" THEN request[b].pair.session
                     ELSE N + 1
  <2>1. CASE request[b].kind = "refresh"
    <3>1. request[b].pair.session \in 1..N
      BY <1>1, <2>1 DEF IInv, ForkInv, Rotating
    <3> QED
      BY <1>1, <2>1, <3>1, Counts DEF Pairs, Token
  <2>2. CASE request[b].kind # "refresh"
    <3> DEFINE q == request[b].pair
    <3>1. q \in Pairs /\ t = [q EXCEPT !.session = N + 1]
      BY <1>1, <2>2
    <3> HIDE DEF q, t
    <3>2. /\ t.session = N + 1 /\ t.live = q.live
          /\ t.born = q.born /\ t.spared = q.spared
      BY <3>1 DEF Pairs
    <3>3. Pairs \subseteq [session : 0..N + 1, live : BOOLEAN,
                          born : 0..resets, spared : BOOLEAN]
      BY Counts DEF Pairs
    <3>4. t \in [session : 0..N + 1, live : BOOLEAN, born : 0..resets,
                spared : BOOLEAN]
      BY <3>1, <3>3, Counts
    <3>5. t \in Token(N + 1, resets)
      BY <3>2, <3>4, Counts DEF Token
    <3> QED
      BY <2>2, <3>2, <3>5 DEF q
  <2> QED
    BY <2>1, <2>2
<1> HIDE DEF t
<1>4. /\ tokens' \in Seq(Token(N + 1, resets))
      /\ Len(tokens') = N + 1 /\ DOMAIN tokens' = 1..N + 1
      /\ \A m \in 1..N : tokens'[m] = tokens[m]
      /\ tokens'[N + 1] = t
  <2>1. tokens \in Seq(Token(N + 1, resets))
    BY Counts, TokenGrows
  <2> QED
    BY <1>2, <1>3, <2>1, Counts, AppendProperties, LenProperties
<1>5. request'[b] = r /\ \A d \in Tabs \ {b} : request'[d] = request[d]
  BY <1>2 DEF IInv, RequestInv
<1>6. AccountInv'
  BY <1>2 DEF IInv, accountVars, AccountInv, AccountsTypeOK, Exists, Rows
<1>7. RoomInv'
  <2>1. b \in Productive /\ b \in Pending
    BY <1>1 DEF Productive, Pending
  <2>2. \A d \in Tabs : At(d, "find") \/ At(d, "claim") =>
          request[d].token \in 1..N
    BY RequestForms DEF IInv, Lookup, Lookups
  <2>3. Pending' \subseteq Pending /\ Productive' \subseteq Productive \ {b}
    BY <1>4, <1>5, <2>2 DEF Pending, Productive, At, Live
  <2>4. IsFiniteSet(Pending') /\ IsFiniteSet(Productive)
    BY <2>3, FS_Subset DEF IInv, RoomInv, Productive
  <2>5. /\ IsFiniteSet(Productive \ {b})
        /\ Cardinality(Productive \ {b}) = Cardinality(Productive) - 1
    BY <2>1, <2>4, FS_RemoveElement
  <2>6. /\ IsFiniteSet(Productive')
        /\ Cardinality(Productive') <= Cardinality(Productive \ {b})
    BY <2>3, <2>5, FS_Subset
  <2>7. Cardinality(Productive) \in Nat /\ Cardinality(Productive') \in Nat
    BY <2>4, <2>6, FS_CardinalityType
  <2> QED
    BY <1>4, <2>4, <2>5, <2>6, <2>7, Counts DEF IInv, RoomInv
<1>8. SessionsTypeOK'
  <2>1. Len(tokens') <= MaxTokens
    <3>1. IsFiniteSet(Productive')
      BY <1>7, FS_Subset DEF RoomInv, Productive
    <3>2. Cardinality(Productive') \in Nat
      BY <3>1, FS_CardinalityType
    <3> QED
      BY <1>4, <1>7, <3>2, Counts DEF RoomInv
  <2> QED
    BY <1>1, <1>2, <1>4, <1>6, <2>1, Counts
    DEF IInv, SessionsTypeOK, AccountInv, Exists, accountVars, Token
<1>9. RequestInv'
  <2>1. r \in Grants'
    BY <1>1, <1>4, Counts DEF Grants
  <2>2. /\ Lookups \subseteq Lookups' /\ Issues \subseteq Issues'
        /\ Grants \subseteq Grants' /\ Failures \subseteq Failures'
    BY <1>2, <1>4, Counts DEF Lookups, Issues, Grants, Failures, Pairs
  <2> HIDE DEF r
  <2> QED
    BY <1>2, <2>1, <2>2 DEF IInv, RequestInv
<1>10. ForkInv'
  <2>1. /\ ~Rotating(b)'
        /\ \A d \in Tabs \ {b} :
             Rotating(d)' => Rotating(d) /\ request'[d] = request[d]
    BY <1>5 DEF Rotating, At
  <2>2. \A d \in Tabs \ {b} : Rotating(d) =>
          /\ request[d].pair.session \in 1..N
          /\ request[d].pair.session # t.session
    BY <1>1, <1>3, Counts DEF IInv, ForkInv, Rotating
  <2>3. \A m \in 1..N : tokens[m].live => tokens[m].session # t.session
    <3>1. CASE request[b].kind = "refresh"
      BY <1>1, <1>3, <3>1, Counts DEF IInv, ForkInv, Rotating, Live
    <3>2. CASE request[b].kind # "refresh"
      BY <1>3, <3>2, Counts DEF Token
    <3> QED
      BY <3>1, <3>2
  <2>4. OneLiveToken'
    BY <1>4, <2>3, Counts DEF IInv, ForkInv, OneLiveToken, Live
  <2>5. \A d \in Tabs : Rotating(d)' =>
          /\ request'[d].pair.session \in 1..Len(tokens')
          /\ \A n \in DOMAIN tokens' :
               tokens'[n].session = request'[d].pair.session => ~Live(n)'
    BY <1>4, <2>1, <2>2, Counts DEF IInv, ForkInv, Live
  <2> QED
    BY <2>1, <2>4, <2>5 DEF IInv, ForkInv
<1>11. ResetInv'
  <2>1. t.born = resets \/ t.spared
    BY <1>1, <1>3 DEF IInv, ResetInv
  <2>2. ResetEndsSessions'
    BY <1>2, <1>4, <2>1, Counts DEF IInv, ResetInv, ResetEndsSessions, Live
  <2> QED
    BY <1>2, <1>5, <2>2 DEF IInv, ResetInv, At
<1> QED
  BY <1>2, <1>6, <1>7, <1>8, <1>9, <1>10, <1>11 DEF IInv

LEMMA NewSessionStep ==
  ASSUME IInv, NEW b \in Tabs, NEW kind \in {"login", "register"},
         NewSession(b, kind),
         AccountInv', Exists => Exists'
  PROVE  IInv'
<1> DEFINE p == [session |-> 0, live |-> TRUE, born |-> resets,
                 spared |-> FALSE]
           r == [kind |-> kind, at |-> "issue", pair |-> p]
<1>1. /\ request' = [request EXCEPT ![b] = r] /\ Room
      /\ UNCHANGED <<tokens, resets, jar, access, leaving>>
  BY DEF NewSession
<1>2. p \in Pairs
  <2>1. /\ 0 \in 0..Len(tokens) /\ resets \in 0..resets
    BY Counts
  <2> QED
    BY <2>1 DEF Pairs
<1>3. p.born = resets
  OBVIOUS
<1> HIDE DEF p
<1>4. r \in Issues
  BY <1>2 DEF Issues, Kinds
<1>5. r.kind # "refresh" /\ r.at = "issue" /\ r.pair = p
  OBVIOUS
<1> HIDE DEF r
<1>6. request'[b] = r /\ \A d \in Tabs \ {b} : request'[d] = request[d]
  BY <1>1 DEF IInv, RequestInv
<1>7. Pending' \subseteq Pending \cup {b}
        /\ Productive' \subseteq Productive \cup {b}
  BY <1>1, <1>6 DEF Pending, Productive, At, Live
<1>8. RoomInv'
  BY <1>1, <1>7, RoomTaken
<1>9. SessionsTypeOK'
  BY <1>1, Counts DEF IInv, SessionsTypeOK, AccountInv, Live
<1>10. RequestInv'
  BY <1>1, <1>4 DEF IInv, RequestInv, Lookups, Issues, Grants, Failures, Pairs
<1>11. ForkInv'
  BY <1>1, <1>5, <1>6 DEF IInv, ForkInv, OneLiveToken, Live, Rotating, At
<1>12. ResetInv'
  BY <1>1, <1>3, <1>5, <1>6 DEF IInv, ResetInv, ResetEndsSessions, Live, At
<1> QED
  BY <1>1, <1>8, <1>9, <1>10, <1>11, <1>12 DEF IInv

LEMMA LoginStep ==
  ASSUME IInv, NEW b \in Tabs, Login(b)
  PROVE  IInv' /\ Switched
<1>1. AccountInv' /\ Switched /\ (Exists => Exists')
  BY DEF IInv, Login, accountVars, AccountInv, AccountsTypeOK, Exists, Rows,
         Switched
<1> QED
  BY <1>1, NewSessionStep DEF Login

LEMMA RegisterStep ==
  ASSUME IInv, NEW b \in Tabs, Register(b)
  PROVE  IInv' /\ Switched
<1>1. account' \in Rows
  <2>1. PICK role \in UserRole : account' = Row(role, TRUE)
    <3>1. {"ORGANIZER_OWNER", "CUSTOMER"} \subseteq UserRole
      BY DEF UserRole
    <3> QED
      BY <3>1 DEF Register, NewOrganizer, NewCustomer
  <2>2. Row(role, TRUE) \in Rows
    BY DEF Row, Rows
  <2> QED
    BY <2>1, <2>2
<1>2. Exists'
  BY <1>1, AccountsAssumption DEF Exists
<1>3. ~Exists /\ ~deleted /\ UNCHANGED <<deleted, links, call, form, forgot>>
  BY DEF Register
<1>4. AccountInv' /\ Switched
  BY <1>1, <1>2, <1>3 DEF IInv, AccountInv, AccountsTypeOK, Switched
<1> QED
  BY <1>2, <1>4, NewSessionStep DEF Register

LEMMA DeadToken ==
  ASSUME NEW n, NEW k, NEW t \in Token(n, k)
  PROVE  /\ [t EXCEPT !.live = FALSE] \in Token(n, k)
         /\ ~[t EXCEPT !.live = FALSE].live
  BY DEF Token

LEMMA RevokedTokens ==
  ASSUME IInv, RevokeAll
  PROVE  /\ tokens' \in Seq(Token(Len(tokens), resets))
         /\ Len(tokens') = Len(tokens) /\ DOMAIN tokens' = 1..Len(tokens)
         /\ \A n \in 1..Len(tokens) : ~Live(n)'
<1>1. tokens' = [n \in 1..Len(tokens) |-> [tokens[n] EXCEPT !.live = FALSE]]
  BY Counts DEF RevokeAll
<1>2. \A n \in 1..Len(tokens) :
        /\ [tokens[n] EXCEPT !.live = FALSE] \in Token(Len(tokens), resets)
        /\ ~[tokens[n] EXCEPT !.live = FALSE].live
  BY Counts, DeadToken
<1>3. tokens' \in [1..Len(tokens) -> Token(Len(tokens), resets)]
  BY <1>1, <1>2
<1>4. /\ tokens' \in Seq(Token(Len(tokens), resets))
      /\ Len(tokens') = Len(tokens)
  BY <1>3, Counts, FunctionIsSeq
<1>5. DOMAIN tokens' = 1..Len(tokens)
  BY <1>1
<1>6. \A n \in 1..Len(tokens) : ~Live(n)'
  BY <1>1, <1>2 DEF Live
<1> QED
  BY <1>4, <1>5, <1>6

LEMMA ResetStep ==
  ASSUME IInv, NEW f \in Forms, ResetAndRevoke(f)
  PROVE  IInv' /\ Switched
<1>1. AccountInv' /\ Switched /\ Exists'
  BY ResetPasswordStep DEF IInv, ResetAndRevoke, Reset
<1>2. /\ tokens' \in Seq(Token(Len(tokens), resets))
      /\ Len(tokens') = Len(tokens) /\ DOMAIN tokens' = 1..Len(tokens)
      /\ \A n \in 1..Len(tokens) : ~Live(n)'
  BY RevokedTokens DEF ResetAndRevoke
<1>3. /\ resets' = resets + 1 /\ resets' \in Nat
      /\ UNCHANGED <<jar, access, leaving>>
  BY Counts DEF ResetAndRevoke, Reset
<1>4. /\ request' =
           [b \in Tabs |-> IF At(b, "issue")
                           THEN [request[b] EXCEPT !.pair.spared = TRUE]
                           ELSE request[b]]
  BY DEF ResetAndRevoke, Reset
<1>5. ASSUME NEW b \in Tabs
      PROVE  /\ ~At(b, "issue") => request'[b] = request[b]
             /\ At(b, "issue") =>
                  /\ request'[b] \in Issues'
                  /\ request'[b].kind = request[b].kind
                  /\ request'[b].pair.session = request[b].pair.session
                  /\ request'[b].pair.spared
             /\ \A place \in {"find", "claim", "issue"} :
                  At(b, place)' <=> At(b, place)
  <2>1. CASE ~At(b, "issue")
    BY <1>4, <2>1 DEF At
  <2>2. CASE At(b, "issue")
    <3> DEFINE q == request[b]
               p == request[b].pair
    <3>1. q \in Issues /\ p \in Pairs /\ q.pair = p
      BY <2>2, RequestForms DEF IInv, Issues
    <3>2. request'[b] = [q EXCEPT !.pair = [p EXCEPT !.spared = TRUE]]
      BY <1>4, <2>2
    <3> HIDE DEF q, p
    <3>3. [p EXCEPT !.spared = TRUE] \in Pairs
            /\ [p EXCEPT !.spared = TRUE].session = p.session
            /\ [p EXCEPT !.spared = TRUE].spared
      BY <3>1 DEF Pairs
    <3>4. Pairs \subseteq Pairs'
      BY <1>2, <1>3, Counts DEF Pairs
    <3>5. /\ request'[b] \in Issues' /\ request'[b].kind = q.kind
          /\ request'[b].at = "issue"
          /\ request'[b].pair.session = p.session /\ request'[b].pair.spared
      BY <3>1, <3>2, <3>3, <3>4 DEF Issues
    <3> QED
      BY <2>2, <3>5 DEF At, q, p
  <2> QED
    BY <2>1, <2>2
<1>6. RequestInv'
  <2>1. /\ Lookups \subseteq Lookups' /\ Issues \subseteq Issues'
        /\ Grants \subseteq Grants' /\ Failures \subseteq Failures'
    BY <1>2, <1>3, Counts DEF Lookups, Issues, Grants, Failures, Pairs
  <2>2. DOMAIN request' = Tabs /\ request' = [b \in Tabs |-> request'[b]]
    BY <1>4
  <2> QED
    BY <1>5, <2>1, <2>2 DEF IInv, RequestInv
<1>7. SessionsTypeOK'
  <2>1. tokens' \in Seq(Token(Len(tokens), resets'))
    BY <1>2, <1>3, Counts, TokenGrows
  <2> QED
    BY <1>1, <1>2, <1>3, <2>1, Counts
    DEF IInv, SessionsTypeOK, AccountInv, Token
<1>8. ForkInv'
  <2>1. \A b \in Tabs : Rotating(b)' =>
          Rotating(b) /\ request'[b].pair.session = request[b].pair.session
    BY <1>5 DEF Rotating
  <2> QED
    BY <1>2, <2>1 DEF IInv, ForkInv, OneLiveToken
<1>9. ResetInv'
  BY <1>2, <1>5 DEF ResetInv, ResetEndsSessions
<1>10. RoomInv'
  <2>1. \A b \in Tabs : At(b, "find") \/ At(b, "claim") =>
          request[b].token \in 1..Len(tokens) /\ ~At(b, "issue")
    BY RequestForms DEF IInv, Lookup, Lookups, At
  <2>2. Pending' \subseteq Pending
    BY <1>5 DEF Pending
  <2>3. Productive' \subseteq Productive
    <3> SUFFICES ASSUME NEW b \in Tabs, b \in Productive' PROVE b \in Productive
      BY DEF Productive, Pending
    <3>1. CASE At(b, "issue")
      BY <3>1 DEF Productive, Pending
    <3>2. CASE ~At(b, "issue")
      <4>1. /\ Live(request[b].token)'
            /\ At(b, "find") \/ At(b, "claim")
        BY <1>5, <3>2 DEF Productive, Pending
      <4> QED
        BY <1>2, <1>5, <2>1, <3>2, <4>1 DEF Live
    <3> QED
      BY <3>1, <3>2
  <2> QED
    BY <1>2, <2>2, <2>3, RoomKept
<1> QED
  BY <1>1, <1>3, <1>6, <1>7, <1>8, <1>9, <1>10 DEF IInv

LEMMA DeleteTokensStep ==
  ASSUME IInv, NEW s \in Staff, DeleteWithTokens(s)
  PROVE  IInv' /\ Switched
<1>1. AccountInv' /\ Switched
  BY DeleteStep DEF IInv, DeleteWithTokens
<1>2. /\ tokens' \in Seq(Token(Len(tokens), resets))
      /\ Len(tokens') = Len(tokens) /\ DOMAIN tokens' = 1..Len(tokens)
      /\ \A n \in 1..Len(tokens) : ~Live(n)'
  BY RevokedTokens DEF DeleteWithTokens
<1>3. UNCHANGED <<resets, jar, access, request, leaving>>
  BY DEF DeleteWithTokens
<1>4. SessionsTypeOK'
  BY <1>1, <1>2, <1>3, Counts DEF IInv, SessionsTypeOK, AccountInv, Token
<1>5. RequestInv'
  BY <1>2, <1>3
  DEF IInv, RequestInv, Lookups, Issues, Grants, Failures, Pairs
<1>6. ForkInv' /\ ResetInv'
  BY <1>2, <1>3 DEF IInv, ForkInv, ResetInv, OneLiveToken, ResetEndsSessions,
                    Rotating, At
<1>7. RoomInv'
  <2>1. \A b \in Tabs : At(b, "find") \/ At(b, "claim") =>
          request[b].token \in 1..Len(tokens)
    BY RequestForms DEF IInv, Lookup, Lookups
  <2>2. Pending' = Pending
    BY <1>3 DEF Pending, At
  <2>3. Productive' \subseteq Productive
    <3> SUFFICES ASSUME NEW b \in Tabs, b \in Productive' PROVE b \in Productive
      BY DEF Productive, Pending
    <3>1. CASE At(b, "issue")
      BY <3>1 DEF Productive, Pending
    <3>2. CASE ~At(b, "issue")
      <4>1. Live(request[b].token)' /\ (At(b, "find") \/ At(b, "claim"))
        BY <1>3, <3>2 DEF Productive, Pending, At
      <4> QED
        BY <1>2, <1>3, <2>1, <3>2, <4>1 DEF Live, Productive, Pending, At
    <3> QED
      BY <3>1, <3>2
  <2> QED
    BY <1>2, <2>2, <2>3, RoomKept
<1> QED
  BY <1>1, <1>3, <1>4, <1>5, <1>6, <1>7 DEF IInv

LEMMA BackOfficeStep ==
  ASSUME IInv, Administer, UNCHANGED sessionVars
  PROVE  IInv' /\ Switched
<1>1. AccountInv' /\ Switched /\ (Exists => Exists')
  BY AdministerStep DEF IInv
<1>2. UNCHANGED <<tokens, resets, jar, access, request, leaving>>
  BY DEF sessionVars
<1>3. SessionsTypeOK'
  BY <1>1, <1>2, Counts DEF IInv, SessionsTypeOK, AccountInv, Live
<1>4. RequestInv' /\ ForkInv' /\ ResetInv'
  BY <1>2 DEF IInv, RequestInv, Lookups, Issues, Grants, Failures, Pairs,
              ForkInv, OneLiveToken, Live, Rotating, At, ResetInv,
              ResetEndsSessions
<1>5. RoomInv'
  BY <1>2, RoomKept DEF Pending, Productive, At, Live
<1> QED
  BY <1>1, <1>2, <1>3, <1>4, <1>5 DEF IInv

-----------------------------------------------------------------------------
(***************************************************************************)
(* The induction.                                                          *)
(***************************************************************************)
LEMMA InitInv == Init => IInv
<1> SUFFICES ASSUME Init PROVE IInv
  OBVIOUS
<1>1. /\ tokens = <<>> /\ resets = 0 /\ links = <<>> /\ Len(tokens) = 0
      /\ DOMAIN tokens = {} /\ Len(links) = 0
      /\ tokens \in Seq(Token(0, 0)) /\ links \in Seq({"unused", "used"})
  BY EmptySeq, LenProperties DEF Init, AccountsInit
<1>2. AccountInv
  <2>1. /\ call \in [Staff -> Calls] /\ \A s \in Staff : call[s] = NoCall
        /\ form \in [Forms -> 1..MaxLinks \cup {Nobody}]
    BY DEF Init, AccountsInit, Calls
  <2>2. account = Nobody /\ deleted = FALSE /\ forgot = "idle"
    BY DEF Init, AccountsInit
  <2>3. deleted \in BOOLEAN /\ ~deleted
    BY <2>2
  <2> QED
    BY <1>1, <2>1, <2>2, <2>3, AccountsAssumption
    DEF AccountInv, AccountsTypeOK, Exists
<1>3. SessionsTypeOK
  BY <1>1, <1>2, SessionsAssumption
  DEF Init, SessionsTypeOK, AccountInv, Token
<1>4. \A b \in Tabs : request[b] = NoRequest /\ \A place : ~At(b, place)
  BY DEF Init, At, NoRequest
<1>5. RequestInv
  BY DEF Init, RequestInv
<1>6. ForkInv /\ ResetInv
  BY <1>1, <1>4 DEF ForkInv, ResetInv, OneLiveToken, ResetEndsSessions, Rotating
<1>7. RoomInv
  <2>1. Pending = {} /\ Productive = {}
    BY <1>4 DEF Pending, Productive
  <2> QED
    BY <1>1, <2>1, FS_EmptySet, SessionsAssumption DEF RoomInv
<1> QED
  BY <1>1, <1>2, <1>3, <1>5, <1>6, <1>7 DEF IInv

\* A step of the sessions that leaves the account alone.
LEMMA TabStep ==
  ASSUME IInv, NEW b \in Tabs,
         \/ GetValidToken(b) \/ Server(b) \/ Unavailable(b) \/ Arrive(b)
         \/ Logout(b) \/ LogoutAnswered(b) \/ Expire(b)
  PROVE  IInv' /\ Switched
<1>1. IInv'
  BY GetValidTokenStep, FindTokenStep, ClaimRotationStep, IssueTokenPairStep,
     UnavailableStep, ArriveStep, LogoutsStep, Zenon DEF Server
<1>2. UNCHANGED account
  BY DEF GetValidToken, Server, FindToken, ClaimRotation, IssueTokenPair,
         Unavailable, Arrive, Granted, Denied, NoAnswer, Logout,
         LogoutAnswered, Expire, Advance, Revoke, Done, accountVars
<1> QED
  BY <1>1, <1>2 DEF Switched

LEMMA NextInv == IInv /\ [Next]_vars => IInv' /\ Switched
<1> SUFFICES ASSUME IInv, [Next]_vars PROVE IInv' /\ Switched
  OBVIOUS
<1>1. ASSUME NEW b \in Tabs,
             \/ GetValidToken(b) \/ Server(b) \/ Unavailable(b) \/ Arrive(b)
             \/ Login(b) \/ Register(b)
             \/ Logout(b) \/ LogoutAnswered(b) \/ Expire(b)
      PROVE  IInv' /\ Switched
  BY <1>1, TabStep, LoginStep, RegisterStep
<1>2. ASSUME NEW f \in Forms, ResetAndRevoke(f) PROVE IInv' /\ Switched
  BY <1>2, ResetStep
<1>3. ASSUME NEW s \in Staff, DeleteWithTokens(s) PROVE IInv' /\ Switched
  BY <1>3, DeleteTokensStep
<1>4. CASE Administer /\ UNCHANGED sessionVars
  BY <1>4, BackOfficeStep
<1>5. CASE UNCHANGED vars
  <2>1. UNCHANGED <<accountVars, tokens, resets, request, jar, access, leaving>>
    BY <1>5 DEF vars, sessionVars
  <2>2. IInv'
    BY <2>1, Places, CookieStep
  <2> QED
    BY <2>1, <2>2 DEF Switched, accountVars
<1> QED
  BY <1>1, <1>2, <1>3, <1>4, <1>5, Zenon DEF Next

LEMMA SpecInv == Spec => []IInv
<1>1. IInv /\ [Next]_vars => IInv'
  BY NextInv
<1> QED
  BY <1>1, InitInv, PTL DEF Spec

-----------------------------------------------------------------------------
(***************************************************************************)
(* What rotation, reset and the back office promise.                       *)
(***************************************************************************)
\* Rows, cookies and calls keep their types; a live token has its account,
\* which only the deletion that takes the tokens along removes.
THEOREM SessionsWellFormed == Spec => []SessionsTypeOK
<1>1. IInv => SessionsTypeOK
  BY DEF IInv
<1> QED
  BY <1>1, SpecInv, PTL

\* AuthService.refresh never forks a session, however many tabs refresh it at
\* the same time and whatever fails between the claim and the new pair.
THEOREM RotationNeverForks == Spec => []OneLiveToken
<1>1. IInv => OneLiveToken
  BY DEF IInv, ForkInv
<1> QED
  BY <1>1, SpecInv, PTL

\* resetPassword ends every session begun before it, those apart whose next
\* pair was being made when it committed.
THEOREM ResetLeavesNoSession == Spec => []ResetEndsSessions
<1>1. IInv => ResetEndsSessions
  BY DEF IInv, ResetInv
<1> QED
  BY <1>1, SpecInv, PTL

\* Whatever the other calls about the account do meanwhile, its switch turns
\* only by a call of that button, and to what it says.
THEOREM SwitchTurnsAsAsked == Spec => SwitchDoesWhatItSays
<1>1. IInv /\ [Next]_vars =>
        [Exists /\ account' # Nobody /\ account'.active # account.active =>
           \E s \in Staff : /\ call[s].op = "active"
                            /\ call[s].to = account'.active]_accountVars
  BY NextInv DEF Switched
<1> QED
  BY <1>1, SpecInv, PTL DEF Spec, SwitchDoesWhatItSays

=============================================================================
