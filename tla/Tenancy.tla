------------------------------ MODULE Tenancy ------------------------------
(***************************************************************************)
(* Users, workspaces, clients and their members.                           *)
(*                                                                         *)
(* Accounts live at Clerk, which is external: it sends a webhook for each  *)
(* change, in no order and possibly again, and a first authenticated       *)
(* request provisions the account when the webhook has not come yet.       *)
(* A command reads rows in a READ COMMITTED transaction without locking    *)
(* them, and later saves whole rows; gorm's Save inserts a row that has    *)
(* disappeared in between.  The constraints of the migrations (unique      *)
(* keys, foreign keys and their cascades) hold at every commit.            *)
(***************************************************************************)
EXTENDS Naturals, FiniteSets

CONSTANTS
  Clerks,       \* Clerk accounts
  Slots,        \* requests in flight at one time
  Ops,          \* the kinds of operation that are asked for
  MaxMembers,   \* the plan's limit on members per client
  MaxUsers,     \* bound: users rows ever created
  MaxClients,   \* bound: clients rows ever created
  MaxRequests,  \* bound: authenticated requests
  MaxNews       \* bound: changes made at Clerk after the signups

OpKinds == {"signup", "profile", "gone", "create", "rename", "drop", "add", "remove", "switch"}

ASSUME TenancyAssumption ==
  /\ Ops \subseteq OpKinds
  /\ MaxMembers \in Nat \ {0}
  /\ MaxUsers \in Nat /\ MaxClients \in Nat /\ MaxRequests \in Nat /\ MaxNews \in Nat

VARIABLES
  db,         \* the tables
  outbox,     \* events stored with the rows
  req,        \* what each request in flight has read
  clerk,      \* accounts at Clerk
  hooks,      \* webhooks Clerk has sent; any of them may come again
  minted,     \* rows ever created: a uuid is used once
  asked,      \* authenticated requests so far
  news,       \* changes made at Clerk so far
  overtaken   \* history: kinds of commit that changed what an open request had read

vars == <<db, outbox, req, clerk, hooks, minted, asked, news, overtaken>>

UserIds   == 1..MaxUsers
ClientIds == 1..MaxClients
Nil       == 0

\* A workspace is named after its owner, who has exactly one.
Client == [WorkspaceID : UserIds, MemberIDs : SUBSET UserIds]
User   == [ClerkID : Clerks, Banned : BOOLEAN, CurrentClientID : ClientIds \cup {Nil}]

\* A table maps the ids it has to their rows.
Tables(ids, row) == UNION {[D -> row] : D \in SUBSET ids}
Database == [users : Tables(UserIds, User), clients : Tables(ClientIds, Client),
             workspaces : SUBSET UserIds, defaults : SUBSET ClientIds, invoiced : SUBSET UserIds]

Lookup(table, id) == {table[x] : x \in DOMAIN table \cap {id}}
Upsert(table, id, row) == [x \in DOMAIN table \cup {id} |-> IF x = id THEN row ELSE table[x]]
Without(table, ids) == [x \in DOMAIN table \ ids |-> table[x]]

UserEvents   == {"user.created", "user.updated", "user.deleted", "user.current_client_changed"}
ClientEvents == {"client.created", "client.updated", "client.deleted",
                 "client.member_added", "client.member_removed"}
Event == [type : UserEvents \cup ClientEvents,
          user : UserIds \cup {Nil}, client : ClientIds \cup {Nil}]
Note(type, u, c) == [type |-> type, user |-> u, client |-> c]

Webhook == [type : {"signup", "profile", "gone"}, clerk : Clerks, banned : BOOLEAN]

NoUser   == [ClerkID |-> "none", Banned |-> FALSE, CurrentClientID |-> Nil]
NoClient == [WorkspaceID |-> Nil, MemberIDs |-> {}]
Idle     == [op |-> "idle", counted |-> FALSE, clerk |-> "none", banned |-> FALSE,
             user |-> Nil, row |-> NoUser, client |-> Nil, loaded |-> NoClient]

\* What a request has read by the time it is open.
Request == [op : OpKinds \cup {"idle"}, counted : BOOLEAN, clerk : Clerks \cup {"none"}, banned : BOOLEAN,
            user : UserIds \cup {Nil}, row : User \cup {NoUser},
            client : ClientIds \cup {Nil}, loaded : Client \cup {NoClient}]
Complete(r) ==
  /\ r.op = "signup" => r.clerk \in Clerks
  /\ r.op \in {"profile", "create", "switch"} => r.user \in UserIds /\ r.row \in User
  /\ r.op \in {"gone", "add", "remove"} => r.user \in UserIds
  /\ r.op \in {"rename", "drop", "add", "remove", "switch"} => r.client \in ClientIds /\ r.loaded \in Client

TypeOK ==
  /\ db \in Database
  /\ outbox \subseteq Event
  /\ req \in [Slots -> Request]
  /\ \A q \in Slots : Complete(req[q])
  /\ clerk \in [Clerks -> [live : BOOLEAN, banned : BOOLEAN]]
  /\ hooks \subseteq Webhook
  /\ minted \in [user : 0..MaxUsers, client : 0..MaxClients]
  /\ asked \in 0..MaxRequests
  /\ news \in 0..MaxNews
  /\ overtaken \subseteq OpKinds

\* Every account has just been opened at Clerk and none is known here.
Init ==
  /\ db = [users |-> <<>>, clients |-> <<>>, workspaces |-> {}, defaults |-> {}, invoiced |-> {}]
  /\ outbox = {}
  /\ req = [q \in Slots |-> Idle]
  /\ clerk = [k \in Clerks |-> [live |-> TRUE, banned |-> FALSE]]
  /\ hooks = [type : {"signup"}, clerk : Clerks, banned : {FALSE}]
  /\ minted = [user |-> 0, client |-> 0]
  /\ asked = 0
  /\ news = 0
  /\ overtaken = {}

-----------------------------------------------------------------------------
(* Aggregates: what a command changes on the rows it has loaded. *)

\* Mutant: the id of the account at Clerk is left empty.
NewUnlinkedUser(k, b) == [ClerkID |-> "none", Banned |-> b, CurrentClientID |-> Nil]
NewUser(k, b) == [ClerkID |-> k, Banned |-> b, CurrentClientID |-> Nil]
ApplyProfile(row, b) == [row EXCEPT !.Banned = b]
SetCurrentClient(row, c) == [row EXCEPT !.CurrentClientID = c]
ClearCurrentClient(row) == [row EXCEPT !.CurrentClientID = Nil]

NewClient(w) == [WorkspaceID |-> w, MemberIDs |-> {}]
AddMember(cl, u) == [cl EXCEPT !.MemberIDs = @ \cup {u}]
RemoveMember(cl, u) == [cl EXCEPT !.MemberIDs = @ \ {u}]

-----------------------------------------------------------------------------
(* Repositories: what the statements of a transaction do to the tables. *)

UserSave(d, u, row) == [d EXCEPT !.users = Upsert(@, u, row)]

\* A workspace and the free subscription it is given.
NewWorkspace(d, u) == [d EXCEPT !.workspaces = @ \cup {u}]
GetByOwnerUserID(d, u) == d.workspaces \cap {u}

NewDefaultCampaign(d, c) == [d EXCEPT !.defaults = @ \cup {c}]

\* Save updates by id, and inserts the row when no row was updated.
UserUpdate(d, u, row) == [d EXCEPT !.users = Upsert(@, u, row)]

ReplaceMembers(d, c, ids) == [d EXCEPT !.clients[c].MemberIDs = ids]
ClientSave(d, c, cl) ==
  ReplaceMembers([d EXCEPT !.clients = Upsert(@, c, cl)], c, cl.MemberIDs)
ClientUpdate(d, c, cl) ==
  ReplaceMembers([d EXCEPT !.clients = Upsert(@, c, cl)], c, cl.MemberIDs)

\* campaigns, members and current_client_id follow a deleted client.
ClientDelete(d, C) ==
  [d EXCEPT !.clients = Without(@, C),
            !.defaults = @ \ C,
            !.users = [u \in DOMAIN @ |->
                         IF @[u].CurrentClientID \in C THEN ClearCurrentClient(@[u]) ELSE @[u]]]

\* The owner's workspace goes with the user, its clients with the workspace.
UserDelete(d, u) ==
  LET left == ClientDelete(d, {c \in DOMAIN d.clients : d.clients[c].WorkspaceID = u})
  IN [left EXCEPT !.users = Without(@, {u}),
                  !.workspaces = @ \ {u},
                  !.clients = [c \in DOMAIN @ |-> RemoveMember(@[c], u)]]

UniqueClerk(d) ==
  \A u, v \in DOMAIN d.users : d.users[u].ClerkID = d.users[v].ClerkID => u = v

\* invoices.workspace_id is ON DELETE RESTRICT.
Constraints(d) ==
  /\ UniqueClerk(d)
  /\ d.workspaces \subseteq DOMAIN d.users
  /\ d.invoiced \subseteq d.workspaces
  /\ \A u \in DOMAIN d.users : d.users[u].CurrentClientID \in DOMAIN d.clients \cup {Nil}
  /\ \A c \in DOMAIN d.clients :
       /\ d.clients[c].WorkspaceID \in d.workspaces
       /\ d.clients[c].MemberIDs \subseteq DOMAIN d.users

GetByClerkID(d, k) == {u \in DOMAIN d.users : d.users[u].ClerkID = k}

FindPageByUserID(d, u) == {c \in DOMAIN d.clients : u \in d.clients[c].MemberIDs}

\* A listed client is active when it is the current one.
NewClientListResponse(ids, current) == {[id |-> c, isActive |-> c = current] : c \in ids}
List(u) == NewClientListResponse(FindPageByUserID(db, u), db.users[u].CurrentClientID)

-----------------------------------------------------------------------------
(* Requests *)

Begin(q, r) ==
  /\ req[q] = Idle
  /\ r.op \in Ops
  /\ req' = [req EXCEPT ![q] = r]

Overtakes(q, new) ==
  \E p \in Slots \ {q} :
    \/ Lookup(db.users, req[p].user) # Lookup(new.users, req[p].user)
    \/ Lookup(db.clients, req[p].client) # Lookup(new.clients, req[p].client)

\* WithTransaction: all or nothing; a violated constraint rolls back.
WithTransaction(q, new, events) ==
  /\ req' = [req EXCEPT ![q] = Idle]
  /\ IF Constraints(new)
     THEN /\ db' = new
          /\ outbox' = outbox \cup events
          /\ overtaken' = overtaken \cup {op \in {req[q].op} : Overtakes(q, new)}
     ELSE UNCHANGED <<db, outbox, overtaken>>
  /\ UNCHANGED <<clerk, hooks, asked, news>>

\* A statement fails, or the process dies: the transaction is rolled back.
Rollback(q) ==
  /\ req[q] # Idle
  /\ req' = [req EXCEPT ![q] = Idle]
  /\ UNCHANGED <<db, outbox, clerk, hooks, minted, asked, news, overtaken>>

CreateUser(q) ==
  LET u  == minted.user + 1
      c  == minted.client + 1
      d1 == UserSave(db, u, NewUser(req[q].clerk, req[q].banned))
      d2 == NewWorkspace(d1, u)
      d3 == ClientSave(d2, c, AddMember(NewClient(u), u))
      d4 == NewDefaultCampaign(d3, c)
      d5 == UserUpdate(d4, u, SetCurrentClient(d4.users[u], c))
  IN /\ req[q].op = "signup"
     /\ u \in UserIds /\ c \in ClientIds
     /\ WithTransaction(q, d5, {Note("user.created", u, Nil), Note("client.created", u, c),
                                Note("client.member_added", u, c), Note("user.current_client_changed", u, c)})
     /\ minted' = IF Constraints(d5) THEN [user |-> u, client |-> c] ELSE minted

UpdateUser(q) ==
  /\ req[q].op = "profile"
  /\ WithTransaction(q, UserUpdate(db, req[q].user, ApplyProfile(req[q].row, req[q].banned)),
                     {Note("user.updated", req[q].user, Nil)})
  /\ UNCHANGED minted

DeleteUserByExternalID(q) ==
  /\ req[q].op = "gone"
  /\ WithTransaction(q, UserDelete(db, req[q].user), {Note("user.deleted", req[q].user, Nil)})
  /\ UNCHANGED minted

\* Mutant: the default campaign is forgotten.
CreateBareClient(q) ==
  LET u  == req[q].user
      c  == minted.client + 1
      d1 == ClientSave(db, c, AddMember(NewClient(u), u))
      d2 == UserUpdate(d1, u, SetCurrentClient(req[q].row, c))
  IN /\ req[q].op = "create"
     /\ c \in ClientIds
     /\ WithTransaction(q, d2, {Note("client.created", u, c), Note("client.member_added", u, c),
                                Note("user.current_client_changed", u, c)})
     /\ minted' = IF Constraints(d2) THEN [minted EXCEPT !.client = c] ELSE minted

CreateClient(q) ==
  LET u  == req[q].user
      c  == minted.client + 1
      d1 == ClientSave(db, c, AddMember(NewClient(u), u))
      d2 == NewDefaultCampaign(d1, c)
      d3 == UserUpdate(d2, u, SetCurrentClient(req[q].row, c))
  IN /\ req[q].op = "create"
     /\ c \in ClientIds
     /\ WithTransaction(q, d3, {Note("client.created", u, c), Note("client.member_added", u, c),
                                Note("user.current_client_changed", u, c)})
     /\ minted' = IF Constraints(d3) THEN [minted EXCEPT !.client = c] ELSE minted

UpdateClient(q) ==
  /\ req[q].op = "rename"
  /\ WithTransaction(q, ClientUpdate(db, req[q].client, req[q].loaded),
                     {Note("client.updated", Nil, req[q].client)})
  /\ UNCHANGED minted

DeleteClient(q) ==
  /\ req[q].op = "drop"
  /\ WithTransaction(q, ClientDelete(db, {req[q].client}),
                     {Note("client.deleted", Nil, req[q].client)})
  /\ UNCHANGED minted

\* Mutant: a full client takes one more.
AssertMemberFits(q) ==
  /\ req[q].op = "add"
  /\ ~req[q].counted
  /\ req' = [req EXCEPT ![q] =
       IF \E cl \in Lookup(db.clients, req[q].client) : MaxMembers >= Cardinality(cl.MemberIDs)
       THEN [@ EXCEPT !.counted = TRUE] ELSE Idle]
  /\ UNCHANGED <<db, outbox, clerk, hooks, minted, asked, news, overtaken>>

\* The seats are counted over another connection than the transaction's.
AssertMemberCreate(q) ==
  /\ req[q].op = "add"
  /\ ~req[q].counted
  /\ req' = [req EXCEPT ![q] =
       IF \E cl \in Lookup(db.clients, req[q].client) : MaxMembers > Cardinality(cl.MemberIDs)
       THEN [@ EXCEPT !.counted = TRUE] ELSE Idle]
  /\ UNCHANGED <<db, outbox, clerk, hooks, minted, asked, news, overtaken>>

AddClientMember(q) ==
  /\ req[q].op = "add"
  /\ req[q].counted
  /\ WithTransaction(q, ClientUpdate(db, req[q].client, AddMember(req[q].loaded, req[q].user)),
                     {Note("client.member_added", req[q].user, req[q].client)})
  /\ UNCHANGED minted

\* Mutant: the current client of the removed user is left.
RemoveAndLeave(q) ==
  /\ req[q].op = "remove"
  /\ WithTransaction(q, ClientUpdate(db, req[q].client, RemoveMember(req[q].loaded, req[q].user)),
                     {Note("client.member_removed", req[q].user, req[q].client)})
  /\ UNCHANGED minted

\* The removed user is read after the client was saved.
RemoveClientMember(q) ==
  LET u  == req[q].user
      c  == req[q].client
      d1 == ClientUpdate(db, c, RemoveMember(req[q].loaded, u))
      current == u \in DOMAIN db.users /\ db.users[u].CurrentClientID = c
  IN /\ req[q].op = "remove"
     /\ WithTransaction(q, IF current THEN UserUpdate(d1, u, ClearCurrentClient(d1.users[u])) ELSE d1,
                        {Note("client.member_removed", u, c)}
                          \cup {e \in {Note("user.current_client_changed", u, Nil)} : current})
     /\ UNCHANGED minted

SwitchClient(q) ==
  /\ req[q].op = "switch"
  /\ WithTransaction(q, UserUpdate(db, req[q].user, SetCurrentClient(req[q].row, req[q].client)),
                     {Note("user.current_client_changed", req[q].user, req[q].client)})
  /\ UNCHANGED minted

-----------------------------------------------------------------------------
(* HTTP: what starts a request and what it reads first. *)

\* The user a valid token stands for.
ValidateToken(k) == GetByClerkID(db, k)

\* Protected lets a known user through who is not banned.
Protected(u) == \E k \in Clerks : u \in ValidateToken(k) /\ ~db.users[u].Banned

\* What Clerk answers; an account deleted there is not found.
FetchUser(k) == {[banned |-> clerk[j].banned] : j \in {i \in {k} : clerk[i].live}}

\* A token whose user has no row: the account is fetched from Clerk and created.
Provision(q, k) ==
  /\ ValidateToken(k) = {}
  /\ \E a \in FetchUser(k) : Begin(q, [Idle EXCEPT !.op = "signup", !.clerk = k, !.banned = a.banned])
  /\ UNCHANGED <<db, outbox, clerk, hooks, minted, asked, news, overtaken>>

\* user.created: nothing to do for a user that exists.
WebhookCreate(q, h) ==
  /\ h.type = "signup"
  /\ GetByClerkID(db, h.clerk) = {}
  /\ Begin(q, [Idle EXCEPT !.op = "signup", !.clerk = h.clerk, !.banned = h.banned])
  /\ UNCHANGED <<db, outbox, clerk, hooks, minted, asked, news, overtaken>>

\* user.updated: the row is read before the transaction that saves it.
WebhookUpdate(q, h) ==
  /\ h.type = "profile"
  /\ \E u \in GetByClerkID(db, h.clerk) :
       Begin(q, [Idle EXCEPT !.op = "profile", !.user = u, !.row = db.users[u], !.banned = h.banned])
  /\ UNCHANGED <<db, outbox, clerk, hooks, minted, asked, news, overtaken>>

WebhookDelete(q, h) ==
  /\ h.type = "gone"
  /\ \E u \in GetByClerkID(db, h.clerk) : Begin(q, [Idle EXCEPT !.op = "gone", !.user = u])
  /\ UNCHANGED <<db, outbox, clerk, hooks, minted, asked, news, overtaken>>

Execute(q, h) == WebhookCreate(q, h) \/ WebhookUpdate(q, h) \/ WebhookDelete(q, h)

Ask(q, u, r) ==
  /\ asked < MaxRequests
  /\ Protected(u)
  /\ Begin(q, r)
  /\ asked' = asked + 1
  /\ UNCHANGED <<db, outbox, clerk, hooks, minted, news, overtaken>>

Create(q, u) ==
  /\ GetByOwnerUserID(db, u) # {}
  /\ Ask(q, u, [Idle EXCEPT !.op = "create", !.user = u, !.row = db.users[u]])

\* Update and Delete take any authenticated user.
Update(q, u, c) == Ask(q, u, [Idle EXCEPT !.op = "rename", !.client = c, !.loaded = db.clients[c]])
Delete(q, u, c) == Ask(q, u, [Idle EXCEPT !.op = "drop", !.client = c, !.loaded = db.clients[c]])

Invite(q, u, c, x) ==
  /\ u \in db.clients[c].MemberIDs
  /\ x \in DOMAIN db.users \ db.clients[c].MemberIDs
  /\ Ask(q, u, [Idle EXCEPT !.op = "add", !.client = c, !.loaded = db.clients[c], !.user = x])

Remove(q, u, c, x) ==
  /\ x \in db.clients[c].MemberIDs
  /\ Ask(q, u, [Idle EXCEPT !.op = "remove", !.client = c, !.loaded = db.clients[c], !.user = x])

Switch(q, u, c) ==
  /\ u \in db.clients[c].MemberIDs
  /\ db.users[u].CurrentClientID # c
  /\ Ask(q, u, [Idle EXCEPT !.op = "switch", !.client = c, !.loaded = db.clients[c],
                            !.user = u, !.row = db.users[u]])

-----------------------------------------------------------------------------
(* External: Clerk, and Billing's first invoice of a workspace. *)

ClerkUpdates(k) ==
  /\ news < MaxNews /\ clerk[k].live /\ "profile" \in Ops
  /\ clerk' = [clerk EXCEPT ![k].banned = ~@]
  /\ hooks' = hooks \cup {[type |-> "profile", clerk |-> k, banned |-> ~clerk[k].banned]}
  /\ news' = news + 1
  /\ UNCHANGED <<db, outbox, req, minted, asked, overtaken>>

ClerkDeletes(k) ==
  /\ news < MaxNews /\ clerk[k].live /\ "gone" \in Ops
  /\ clerk' = [clerk EXCEPT ![k].live = FALSE]
  /\ hooks' = hooks \cup {[type |-> "gone", clerk |-> k, banned |-> FALSE]}
  /\ news' = news + 1
  /\ UNCHANGED <<db, outbox, req, minted, asked, overtaken>>

\* The first invoice of a workspace, whose owner cannot be deleted from then on.
InvoiceStored(w) ==
  /\ news < MaxNews /\ w \in db.workspaces \ db.invoiced /\ "gone" \in Ops
  /\ db' = [db EXCEPT !.invoiced = @ \cup {w}]
  /\ news' = news + 1
  /\ UNCHANGED <<outbox, req, clerk, hooks, minted, asked, overtaken>>

Next ==
  \/ \E q \in Slots :
       \/ CreateUser(q) \/ UpdateUser(q) \/ DeleteUserByExternalID(q)
       \/ CreateClient(q) \/ UpdateClient(q) \/ DeleteClient(q)
       \/ AssertMemberCreate(q) \/ AddClientMember(q) \/ RemoveClientMember(q) \/ SwitchClient(q)
       \/ Rollback(q)
       \/ \E k \in Clerks : Provision(q, k)
       \/ \E h \in hooks : Execute(q, h)
       \/ \E u \in DOMAIN db.users :
            \/ Create(q, u)
            \/ \E c \in DOMAIN db.clients :
                 \/ Update(q, u, c) \/ Delete(q, u, c) \/ Switch(q, u, c)
                 \/ \E x \in DOMAIN db.users : Invite(q, u, c, x) \/ Remove(q, u, c, x)
  \/ \E k \in Clerks : ClerkUpdates(k) \/ ClerkDeletes(k)
  \/ \E w \in UserIds : InvoiceStored(w)

Spec == Init /\ [][Next]_vars

-----------------------------------------------------------------------------
(* Properties *)

\* Signup creates user, workspace, client, membership and default campaign as
\* one account, and a new client brings its default campaign, whichever of the
\* webhook, its repetition and the first request comes first: only a deletion
\* that overtakes an open save can leave a row without its companions.
AccountsComplete ==
  overtaken \cap {"gone", "drop"} = {} =>
    /\ \A k \in Clerks : Cardinality(GetByClerkID(db, k)) < 2
    /\ DOMAIN db.users = db.workspaces
    /\ DOMAIN db.clients = db.defaults

\* The client a user works in is one of those GET /clients lists for that user:
\* removal from a client clears it, deletion of a client too.
CurrentListed ==
  \A u \in DOMAIN db.users :
    db.users[u].CurrentClientID # Nil => \E item \in List(u) : item.isActive

\* The same as long as every save was made from rows that were still the stored
\* ones as far as members and current clients go.
CurrentListedUnlessOvertaken ==
  overtaken \subseteq {"signup", "profile", "rename"} => CurrentListed

\* The seats of the plan hold although the count and the save are separate
\* steps over two connections, unless a save of the member list overtook another.
SeatsBounded ==
  overtaken \cap {"add", "remove", "rename", "gone"} = {} =>
    \A c \in DOMAIN db.clients : MaxMembers >= Cardinality(db.clients[c].MemberIDs)

-----------------------------------------------------------------------------
(* The inductive invariant behind the properties *)

UserSavers   == {"profile", "create", "switch"}
MemberSavers == {"add", "remove", "rename"}

\* Ids are handed out in order, and no request names one to come.
Minted ==
  /\ DOMAIN db.users \subseteq 1..minted.user
  /\ DOMAIN db.clients \subseteq 1..minted.client
  /\ \A q \in Slots : req[q].user <= minted.user /\ req[q].client <= minted.client

\* Unless a deletion overtook it, an open save finds the row it replaces.
Anchored ==
  overtaken \cap {"gone", "drop"} = {} =>
    /\ DOMAIN db.users = db.workspaces
    /\ DOMAIN db.clients = db.defaults
    /\ \A q \in Slots :
         /\ req[q].op \in UserSavers => req[q].user \in DOMAIN db.users
         /\ req[q].op \in MemberSavers => req[q].client \in DOMAIN db.clients

\* Unless it was overtaken, an open save has the member list that is stored, or
\* the last one of a client deleted since, and a counted one has a seat left.
Seated ==
  overtaken \cap {"add", "remove", "rename", "gone"} = {} =>
    /\ \A c \in DOMAIN db.clients : MaxMembers >= Cardinality(db.clients[c].MemberIDs)
    /\ \A q \in Slots :
         req[q].op \in MemberSavers =>
           /\ req[q].client \in DOMAIN db.clients => db.clients[req[q].client] = req[q].loaded
           /\ MaxMembers >= Cardinality(req[q].loaded.MemberIDs)
           /\ req[q].counted => MaxMembers > Cardinality(req[q].loaded.MemberIDs)

\* A user works in a client of theirs, and an open save would leave it so.
Placed ==
  overtaken \subseteq {"signup", "profile", "rename"} =>
    /\ \A u \in DOMAIN db.users :
         db.users[u].CurrentClientID # Nil => u \in db.clients[db.users[u].CurrentClientID].MemberIDs
    /\ \A q \in Slots :
         /\ req[q].op \in UserSavers =>
              /\ req[q].user \in DOMAIN db.users
              /\ db.users[req[q].user].CurrentClientID = req[q].row.CurrentClientID
         /\ req[q].op \in MemberSavers \cup {"switch"} =>
              req[q].client \in DOMAIN db.clients /\ db.clients[req[q].client] = req[q].loaded
         /\ req[q].op = "switch" => req[q].user \in req[q].loaded.MemberIDs

TenancyInv == Constraints(db) /\ Minted /\ Anchored /\ Seated /\ Placed
=============================================================================
