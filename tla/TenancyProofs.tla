---------------------------- MODULE TenancyProofs ----------------------------
(* Theorems about Tenancy: types, complete accounts, seats, current clients. *)
EXTENDS Tenancy, FiniteSetTheorems, TLAPS

USE TenancyAssumption

(* Tables are functions from ids to rows, and stay so. *)
LEMMA TableFacts ==
  ASSUME NEW ids, NEW row, NEW t
  PROVE  t \in Tables(ids, row) <=> DOMAIN t \subseteq ids /\ t \in [DOMAIN t -> row]
BY DEF Tables

\* Save writes one row and leaves the others.
LEMMA UpsertFacts ==
  ASSUME NEW t, NEW id, NEW r
  PROVE  /\ DOMAIN Upsert(t, id, r) = DOMAIN t \cup {id}
         /\ Upsert(t, id, r)[id] = r
         /\ \A x \in DOMAIN t \ {id} : Upsert(t, id, r)[x] = t[x]
BY DEF Upsert

\* Save keeps the type of a table.
LEMMA UpsertType ==
  ASSUME NEW ids, NEW row, NEW t \in Tables(ids, row), NEW id \in ids, NEW r \in row
  PROVE  Upsert(t, id, r) \in Tables(ids, row)
<1>1. DOMAIN t \subseteq ids /\ t \in [DOMAIN t -> row]
  BY TableFacts
<1>2. Upsert(t, id, r) \in [DOMAIN t \cup {id} -> row]
  BY <1>1 DEF Upsert
<1>3. DOMAIN Upsert(t, id, r) = DOMAIN t \cup {id}
  BY UpsertFacts
<1> HIDE DEF Upsert
<1> QED BY <1>1, <1>2, <1>3, TableFacts

\* A deletion leaves the other rows as they were.
LEMMA WithoutFacts ==
  ASSUME NEW ids, NEW row, NEW t \in Tables(ids, row), NEW S
  PROVE  /\ Without(t, S) \in Tables(ids, row)
         /\ DOMAIN Without(t, S) = DOMAIN t \ S
         /\ \A x \in DOMAIN t \ S : Without(t, S)[x] = t[x]
<1>1. DOMAIN t \subseteq ids /\ t \in [DOMAIN t -> row]
  BY TableFacts
<1>2. Without(t, S) \in [DOMAIN t \ S -> row] /\ DOMAIN Without(t, S) = DOMAIN t \ S
  BY <1>1 DEF Without
<1>3. \A x \in DOMAIN t \ S : Without(t, S)[x] = t[x]
  BY DEF Without
<1>4. Without(t, S) \in Tables(ids, row)
  BY <1>1, <1>2, TableFacts
<1> QED BY <1>2, <1>3, <1>4

\* The tables of a database.
LEMMA DatabaseFacts ==
  ASSUME NEW d \in Database
  PROVE  /\ d.users \in Tables(UserIds, User) /\ d.clients \in Tables(ClientIds, Client)
         /\ d.workspaces \subseteq UserIds /\ d.defaults \subseteq ClientIds /\ d.invoiced \subseteq UserIds
         /\ DOMAIN d.users \subseteq UserIds /\ d.users \in [DOMAIN d.users -> User]
         /\ DOMAIN d.clients \subseteq ClientIds /\ d.clients \in [DOMAIN d.clients -> Client]
BY TableFacts DEF Database

-----------------------------------------------------------------------------
(* What the statements of a transaction leave in the tables. *)
Holds(d, users, clients, workspaces, defaults, invoiced) ==
  /\ d.users = users /\ d.clients = clients /\ d.workspaces = workspaces
  /\ d.defaults = defaults /\ d.invoiced = invoiced

\* The users table after a save of a user.
LEMMA UserSaveEffect ==
  ASSUME NEW d \in Database, NEW u \in UserIds, NEW row \in User
  PROVE  /\ UserSave(d, u, row) \in Database /\ UserUpdate(d, u, row) = UserSave(d, u, row)
         /\ Holds(UserSave(d, u, row), Upsert(d.users, u, row), d.clients, d.workspaces, d.defaults, d.invoiced)
<1>1. Upsert(d.users, u, row) \in Tables(UserIds, User)
  BY UpsertType, DatabaseFacts
<1>2. UserSave(d, u, row) \in Database
  BY <1>1 DEF UserSave, Database
<1>3. Holds(UserSave(d, u, row), Upsert(d.users, u, row), d.clients, d.workspaces, d.defaults, d.invoiced)
  BY DEF UserSave, Database, Holds
<1> QED BY <1>2, <1>3 DEF UserSave, UserUpdate

\* The clients table after a save of a client.
LEMMA ClientSaveEffect ==
  ASSUME NEW d \in Database, NEW c \in ClientIds, NEW cl \in Client
  PROVE  /\ ClientSave(d, c, cl) \in Database /\ ClientUpdate(d, c, cl) = ClientSave(d, c, cl)
         /\ Holds(ClientSave(d, c, cl), d.users, Upsert(d.clients, c, cl), d.workspaces, d.defaults, d.invoiced)
<1> DEFINE e == [d EXCEPT !.clients = Upsert(@, c, cl)]
<1>1. Upsert(d.clients, c, cl) \in Tables(ClientIds, Client)
  BY UpsertType, DatabaseFacts
<1>2. e \in Database
  BY <1>1 DEF Database
<1>3. Holds(e, d.users, Upsert(d.clients, c, cl), d.workspaces, d.defaults, d.invoiced)
  BY DEF Database, Holds
<1>4. ClientSave(d, c, cl) = ReplaceMembers(e, c, cl.MemberIDs) /\ ClientUpdate(d, c, cl) = ClientSave(d, c, cl)
  BY DEF ClientSave, ClientUpdate
<1> HIDE DEF e
<1>5. e.clients[c] = cl /\ c \in DOMAIN e.clients /\ e.clients \in [DOMAIN e.clients -> Client]
  <2>1. e.clients = Upsert(d.clients, c, cl)
    BY <1>3 DEF Holds
  <2>2. Upsert(d.clients, c, cl)[c] = cl /\ c \in DOMAIN Upsert(d.clients, c, cl)
    BY DEF Upsert
  <2> QED BY <1>2, <2>1, <2>2, DatabaseFacts
<1>6. [cl EXCEPT !.MemberIDs = cl.MemberIDs] = cl
  BY DEF Client
<1>7. [e.clients EXCEPT ![c].MemberIDs = cl.MemberIDs] = e.clients
  BY <1>5, <1>6
<1>8. ReplaceMembers(e, c, cl.MemberIDs) = [e EXCEPT !.clients = e.clients]
  BY <1>7 DEF ReplaceMembers
<1>9. [e EXCEPT !.clients = e.clients] = e
  BY <1>2 DEF Database
<1> QED BY <1>2, <1>3, <1>4, <1>8, <1>9

\* The workspace of a new user.
LEMMA NewWorkspaceEffect ==
  ASSUME NEW d \in Database, NEW u \in UserIds
  PROVE  /\ NewWorkspace(d, u) \in Database
         /\ Holds(NewWorkspace(d, u), d.users, d.clients, d.workspaces \cup {u}, d.defaults, d.invoiced)
<1>1. d.workspaces \cup {u} \in SUBSET UserIds
  BY DatabaseFacts
<1> QED BY <1>1 DEF NewWorkspace, Database, Holds

\* The default campaign of a new client.
LEMMA NewDefaultCampaignEffect ==
  ASSUME NEW d \in Database, NEW c \in ClientIds
  PROVE  /\ NewDefaultCampaign(d, c) \in Database
         /\ Holds(NewDefaultCampaign(d, c), d.users, d.clients, d.workspaces, d.defaults \cup {c}, d.invoiced)
<1>1. d.defaults \cup {c} \in SUBSET ClientIds
  BY DatabaseFacts
<1> QED BY <1>1 DEF NewDefaultCampaign, Database, Holds

(* The rows of the users whose current client is deleted. *)
LEMMA ClearCurrentType ==
  ASSUME NEW row \in User
  PROVE  /\ ClearCurrentClient(row) \in User /\ ClearCurrentClient(row).CurrentClientID = Nil
         /\ ClearCurrentClient(row).ClerkID = row.ClerkID
BY DEF ClearCurrentClient, User

\* What is left of a database when clients are deleted.
LEMMA ClientDeleteEffect ==
  ASSUME NEW d \in Database, NEW C \in SUBSET ClientIds
  PROVE  /\ ClientDelete(d, C) \in Database
         /\ DOMAIN ClientDelete(d, C).users = DOMAIN d.users
         /\ \A u \in DOMAIN d.users :
              ClientDelete(d, C).users[u] = IF d.users[u].CurrentClientID \in C
                                            THEN ClearCurrentClient(d.users[u]) ELSE d.users[u]
         /\ ClientDelete(d, C).clients = Without(d.clients, C)
         /\ ClientDelete(d, C).defaults = d.defaults \ C
         /\ ClientDelete(d, C).workspaces = d.workspaces
         /\ ClientDelete(d, C).invoiced = d.invoiced
<1> DEFINE us == [u \in DOMAIN d.users |-> IF d.users[u].CurrentClientID \in C
                                           THEN ClearCurrentClient(d.users[u]) ELSE d.users[u]]
<1>1. us \in [DOMAIN d.users -> User] /\ DOMAIN us = DOMAIN d.users /\ DOMAIN d.users \subseteq UserIds
  BY DatabaseFacts, ClearCurrentType
<1>2. us \in Tables(UserIds, User)
  BY <1>1, TableFacts
<1>3. Without(d.clients, C) \in Tables(ClientIds, Client) /\ d.defaults \ C \in SUBSET ClientIds
  BY DatabaseFacts, WithoutFacts
<1>4. ClientDelete(d, C) = [d EXCEPT !.clients = Without(d.clients, C), !.defaults = d.defaults \ C, !.users = us]
  BY DEF ClientDelete, Database
<1>5. \A u \in DOMAIN d.users : us[u] = IF d.users[u].CurrentClientID \in C
                                        THEN ClearCurrentClient(d.users[u]) ELSE d.users[u]
  OBVIOUS
<1> HIDE DEF us
<1>6. ClientDelete(d, C) \in Database
  BY <1>2, <1>3, <1>4 DEF Database
<1>7. Holds(ClientDelete(d, C), us, Without(d.clients, C), d.workspaces, d.defaults \ C, d.invoiced)
  BY <1>4 DEF Database, Holds
<1> QED BY <1>1, <1>5, <1>6, <1>7 DEF Holds

\* The member list loses one member.
LEMMA RemoveMemberType ==
  ASSUME NEW cl \in Client, NEW u
  PROVE  /\ RemoveMember(cl, u) \in Client
         /\ RemoveMember(cl, u).MemberIDs = cl.MemberIDs \ {u}
         /\ RemoveMember(cl, u).WorkspaceID = cl.WorkspaceID
<1>1. cl.MemberIDs \ {u} \in SUBSET UserIds
  BY DEF Client
<1> QED BY <1>1 DEF RemoveMember, Client

\* The member list gains one member.
LEMMA AddMemberType ==
  ASSUME NEW cl \in Client, NEW u \in UserIds
  PROVE  /\ AddMember(cl, u) \in Client
         /\ AddMember(cl, u).MemberIDs = cl.MemberIDs \cup {u}
         /\ AddMember(cl, u).WorkspaceID = cl.WorkspaceID
<1>1. cl.MemberIDs \cup {u} \in SUBSET UserIds
  BY DEF Client
<1> QED BY <1>1 DEF AddMember, Client

(* The clients that go with their workspace. *)
Owned(d, u) == {c \in DOMAIN d.clients : d.clients[c].WorkspaceID = u}

\* What is left of a database when a user is deleted.
LEMMA UserDeleteEffect ==
  ASSUME NEW d \in Database, NEW u \in UserIds
  PROVE  /\ UserDelete(d, u) \in Database
         /\ DOMAIN UserDelete(d, u).users = DOMAIN d.users \ {u}
         /\ \A v \in DOMAIN d.users \ {u} :
              UserDelete(d, u).users[v] = IF d.users[v].CurrentClientID \in Owned(d, u)
                                          THEN ClearCurrentClient(d.users[v]) ELSE d.users[v]
         /\ DOMAIN UserDelete(d, u).clients = DOMAIN d.clients \ Owned(d, u)
         /\ \A c \in DOMAIN d.clients \ Owned(d, u) : UserDelete(d, u).clients[c] = RemoveMember(d.clients[c], u)
         /\ UserDelete(d, u).defaults = d.defaults \ Owned(d, u)
         /\ UserDelete(d, u).workspaces = d.workspaces \ {u}
         /\ UserDelete(d, u).invoiced = d.invoiced
<1> DEFINE C == Owned(d, u)
           left == ClientDelete(d, C)
<1>1. C \in SUBSET ClientIds
  BY DatabaseFacts DEF Owned
<1>2. /\ left \in Database
      /\ DOMAIN left.users = DOMAIN d.users
      /\ \A v \in DOMAIN d.users :
           left.users[v] = IF d.users[v].CurrentClientID \in C THEN ClearCurrentClient(d.users[v]) ELSE d.users[v]
      /\ left.clients = Without(d.clients, C)
      /\ left.defaults = d.defaults \ C
      /\ left.workspaces = d.workspaces
      /\ left.invoiced = d.invoiced
  BY <1>1, ClientDeleteEffect
<1>3. UserDelete(d, u) = [left EXCEPT !.users = Without(@, {u}), !.workspaces = @ \ {u},
                                      !.clients = [c \in DOMAIN @ |-> RemoveMember(@[c], u)]]
  BY DEF UserDelete, Owned
<1> HIDE DEF left
<1> DEFINE cs == [c \in DOMAIN left.clients |-> RemoveMember(left.clients[c], u)]
<1>4. DOMAIN left.clients = DOMAIN d.clients \ C /\ \A c \in DOMAIN d.clients \ C : left.clients[c] = d.clients[c]
  <2>1. d.clients \in Tables(ClientIds, Client)
    BY DatabaseFacts
  <2>2. /\ DOMAIN Without(d.clients, C) = DOMAIN d.clients \ C
        /\ \A c \in DOMAIN d.clients \ C : Without(d.clients, C)[c] = d.clients[c]
    BY DEF Without
  <2> QED BY <1>2, <2>2
<1>5. cs \in [DOMAIN left.clients -> Client] /\ DOMAIN cs = DOMAIN left.clients
  BY <1>2, DatabaseFacts, RemoveMemberType
<1>6. cs \in Tables(ClientIds, Client)
  <2>1. DOMAIN left.clients \subseteq ClientIds
    BY <1>2, DatabaseFacts
  <2> QED BY <1>5, <2>1, TableFacts
<1>7. \A c \in DOMAIN left.clients : cs[c] = RemoveMember(left.clients[c], u)
  OBVIOUS
<1>8. UserDelete(d, u) = [left EXCEPT !.users = Without(left.users, {u}), !.workspaces = left.workspaces \ {u}, !.clients = cs]
  BY <1>2, <1>3 DEF Database
<1> HIDE DEF cs
<1>9. /\ Without(left.users, {u}) \in Tables(UserIds, User) /\ left.workspaces \ {u} \in SUBSET UserIds
      /\ DOMAIN Without(left.users, {u}) = DOMAIN d.users \ {u}
      /\ \A v \in DOMAIN d.users \ {u} : Without(left.users, {u})[v] = left.users[v]
  <2>1. left.users \in Tables(UserIds, User) /\ left.workspaces \subseteq UserIds
    BY <1>2, DatabaseFacts
  <2>2. Without(left.users, {u}) \in Tables(UserIds, User)
    BY <2>1, WithoutFacts
  <2>3. /\ DOMAIN Without(left.users, {u}) = DOMAIN left.users \ {u}
        /\ \A v \in DOMAIN left.users \ {u} : Without(left.users, {u})[v] = left.users[v]
    BY DEF Without
  <2> QED BY <1>2, <2>1, <2>2, <2>3
<1>10. UserDelete(d, u) \in Database
  BY <1>2, <1>6, <1>8, <1>9 DEF Database
<1>11. Holds(UserDelete(d, u), Without(left.users, {u}), cs, left.workspaces \ {u}, left.defaults, left.invoiced)
  BY <1>2, <1>8 DEF Database, Holds
<1>12. DOMAIN UserDelete(d, u).clients = DOMAIN d.clients \ C
       /\ \A c \in DOMAIN d.clients \ C : UserDelete(d, u).clients[c] = RemoveMember(d.clients[c], u)
  BY <1>4, <1>5, <1>7, <1>11 DEF Holds
<1>13. DOMAIN UserDelete(d, u).users = DOMAIN d.users \ {u}
       /\ \A v \in DOMAIN d.users \ {u} :
            UserDelete(d, u).users[v] = IF d.users[v].CurrentClientID \in C
                                        THEN ClearCurrentClient(d.users[v]) ELSE d.users[v]
  BY <1>2, <1>9, <1>11 DEF Holds
<1> QED BY <1>2, <1>10, <1>11, <1>12, <1>13 DEF Holds

-----------------------------------------------------------------------------
(* Requests *)
LEMMA IdleFacts ==
  /\ Idle \in Request /\ Complete(Idle) /\ Idle.op = "idle" /\ Idle.user = Nil /\ Idle.client = Nil
  /\ Idle.counted = FALSE
<1>1. Idle.op = "idle" /\ Idle.user = Nil /\ Idle.client = Nil /\ Idle.counted = FALSE
  BY DEF Idle
<1>2. Idle \in Request
  BY DEF Idle, Request
<1> QED BY <1>1, <1>2 DEF Complete

(* Nothing but one request changes: the tables are as they were. *)
LEMMA OpenStep ==
  ASSUME TypeOK, TenancyInv, NEW q \in Slots, NEW r \in Request, req' = [req EXCEPT ![q] = r],
         UNCHANGED <<db, outbox, minted, overtaken>>,
         clerk' \in [Clerks -> [live : BOOLEAN, banned : BOOLEAN]], hooks' \subseteq Webhook,
         asked' \in 0..MaxRequests, news' \in 0..MaxNews,
         Complete(r), r.user <= minted.user, r.client <= minted.client,
         r.op \in UserSavers => r.user \in DOMAIN db.users /\ db.users[r.user].CurrentClientID = r.row.CurrentClientID,
         r.op \in MemberSavers \cup {"switch"} => r.client \in DOMAIN db.clients /\ db.clients[r.client] = r.loaded,
         r.counted = FALSE,
         r.op = "switch" => r.user \in r.loaded.MemberIDs
  PROVE  TypeOK' /\ TenancyInv'
<1>1. req' \in [Slots -> Request] /\ req'[q] = r /\ \A p \in Slots \ {q} : req'[p] = req[p]
  BY DEF TypeOK
<1>2. TypeOK'
  BY <1>1 DEF TypeOK
<1>3. Constraints(db)' /\ Minted'
  BY <1>1 DEF TenancyInv, Minted, Constraints, UniqueClerk
<1>4. Anchored'
  BY <1>1 DEF TenancyInv, Anchored
<1>5. Seated'
  BY <1>1 DEF TenancyInv, Seated, MemberSavers
<1>6. Placed'
  BY <1>1 DEF TenancyInv, Placed
<1> QED BY <1>2, <1>3, <1>4, <1>5, <1>6 DEF TenancyInv

(* A request ends without a trace. *)
LEMMA CloseStep ==
  ASSUME TypeOK, TenancyInv, NEW q \in Slots, req' = [req EXCEPT ![q] = Idle],
         UNCHANGED <<db, outbox, clerk, hooks, minted, asked, news, overtaken>>
  PROVE  TypeOK' /\ TenancyInv'
<1>1. req' \in [Slots -> Request] /\ req'[q] = Idle /\ \A p \in Slots \ {q} : req'[p] = req[p]
  BY IdleFacts DEF TypeOK
<1>2. TypeOK'
  BY <1>1, IdleFacts DEF TypeOK
<1>3. Idle.user <= minted.user /\ Idle.client <= minted.client
  BY IdleFacts DEF TypeOK, Nil
<1>4. Constraints(db)' /\ Minted'
  BY <1>1, <1>3 DEF TenancyInv, Minted, Constraints, UniqueClerk
<1>5. Idle.op \notin UserSavers \cup MemberSavers \cup {"switch"}
  BY IdleFacts DEF UserSavers, MemberSavers
<1>6. Anchored'
  BY <1>1, <1>5 DEF TenancyInv, Anchored
<1>7. Seated'
  BY <1>1, <1>5 DEF TenancyInv, Seated
<1>8. Placed'
  BY <1>1, <1>5 DEF TenancyInv, Placed
<1> QED BY <1>2, <1>4, <1>6, <1>7, <1>8 DEF TenancyInv

-----------------------------------------------------------------------------
(* Commits *)
LEMMA LookupSame ==
  ASSUME NEW t, NEW s, NEW x, Lookup(t, x) = Lookup(s, x)
  PROVE  (x \in DOMAIN t <=> x \in DOMAIN s) /\ (x \in DOMAIN t => t[x] = s[x])
<1>1. x \in DOMAIN t => Lookup(t, x) = {t[x]}
  BY DEF Lookup
<1>2. x \notin DOMAIN t => Lookup(t, x) = {}
  BY DEF Lookup
<1>3. x \in DOMAIN s => Lookup(s, x) = {s[x]}
  BY DEF Lookup
<1>4. x \notin DOMAIN s => Lookup(s, x) = {}
  BY DEF Lookup
<1> QED BY <1>1, <1>2, <1>3, <1>4

(* A commit that overtook nobody left every other request the rows it read. *)
LEMMA Undisturbed ==
  ASSUME NEW q \in Slots, NEW new, NEW events, Constraints(new), WithTransaction(q, new, events),
         req[q].op \notin overtaken', NEW p \in Slots \ {q}
  PROVE  /\ req[p].user \in DOMAIN db.users <=> req[p].user \in DOMAIN new.users
         /\ req[p].user \in DOMAIN db.users => new.users[req[p].user] = db.users[req[p].user]
         /\ req[p].client \in DOMAIN db.clients <=> req[p].client \in DOMAIN new.clients
         /\ req[p].client \in DOMAIN db.clients => new.clients[req[p].client] = db.clients[req[p].client]
<1>1. ~Overtakes(q, new)
  BY DEF WithTransaction
<1>2. /\ Lookup(db.users, req[p].user) = Lookup(new.users, req[p].user)
      /\ Lookup(db.clients, req[p].client) = Lookup(new.clients, req[p].client)
  BY <1>1 DEF Overtakes
<1>3. /\ req[p].user \in DOMAIN db.users <=> req[p].user \in DOMAIN new.users
      /\ req[p].user \in DOMAIN db.users => new.users[req[p].user] = db.users[req[p].user]
  BY <1>2, LookupSame
<1>4. /\ req[p].client \in DOMAIN db.clients <=> req[p].client \in DOMAIN new.clients
      /\ req[p].client \in DOMAIN db.clients => new.clients[req[p].client] = db.clients[req[p].client]
  BY <1>2, LookupSame
<1> QED BY <1>3, <1>4

NoDeletion == overtaken \cap {"gone", "drop"} = {}
NoListSave == overtaken \cap {"add", "remove", "rename", "gone"} = {}
NoMove     == overtaken \subseteq {"signup", "profile", "rename"}

(* What a commit owes to the invariant: its own rows, and those of the open *)
(* requests unless it counts as overtaking them.                            *)
LEMMA CommitStep ==
  ASSUME TypeOK, TenancyInv, NEW q \in Slots, req[q].op \in OpKinds,
         NEW new \in Database, NEW events \in SUBSET Event, Constraints(new), WithTransaction(q, new, events),
         minted' \in [user : 0..MaxUsers, client : 0..MaxClients],
         minted.user <= minted'.user, minted.client <= minted'.client,
         DOMAIN new.users \subseteq 1..minted'.user, DOMAIN new.clients \subseteq 1..minted'.client,
         NoDeletion =>
           /\ DOMAIN new.users = new.workspaces /\ DOMAIN new.clients = new.defaults
           /\ req[q].op \in {"gone", "drop"} \/ (/\ DOMAIN db.users \subseteq DOMAIN new.users
                                                /\ DOMAIN db.clients \subseteq DOMAIN new.clients),
         NoListSave =>
           /\ \A c \in DOMAIN new.clients : MaxMembers >= Cardinality(new.clients[c].MemberIDs)
           /\ \/ req[q].op \in {"add", "remove", "rename", "gone"}
              \/ \A c \in 0..minted.client : c \in DOMAIN new.clients =>
                   c \in DOMAIN db.clients /\ new.clients[c] = db.clients[c],
         NoMove =>
           /\ \A u \in DOMAIN new.users :
                new.users[u].CurrentClientID # Nil => u \in new.clients[new.users[u].CurrentClientID].MemberIDs
           /\ \/ req[q].op \notin {"signup", "profile", "rename"}
              \/ /\ \A u \in DOMAIN db.users :
                      u \in DOMAIN new.users /\ new.users[u].CurrentClientID = db.users[u].CurrentClientID
                 /\ \A c \in DOMAIN db.clients : c \in DOMAIN new.clients /\ new.clients[c] = db.clients[c]
  PROVE  TypeOK' /\ TenancyInv'
<1>1. /\ db' = new /\ outbox' = outbox \cup events /\ req' = [req EXCEPT ![q] = Idle]
      /\ overtaken' = overtaken \cup {op \in {req[q].op} : Overtakes(q, new)}
      /\ UNCHANGED <<clerk, hooks, asked, news>>
  BY DEF WithTransaction
<1>2. req' \in [Slots -> Request] /\ req'[q] = Idle /\ \A p \in Slots \ {q} : req'[p] = req[p]
  BY <1>1, IdleFacts DEF TypeOK
<1>3. overtaken \subseteq overtaken' /\ overtaken' \subseteq overtaken \cup {req[q].op}
  BY <1>1
<1>4. TypeOK'
  BY <1>1, <1>2, <1>3, IdleFacts DEF TypeOK
<1>5. Constraints(db)'
  BY <1>1 DEF Constraints, UniqueClerk
<1>6. Minted'
  <2>1. Idle.user <= minted'.user /\ Idle.client <= minted'.client
    BY IdleFacts DEF Nil
  <2>2. \A p \in Slots : req[p].user <= minted'.user /\ req[p].client <= minted'.client
    <3> SUFFICES ASSUME NEW p \in Slots PROVE req[p].user <= minted'.user /\ req[p].client <= minted'.client
      OBVIOUS
    <3>1. req[p].user \in Nat /\ req[p].client \in Nat
      <4>1. req[p] \in Request
        BY DEF TypeOK
      <4> QED BY <4>1 DEF Request, UserIds, ClientIds, Nil
    <3>2. req[p].user <= minted.user /\ req[p].client <= minted.client
      BY DEF TenancyInv, Minted
    <3>3. minted.user \in Nat /\ minted.client \in Nat /\ minted'.user \in Nat /\ minted'.client \in Nat
      BY DEF TypeOK
    <3> QED BY <3>1, <3>2, <3>3
  <2> QED BY <1>1, <1>2, <2>1, <2>2 DEF Minted
<1>7. Idle.op \notin UserSavers \cup MemberSavers \cup {"switch"}
  BY IdleFacts DEF UserSavers, MemberSavers
<1>8. Anchored'
  <2> SUFFICES ASSUME NoDeletion'
               PROVE  /\ DOMAIN new.users = new.workspaces /\ DOMAIN new.clients = new.defaults
                      /\ \A p \in Slots \ {q} :
                           /\ req[p].op \in UserSavers => req[p].user \in DOMAIN new.users
                           /\ req[p].op \in MemberSavers => req[p].client \in DOMAIN new.clients
    BY <1>1, <1>2, <1>7 DEF Anchored, NoDeletion
  <2>1. NoDeletion
    BY <1>3 DEF NoDeletion
  <2>2. \A p \in Slots \ {q} :
          /\ req[p].op \in UserSavers => req[p].user \in DOMAIN db.users
          /\ req[p].op \in MemberSavers => req[p].client \in DOMAIN db.clients
    BY <2>1 DEF TenancyInv, Anchored, NoDeletion
  <2>3. CASE req[q].op \in {"gone", "drop"}
    <3>1. req[q].op \notin overtaken'
      BY <2>3 DEF NoDeletion
    <3> QED BY <2>1, <2>2, <3>1, Undisturbed
  <2>4. CASE req[q].op \notin {"gone", "drop"}
    BY <2>1, <2>2, <2>4
  <2> QED BY <2>3, <2>4
<1>9. Seated'
  <2> SUFFICES ASSUME NoListSave', NEW p \in Slots \ {q}, req[p].op \in MemberSavers
               PROVE  /\ req[p].client \in DOMAIN new.clients => new.clients[req[p].client] = req[p].loaded
                      /\ MaxMembers >= Cardinality(req[p].loaded.MemberIDs)
                      /\ req[p].counted => MaxMembers > Cardinality(req[p].loaded.MemberIDs)
    <3>1. NoListSave' => NoListSave
      BY <1>3 DEF NoListSave
    <3> QED BY <1>1, <1>2, <1>7, <3>1 DEF Seated, NoListSave
  <2>1. NoListSave
    BY <1>3 DEF NoListSave
  <2>2. /\ req[p].client \in DOMAIN db.clients => db.clients[req[p].client] = req[p].loaded
        /\ MaxMembers >= Cardinality(req[p].loaded.MemberIDs)
        /\ req[p].counted => MaxMembers > Cardinality(req[p].loaded.MemberIDs)
    BY <2>1 DEF TenancyInv, Seated, NoListSave
  <2>3. CASE req[q].op \in {"add", "remove", "rename", "gone"}
    <3>1. req[q].op \notin overtaken'
      BY <2>3 DEF NoListSave
    <3> QED BY <2>2, <3>1, Undisturbed
  <2>4. CASE req[q].op \notin {"add", "remove", "rename", "gone"}
    <3>1. req[p].client \in 0..minted.client
      <4>1. req[p] \in Request
        BY DEF TypeOK
      <4>2. req[p].client \in Nat
        BY <4>1 DEF Request, ClientIds, Nil
      <4> QED BY <4>2 DEF TenancyInv, Minted, TypeOK
    <3> QED BY <2>1, <2>2, <2>4, <3>1
  <2> QED BY <2>3, <2>4
<1>10. Placed'
  <2> SUFFICES ASSUME NoMove', NEW p \in Slots \ {q}
               PROVE  /\ req[p].op \in UserSavers =>
                           /\ req[p].user \in DOMAIN new.users
                           /\ new.users[req[p].user].CurrentClientID = req[p].row.CurrentClientID
                      /\ req[p].op \in MemberSavers \cup {"switch"} =>
                           req[p].client \in DOMAIN new.clients /\ new.clients[req[p].client] = req[p].loaded
                      /\ req[p].op = "switch" => req[p].user \in req[p].loaded.MemberIDs
    <3>1. NoMove' => NoMove
      BY <1>3 DEF NoMove
    <3> QED BY <1>1, <1>2, <1>7, <3>1 DEF Placed, NoMove
  <2>1. NoMove
    BY <1>3 DEF NoMove
  <2>2. /\ req[p].op \in UserSavers =>
             /\ req[p].user \in DOMAIN db.users
             /\ db.users[req[p].user].CurrentClientID = req[p].row.CurrentClientID
        /\ req[p].op \in MemberSavers \cup {"switch"} =>
             req[p].client \in DOMAIN db.clients /\ db.clients[req[p].client] = req[p].loaded
        /\ req[p].op = "switch" => req[p].user \in req[p].loaded.MemberIDs
    BY <2>1 DEF TenancyInv, Placed, NoMove
  <2>3. CASE req[q].op \notin {"signup", "profile", "rename"}
    <3>1. req[q].op \notin overtaken'
      BY <2>3 DEF NoMove
    <3> QED BY <2>2, <3>1, Undisturbed
  <2>4. CASE req[q].op \in {"signup", "profile", "rename"}
    BY <2>1, <2>2, <2>4
  <2> QED BY <2>3, <2>4
<1> QED BY <1>4, <1>5, <1>6, <1>8, <1>9, <1>10 DEF TenancyInv

(* A commit that violates a constraint is a rollback. *)
LEMMA RefusedStep ==
  ASSUME TypeOK, TenancyInv, NEW q \in Slots, NEW new, NEW events, ~Constraints(new),
         WithTransaction(q, new, events), minted' = minted
  PROVE  TypeOK' /\ TenancyInv'
BY CloseStep DEF WithTransaction

-----------------------------------------------------------------------------
(* Sets of users are finite, and one user more or less is one at most. *)
LEMMA Seats ==
  ASSUME NEW S \in SUBSET UserIds, NEW u
  PROVE  /\ IsFiniteSet(S) /\ Cardinality(S) \in Nat
         /\ Cardinality(S \ {u}) \in Nat /\ Cardinality(S \ {u}) <= Cardinality(S)
         /\ Cardinality(S \cup {u}) \in Nat /\ Cardinality(S \cup {u}) <= Cardinality(S) + 1
<1>1. IsFiniteSet(UserIds)
  BY FS_Interval DEF UserIds, TenancyAssumption
<1>2. IsFiniteSet(S)
  BY <1>1, FS_Subset
<1>3. Cardinality(S) \in Nat
  BY <1>2, FS_CardinalityType
<1>4. S \ {u} \in SUBSET S
  OBVIOUS
<1>5. IsFiniteSet(S \ {u}) /\ Cardinality(S \ {u}) <= Cardinality(S)
  BY <1>2, <1>4, FS_Subset
<1>6. Cardinality(S \ {u}) \in Nat
  BY <1>5, FS_CardinalityType
<1>7. IsFiniteSet(S \cup {u}) /\ (Cardinality(S \cup {u}) = Cardinality(S) \/ Cardinality(S \cup {u}) = Cardinality(S) + 1)
  BY <1>2, FS_AddElement
<1> QED BY <1>2, <1>3, <1>5, <1>6, <1>7

(* What an open request for a save of a client knows. *)
LEMMA ListSaver ==
  ASSUME TypeOK, TenancyInv, NEW q \in Slots, req[q].op \in MemberSavers
  PROVE  /\ req[q].client \in ClientIds /\ req[q].client \in 1..minted.client /\ req[q].loaded \in Client
         /\ req[q].loaded.MemberIDs \in SUBSET UserIds
         /\ NoDeletion => req[q].client \in DOMAIN db.clients
         /\ NoListSave => /\ MaxMembers >= Cardinality(req[q].loaded.MemberIDs)
                          /\ req[q].counted => MaxMembers > Cardinality(req[q].loaded.MemberIDs)
         /\ NoMove => req[q].client \in DOMAIN db.clients /\ db.clients[req[q].client] = req[q].loaded
<1>1. req[q] \in Request /\ Complete(req[q])
  BY DEF TypeOK
<1>2. req[q].client \in ClientIds /\ req[q].loaded \in Client
  BY <1>1 DEF Complete, MemberSavers
<1>3. req[q].client \in 1..minted.client
  BY <1>2 DEF TenancyInv, Minted, ClientIds, TypeOK
<1>4. req[q].loaded.MemberIDs \in SUBSET UserIds
  BY <1>2 DEF Client
<1>5. NoDeletion => req[q].client \in DOMAIN db.clients
  BY DEF TenancyInv, Anchored, NoDeletion
<1>6. NoListSave => /\ MaxMembers >= Cardinality(req[q].loaded.MemberIDs)
                    /\ req[q].counted => MaxMembers > Cardinality(req[q].loaded.MemberIDs)
  BY DEF TenancyInv, Seated, NoListSave
<1>7. NoMove => req[q].client \in DOMAIN db.clients /\ db.clients[req[q].client] = req[q].loaded
  BY DEF TenancyInv, Placed, NoMove
<1> QED BY <1>2, <1>3, <1>4, <1>5, <1>6, <1>7

(* What an open request for a save of a user knows. *)
LEMMA UserSaver ==
  ASSUME TypeOK, TenancyInv, NEW q \in Slots, req[q].op \in UserSavers
  PROVE  /\ req[q].user \in UserIds /\ req[q].user \in 1..minted.user /\ req[q].row \in User
         /\ NoDeletion => req[q].user \in DOMAIN db.users
         /\ NoMove => /\ req[q].user \in DOMAIN db.users
                      /\ db.users[req[q].user].CurrentClientID = req[q].row.CurrentClientID
<1>1. req[q] \in Request /\ Complete(req[q])
  BY DEF TypeOK
<1>2. req[q].user \in UserIds /\ req[q].row \in User
  BY <1>1 DEF Complete, UserSavers
<1>3. req[q].user \in 1..minted.user
  BY <1>2 DEF TenancyInv, Minted, UserIds, TypeOK
<1>4. NoDeletion => req[q].user \in DOMAIN db.users
  BY DEF TenancyInv, Anchored, NoDeletion
<1>5. NoMove => /\ req[q].user \in DOMAIN db.users
                /\ db.users[req[q].user].CurrentClientID = req[q].row.CurrentClientID
  BY DEF TenancyInv, Placed, NoMove
<1> QED BY <1>2, <1>3, <1>4, <1>5

(* What holds of the tables before a commit. *)
LEMMA Before ==
  ASSUME TypeOK, TenancyInv
  PROVE  /\ db \in Database
         /\ minted \in [user : 0..MaxUsers, client : 0..MaxClients]
         /\ minted.user \in Nat /\ minted.user <= minted.user
         /\ minted.client \in Nat /\ minted.client <= minted.client
         /\ DOMAIN db.users \subseteq 1..minted.user /\ DOMAIN db.clients \subseteq 1..minted.client
         /\ NoDeletion => DOMAIN db.users = db.workspaces /\ DOMAIN db.clients = db.defaults
         /\ NoListSave => \A c \in DOMAIN db.clients : MaxMembers >= Cardinality(db.clients[c].MemberIDs)
         /\ NoMove => \A u \in DOMAIN db.users : db.users[u].CurrentClientID # Nil =>
                        u \in db.clients[db.users[u].CurrentClientID].MemberIDs
         /\ \A u \in DOMAIN db.users : db.users[u].CurrentClientID # Nil =>
                        db.users[u].CurrentClientID \in DOMAIN db.clients
<1>1. /\ minted \in [user : 0..MaxUsers, client : 0..MaxClients] /\ minted.user \in Nat /\ minted.client \in Nat
      /\ minted.user <= minted.user /\ minted.client <= minted.client /\ db \in Database
  BY DEF TypeOK
<1>2. DOMAIN db.users \subseteq 1..minted.user /\ DOMAIN db.clients \subseteq 1..minted.client
  BY DEF TenancyInv, Minted
<1>3. NoDeletion => DOMAIN db.users = db.workspaces /\ DOMAIN db.clients = db.defaults
  BY DEF TenancyInv, Anchored, NoDeletion
<1>4. NoListSave => \A c \in DOMAIN db.clients : MaxMembers >= Cardinality(db.clients[c].MemberIDs)
  BY DEF TenancyInv, Seated, NoListSave
<1>5. NoMove => \A u \in DOMAIN db.users : db.users[u].CurrentClientID # Nil =>
                  u \in db.clients[db.users[u].CurrentClientID].MemberIDs
  BY DEF TenancyInv, Placed, NoMove
<1>6. \A u \in DOMAIN db.users : db.users[u].CurrentClientID # Nil =>
        db.users[u].CurrentClientID \in DOMAIN db.clients
  BY DEF TenancyInv, Constraints
<1> QED BY <1>1, <1>2, <1>3, <1>4, <1>5, <1>6

\* What the commands write to the outbox are events.
LEMMA NoteType ==
  ASSUME NEW type \in UserEvents \cup ClientEvents, NEW u \in UserIds \cup {Nil}, NEW c \in ClientIds \cup {Nil}
  PROVE  Note(type, u, c) \in Event
BY DEF Note, Event

\* PUT /clients/:id.
LEMMA UpdateClientStep ==
  ASSUME TypeOK, TenancyInv, NEW q \in Slots, UpdateClient(q)
  PROVE  TypeOK' /\ TenancyInv'
<1> DEFINE c == req[q].client
           new == ClientUpdate(db, c, req[q].loaded)
           events == {Note("client.updated", Nil, c)}
<1>1. req[q].op = "rename" /\ WithTransaction(q, new, events) /\ minted' = minted
  BY DEF UpdateClient
<1>2. req[q].op \in MemberSavers /\ req[q].op \in OpKinds
  BY <1>1 DEF MemberSavers, OpKinds
<1>3. /\ c \in ClientIds /\ c \in 1..minted.client /\ req[q].loaded \in Client
      /\ NoDeletion => c \in DOMAIN db.clients
      /\ NoListSave => MaxMembers >= Cardinality(req[q].loaded.MemberIDs)
      /\ NoMove => c \in DOMAIN db.clients /\ db.clients[c] = req[q].loaded
  BY <1>2, ListSaver
<1>4. new \in Database /\ Holds(new, db.users, Upsert(db.clients, c, req[q].loaded), db.workspaces, db.defaults, db.invoiced)
  BY <1>3, Before, ClientSaveEffect
<1>5. /\ new.users = db.users /\ new.workspaces = db.workspaces /\ new.defaults = db.defaults
      /\ DOMAIN new.clients = DOMAIN db.clients \cup {c}
      /\ new.clients[c] = req[q].loaded /\ \A x \in DOMAIN db.clients \ {c} : new.clients[x] = db.clients[x]
  BY <1>4 DEF Holds, Upsert
<1>6. events \in SUBSET Event
  <2>1. "client.updated" \in UserEvents \cup ClientEvents /\ Nil \in UserIds \cup {Nil} /\ c \in ClientIds \cup {Nil}
    BY <1>3 DEF ClientEvents
  <2>2. Note("client.updated", Nil, c) \in Event
    BY <2>1, NoteType
  <2> QED BY <2>2
<1> HIDE DEF new, events
<1>7. CASE Constraints(new)
  <2>1. NoDeletion => /\ DOMAIN new.users = new.workspaces /\ DOMAIN new.clients = new.defaults
                      /\ DOMAIN db.users \subseteq DOMAIN new.users /\ DOMAIN db.clients \subseteq DOMAIN new.clients
    BY <1>3, <1>5, Before
  <2>2. NoListSave => \A x \in DOMAIN new.clients : MaxMembers >= Cardinality(new.clients[x].MemberIDs)
    BY <1>3, <1>5, Before
  <2>3. NoMove => /\ \A u \in DOMAIN db.users :
                       u \in DOMAIN new.users /\ new.users[u].CurrentClientID = db.users[u].CurrentClientID
                  /\ \A x \in DOMAIN db.clients : x \in DOMAIN new.clients /\ new.clients[x] = db.clients[x]
    BY <1>3, <1>5
  <2>4. NoMove => \A u \in DOMAIN new.users :
          new.users[u].CurrentClientID # Nil => u \in new.clients[new.users[u].CurrentClientID].MemberIDs
    BY <1>5, <2>3, Before
  <2>5. DOMAIN new.users \subseteq 1..minted'.user /\ DOMAIN new.clients \subseteq 1..minted'.client
    BY <1>1, <1>3, <1>5, Before
  <2>6. /\ minted' \in [user : 0..MaxUsers, client : 0..MaxClients]
        /\ minted.user <= minted'.user /\ minted.client <= minted'.client
    BY <1>1, Before
  <2> QED BY <1>1, <1>2, <1>4, <1>6, <1>7, <2>1, <2>2, <2>3, <2>4, <2>5, <2>6, CommitStep
<1>8. CASE ~Constraints(new)
  BY <1>1, <1>8, RefusedStep
<1> QED BY <1>7, <1>8

\* POST /clients/:id/members: the seat was counted under the lock.
LEMMA AddClientMemberStep ==
  ASSUME TypeOK, TenancyInv, NEW q \in Slots, AddClientMember(q)
  PROVE  TypeOK' /\ TenancyInv'
<1> DEFINE c == req[q].client
           u == req[q].user
           cl == AddMember(req[q].loaded, u)
           new == ClientUpdate(db, c, cl)
           events == {Note("client.member_added", u, c)}
<1>1. req[q].op = "add" /\ req[q].counted /\ WithTransaction(q, new, events) /\ minted' = minted
  BY DEF AddClientMember
<1>2. req[q].op \in MemberSavers /\ req[q].op \in OpKinds
  BY <1>1 DEF MemberSavers, OpKinds
<1>3. /\ c \in ClientIds /\ c \in 1..minted.client /\ req[q].loaded \in Client
      /\ req[q].loaded.MemberIDs \in SUBSET UserIds
      /\ NoDeletion => c \in DOMAIN db.clients
      /\ NoListSave => MaxMembers > Cardinality(req[q].loaded.MemberIDs)
      /\ NoMove => c \in DOMAIN db.clients /\ db.clients[c] = req[q].loaded
  BY <1>1, <1>2, ListSaver
<1>4. u \in UserIds
  BY <1>1 DEF TypeOK, Complete
<1>5. cl \in Client /\ cl.MemberIDs = req[q].loaded.MemberIDs \cup {u}
  BY <1>3, <1>4, AddMemberType
<1>6. NoListSave => MaxMembers >= Cardinality(cl.MemberIDs)
  <2>1. /\ Cardinality(req[q].loaded.MemberIDs) \in Nat /\ Cardinality(cl.MemberIDs) \in Nat
        /\ Cardinality(cl.MemberIDs) <= Cardinality(req[q].loaded.MemberIDs) + 1
    BY <1>3, <1>5, Seats
  <2> QED BY <1>3, <2>1 DEF TenancyAssumption
<1>7. events \in SUBSET Event
  BY <1>3, <1>4, NoteType DEF ClientEvents
<1> HIDE DEF cl
<1>8. new \in Database /\ Holds(new, db.users, Upsert(db.clients, c, cl), db.workspaces, db.defaults, db.invoiced)
  BY <1>3, <1>5, Before, ClientSaveEffect
<1>9. /\ new.users = db.users /\ new.workspaces = db.workspaces /\ new.defaults = db.defaults
      /\ DOMAIN new.clients = DOMAIN db.clients \cup {c}
      /\ new.clients[c] = cl /\ \A x \in DOMAIN db.clients \ {c} : new.clients[x] = db.clients[x]
  BY <1>8 DEF Holds, Upsert
<1> HIDE DEF new, events
<1>10. CASE Constraints(new)
  <2>1. NoDeletion => /\ DOMAIN new.users = new.workspaces /\ DOMAIN new.clients = new.defaults
                      /\ DOMAIN db.users \subseteq DOMAIN new.users /\ DOMAIN db.clients \subseteq DOMAIN new.clients
    BY <1>3, <1>9, Before
  <2>2. NoListSave => \A x \in DOMAIN new.clients : MaxMembers >= Cardinality(new.clients[x].MemberIDs)
    BY <1>6, <1>9, Before
  <2>3. NoMove => \A v \in DOMAIN new.users :
          new.users[v].CurrentClientID # Nil => v \in new.clients[new.users[v].CurrentClientID].MemberIDs
    <3> SUFFICES ASSUME NoMove, NEW v \in DOMAIN db.users, db.users[v].CurrentClientID # Nil
                 PROVE  v \in new.clients[db.users[v].CurrentClientID].MemberIDs
      BY <1>9
    <3>1. /\ db.users[v].CurrentClientID \in DOMAIN db.clients
          /\ v \in db.clients[db.users[v].CurrentClientID].MemberIDs
      BY Before
    <3> QED BY <1>3, <1>5, <1>9, <3>1
  <2>4. DOMAIN new.users \subseteq 1..minted'.user /\ DOMAIN new.clients \subseteq 1..minted'.client
    BY <1>1, <1>3, <1>9, Before
  <2>5. /\ minted' \in [user : 0..MaxUsers, client : 0..MaxClients]
        /\ minted.user <= minted'.user /\ minted.client <= minted'.client
    BY <1>1, Before
  <2> QED BY <1>1, <1>2, <1>7, <1>8, <1>10, <2>1, <2>2, <2>3, <2>4, <2>5, CommitStep
<1>11. CASE ~Constraints(new)
  BY <1>1, <1>11, RefusedStep
<1> QED BY <1>10, <1>11

(* A save of one user's row, whatever it does to the current client. *)
LEMMA UserCommit ==
  ASSUME TypeOK, TenancyInv, NEW q \in Slots, req[q].op \in UserSavers \ {"create"},
         NEW row \in User, NEW events \in SUBSET Event,
         WithTransaction(q, UserUpdate(db, req[q].user, row), events), minted' = minted,
         req[q].op = "profile" => row.CurrentClientID = req[q].row.CurrentClientID,
         NoMove /\ row.CurrentClientID # Nil => req[q].user \in db.clients[row.CurrentClientID].MemberIDs
  PROVE  TypeOK' /\ TenancyInv'
<1> DEFINE u == req[q].user
           new == UserUpdate(db, u, row)
<1>1. WithTransaction(q, new, events) /\ req[q].op \in UserSavers /\ req[q].op \in OpKinds
      /\ req[q].op \notin {"gone", "drop", "add", "remove", "rename", "signup"}
  BY DEF UserSavers, OpKinds
<1>2. /\ u \in UserIds /\ u \in 1..minted.user
      /\ NoDeletion => u \in DOMAIN db.users
      /\ NoMove => u \in DOMAIN db.users /\ db.users[u].CurrentClientID = req[q].row.CurrentClientID
  BY <1>1, UserSaver
<1>3. new \in Database /\ Holds(new, Upsert(db.users, u, row), db.clients, db.workspaces, db.defaults, db.invoiced)
  BY <1>2, Before, UserSaveEffect
<1>4. /\ new.clients = db.clients /\ new.workspaces = db.workspaces /\ new.defaults = db.defaults
      /\ DOMAIN new.users = DOMAIN db.users \cup {u}
      /\ new.users[u] = row /\ \A x \in DOMAIN db.users \ {u} : new.users[x] = db.users[x]
  BY <1>3 DEF Holds, Upsert
<1> HIDE DEF new
<1>5. CASE Constraints(new)
  <2>1. NoDeletion => /\ DOMAIN new.users = new.workspaces /\ DOMAIN new.clients = new.defaults
                      /\ DOMAIN db.users \subseteq DOMAIN new.users /\ DOMAIN db.clients \subseteq DOMAIN new.clients
    BY <1>2, <1>4, Before
  <2>2. NoListSave => \A x \in DOMAIN new.clients : MaxMembers >= Cardinality(new.clients[x].MemberIDs)
    BY <1>4, Before
  <2>3. \A c \in 0..minted.client : c \in DOMAIN new.clients => c \in DOMAIN db.clients /\ new.clients[c] = db.clients[c]
    BY <1>4
  <2>4. NoMove => \A v \in DOMAIN new.users :
          new.users[v].CurrentClientID # Nil => v \in new.clients[new.users[v].CurrentClientID].MemberIDs
    <3> SUFFICES ASSUME NoMove, NEW v \in DOMAIN new.users, new.users[v].CurrentClientID # Nil
                 PROVE  v \in db.clients[new.users[v].CurrentClientID].MemberIDs
      BY <1>4
    <3>1. CASE v = u
      BY <1>4, <3>1
    <3>2. CASE v # u
      BY <1>4, <3>2, Before
    <3> QED BY <3>1, <3>2
  <2>5. NoMove => \/ req[q].op \notin {"signup", "profile", "rename"}
                  \/ /\ \A v \in DOMAIN db.users :
                          v \in DOMAIN new.users /\ new.users[v].CurrentClientID = db.users[v].CurrentClientID
                     /\ \A x \in DOMAIN db.clients : x \in DOMAIN new.clients /\ new.clients[x] = db.clients[x]
    BY <1>1, <1>2, <1>4
  <2>6. DOMAIN new.users \subseteq 1..minted'.user /\ DOMAIN new.clients \subseteq 1..minted'.client
    BY <1>2, <1>4, Before
  <2>7. /\ minted' \in [user : 0..MaxUsers, client : 0..MaxClients]
        /\ minted.user <= minted'.user /\ minted.client <= minted'.client
    BY Before
  <2> QED BY <1>1, <1>3, <1>5, <2>1, <2>2, <2>3, <2>4, <2>5, <2>6, <2>7, CommitStep
<1>6. CASE ~Constraints(new)
  BY <1>1, <1>6, RefusedStep
<1> QED BY <1>5, <1>6

\* The user.updated webhook.
LEMMA UpdateUserStep ==
  ASSUME TypeOK, TenancyInv, NEW q \in Slots, UpdateUser(q)
  PROVE  TypeOK' /\ TenancyInv'
<1> DEFINE row == ApplyProfile(req[q].row, req[q].banned)
<1>1. /\ req[q].op = "profile" /\ minted' = minted
      /\ WithTransaction(q, UserUpdate(db, req[q].user, row), {Note("user.updated", req[q].user, Nil)})
  BY DEF UpdateUser
<1>2. req[q].op \in UserSavers \ {"create"}
  BY <1>1 DEF UserSavers
<1>3. /\ req[q].user \in UserIds /\ req[q].row \in User
      /\ NoMove => req[q].user \in DOMAIN db.users /\ db.users[req[q].user].CurrentClientID = req[q].row.CurrentClientID
  BY <1>2, UserSaver
<1>4. row \in User /\ row.CurrentClientID = req[q].row.CurrentClientID
  <2>1. req[q].banned \in BOOLEAN
    BY DEF TypeOK, Request
  <2> QED BY <1>3, <2>1 DEF ApplyProfile, User
<1>5. {Note("user.updated", req[q].user, Nil)} \in SUBSET Event
  BY <1>3, NoteType DEF UserEvents
<1> HIDE DEF row
<1>6. NoMove /\ row.CurrentClientID # Nil => req[q].user \in db.clients[row.CurrentClientID].MemberIDs
  BY <1>3, <1>4, Before
<1> QED BY <1>1, <1>2, <1>4, <1>5, <1>6, UserCommit

\* Switching the current client.
LEMMA SwitchClientStep ==
  ASSUME TypeOK, TenancyInv, NEW q \in Slots, SwitchClient(q)
  PROVE  TypeOK' /\ TenancyInv'
<1> DEFINE row == SetCurrentClient(req[q].row, req[q].client)
<1>1. /\ req[q].op = "switch" /\ minted' = minted
      /\ WithTransaction(q, UserUpdate(db, req[q].user, row),
                         {Note("user.current_client_changed", req[q].user, req[q].client)})
  BY DEF SwitchClient
<1>2. req[q].op \in UserSavers \ {"create"}
  BY <1>1 DEF UserSavers
<1>3. req[q].user \in UserIds /\ req[q].row \in User /\ req[q].client \in ClientIds
  BY <1>1 DEF TypeOK, Complete
<1>4. row \in User /\ row.CurrentClientID = req[q].client
  BY <1>3 DEF SetCurrentClient, User
<1>5. {Note("user.current_client_changed", req[q].user, req[q].client)} \in SUBSET Event
  BY <1>3, NoteType DEF UserEvents
<1> HIDE DEF row
<1>6. NoMove => req[q].user \in db.clients[req[q].client].MemberIDs
  BY <1>1 DEF TenancyInv, Placed, NoMove
<1> QED BY <1>1, <1>2, <1>4, <1>5, <1>6, UserCommit

\* DELETE /clients/:id/members/:userId, with the reset of a current client.
LEMMA RemoveClientMemberStep ==
  ASSUME TypeOK, TenancyInv, NEW q \in Slots, RemoveClientMember(q)
  PROVE  TypeOK' /\ TenancyInv'
<1> DEFINE c == req[q].client
           u == req[q].user
           cl == RemoveMember(req[q].loaded, u)
           current == u \in DOMAIN db.users /\ db.users[u].CurrentClientID = c
           d1 == ClientUpdate(db, c, cl)
           new == IF current THEN UserUpdate(d1, u, ClearCurrentClient(d1.users[u])) ELSE d1
           events == {Note("client.member_removed", u, c)}
                       \cup {e \in {Note("user.current_client_changed", u, Nil)} : current}
<1>1. req[q].op = "remove" /\ WithTransaction(q, new, events) /\ minted' = minted
  BY DEF RemoveClientMember
<1>2. req[q].op \in MemberSavers /\ req[q].op \in OpKinds
  BY <1>1 DEF MemberSavers, OpKinds
<1>3. /\ c \in ClientIds /\ c \in 1..minted.client /\ req[q].loaded \in Client
      /\ req[q].loaded.MemberIDs \in SUBSET UserIds
      /\ NoDeletion => c \in DOMAIN db.clients
      /\ NoListSave => MaxMembers >= Cardinality(req[q].loaded.MemberIDs)
      /\ NoMove => c \in DOMAIN db.clients /\ db.clients[c] = req[q].loaded
  BY <1>2, ListSaver
<1>4. u \in UserIds
  BY <1>1 DEF TypeOK, Complete
<1>5. cl \in Client /\ cl.MemberIDs = req[q].loaded.MemberIDs \ {u}
  BY <1>3, RemoveMemberType
<1>6. NoListSave => MaxMembers >= Cardinality(cl.MemberIDs)
  <2>1. /\ Cardinality(req[q].loaded.MemberIDs) \in Nat /\ Cardinality(cl.MemberIDs) \in Nat
        /\ Cardinality(cl.MemberIDs) <= Cardinality(req[q].loaded.MemberIDs)
    BY <1>3, <1>5, Seats
  <2> QED BY <1>3, <2>1 DEF TenancyAssumption
<1>7. events \in SUBSET Event
  <2>1. Note("client.member_removed", u, c) \in Event
    BY <1>3, <1>4, NoteType DEF ClientEvents
  <2>2. Note("user.current_client_changed", u, Nil) \in Event
    BY <1>4, NoteType DEF UserEvents
  <2> QED BY <2>1, <2>2
<1> HIDE DEF cl, events
<1>8. d1 \in Database /\ Holds(d1, db.users, Upsert(db.clients, c, cl), db.workspaces, db.defaults, db.invoiced)
  BY <1>3, <1>5, Before, ClientSaveEffect
<1>9. /\ new \in Database /\ new.clients = d1.clients /\ new.workspaces = d1.workspaces /\ new.defaults = d1.defaults
      /\ DOMAIN new.users = DOMAIN db.users
      /\ \A v \in DOMAIN db.users \ {u} : new.users[v] = db.users[v]
      /\ u \in DOMAIN db.users => new.users[u] = IF current THEN ClearCurrentClient(db.users[u]) ELSE db.users[u]
  <2>1. d1.users = db.users
    BY <1>8 DEF Holds
  <2> HIDE DEF d1
  <2>2. CASE current
    <3>1. db.users[u] \in User
      BY <2>2, Before, DatabaseFacts
    <3>2. ClearCurrentClient(db.users[u]) \in User
      BY <3>1, ClearCurrentType
    <3>3. new = UserUpdate(d1, u, ClearCurrentClient(db.users[u]))
      BY <2>1, <2>2
    <3> HIDE DEF new
    <3>4. /\ new \in Database
          /\ Holds(new, Upsert(d1.users, u, ClearCurrentClient(db.users[u])), d1.clients, d1.workspaces, d1.defaults, d1.invoiced)
      BY <1>4, <1>8, <3>2, <3>3, UserSaveEffect
    <3> QED BY <2>1, <2>2, <3>4 DEF Holds, Upsert
  <2>3. CASE ~current
    BY <1>8, <2>1, <2>3
  <2> QED BY <2>2, <2>3
<1>10. /\ DOMAIN new.clients = DOMAIN db.clients \cup {c} /\ new.workspaces = db.workspaces /\ new.defaults = db.defaults
       /\ new.clients[c] = cl /\ \A x \in DOMAIN db.clients \ {c} : new.clients[x] = db.clients[x]
  <2>1. new.clients = Upsert(db.clients, c, cl) /\ new.workspaces = db.workspaces /\ new.defaults = db.defaults
    BY <1>8, <1>9 DEF Holds
  <2> HIDE DEF new
  <2> QED BY <2>1 DEF Upsert
<1> HIDE DEF new, d1
<1>11. CASE Constraints(new)
  <2>1. NoDeletion => /\ DOMAIN new.users = new.workspaces /\ DOMAIN new.clients = new.defaults
                      /\ DOMAIN db.users \subseteq DOMAIN new.users /\ DOMAIN db.clients \subseteq DOMAIN new.clients
    BY <1>3, <1>9, <1>10, Before
  <2>2. NoListSave => \A x \in DOMAIN new.clients : MaxMembers >= Cardinality(new.clients[x].MemberIDs)
    BY <1>6, <1>10, Before
  <2>3. NoMove => \A v \in DOMAIN new.users :
          new.users[v].CurrentClientID # Nil => v \in new.clients[new.users[v].CurrentClientID].MemberIDs
    <3> SUFFICES ASSUME NoMove, NEW v \in DOMAIN db.users, new.users[v].CurrentClientID # Nil
                 PROVE  v \in new.clients[new.users[v].CurrentClientID].MemberIDs
      BY <1>9
    <3>1. v = u => ~current
      <4> SUFFICES ASSUME v = u, current PROVE FALSE
        OBVIOUS
      <4>1. db.users[u] \in User
        BY Before, DatabaseFacts
      <4>2. new.users[u] = ClearCurrentClient(db.users[u])
        BY <1>9
      <4> QED BY <4>1, <4>2, ClearCurrentType
    <3>2. new.users[v] = db.users[v]
      BY <1>9, <3>1
    <3>3. /\ db.users[v].CurrentClientID \in DOMAIN db.clients
          /\ v \in db.clients[db.users[v].CurrentClientID].MemberIDs
      BY <3>2, Before
    <3>4. CASE db.users[v].CurrentClientID = c
      BY <1>3, <1>5, <1>10, <3>1, <3>2, <3>3, <3>4
    <3>5. CASE db.users[v].CurrentClientID # c
      BY <1>10, <3>2, <3>3, <3>5
    <3> QED BY <3>4, <3>5
  <2>4. DOMAIN new.users \subseteq 1..minted'.user /\ DOMAIN new.clients \subseteq 1..minted'.client
    BY <1>1, <1>3, <1>9, <1>10, Before
  <2>5. /\ minted' \in [user : 0..MaxUsers, client : 0..MaxClients]
        /\ minted.user <= minted'.user /\ minted.client <= minted'.client
    BY <1>1, Before
  <2> QED BY <1>1, <1>2, <1>7, <1>9, <1>11, <2>1, <2>2, <2>3, <2>4, <2>5, CommitStep
<1>12. CASE ~Constraints(new)
  BY <1>1, <1>12, RefusedStep
<1> QED BY <1>11, <1>12

\* DELETE /clients/:id.
LEMMA DeleteClientStep ==
  ASSUME TypeOK, TenancyInv, NEW q \in Slots, DeleteClient(q)
  PROVE  TypeOK' /\ TenancyInv'
<1> DEFINE c == req[q].client
           new == ClientDelete(db, {c})
           events == {Note("client.deleted", Nil, c)}
<1>1. req[q].op = "drop" /\ WithTransaction(q, new, events) /\ minted' = minted
  BY DEF DeleteClient
<1>2. req[q].op \in OpKinds
  BY <1>1 DEF OpKinds
<1>3. c \in ClientIds
  BY <1>1 DEF TypeOK, Complete
<1>4. events \in SUBSET Event
  BY <1>3, NoteType DEF ClientEvents
<1>5. /\ new \in Database /\ DOMAIN new.users = DOMAIN db.users
      /\ \A u \in DOMAIN db.users : new.users[u] = IF db.users[u].CurrentClientID \in {c}
                                                   THEN ClearCurrentClient(db.users[u]) ELSE db.users[u]
      /\ new.clients = Without(db.clients, {c}) /\ new.defaults = db.defaults \ {c}
      /\ new.workspaces = db.workspaces
  <2>1. {c} \in SUBSET ClientIds
    BY <1>3
  <2> QED BY <2>1, Before, ClientDeleteEffect
<1> HIDE DEF new, events
<1>6. /\ DOMAIN new.clients = DOMAIN db.clients \ {c}
      /\ \A x \in DOMAIN db.clients \ {c} : new.clients[x] = db.clients[x]
  BY <1>5 DEF Without
<1>7. CASE Constraints(new)
  <2>1. NoDeletion => DOMAIN new.users = new.workspaces /\ DOMAIN new.clients = new.defaults
    BY <1>5, <1>6, Before
  <2>2. NoListSave => \A x \in DOMAIN new.clients : MaxMembers >= Cardinality(new.clients[x].MemberIDs)
    BY <1>6, Before
  <2>3. \A x \in 0..minted.client : x \in DOMAIN new.clients => x \in DOMAIN db.clients /\ new.clients[x] = db.clients[x]
    BY <1>6
  <2>4. NoMove => \A v \in DOMAIN new.users :
          new.users[v].CurrentClientID # Nil => v \in new.clients[new.users[v].CurrentClientID].MemberIDs
    <3> SUFFICES ASSUME NoMove, NEW v \in DOMAIN db.users, new.users[v].CurrentClientID # Nil
                 PROVE  v \in new.clients[new.users[v].CurrentClientID].MemberIDs
      BY <1>5
    <3>1. db.users[v] \in User
      BY Before, DatabaseFacts
    <3>2. db.users[v].CurrentClientID # c /\ new.users[v] = db.users[v]
      BY <1>5, <3>1, ClearCurrentType
    <3> QED BY <1>6, <3>2, Before
  <2>5. DOMAIN new.users \subseteq 1..minted'.user /\ DOMAIN new.clients \subseteq 1..minted'.client
    BY <1>1, <1>5, <1>6, Before
  <2>6. /\ minted' \in [user : 0..MaxUsers, client : 0..MaxClients]
        /\ minted.user <= minted'.user /\ minted.client <= minted'.client
    BY <1>1, Before
  <2> QED BY <1>1, <1>2, <1>4, <1>5, <1>7, <2>1, <2>2, <2>3, <2>4, <2>5, <2>6, CommitStep
<1>8. CASE ~Constraints(new)
  BY <1>1, <1>8, RefusedStep
<1> QED BY <1>7, <1>8

\* The user.deleted webhook, with the clients of the workspace.
LEMMA DeleteUserStep ==
  ASSUME TypeOK, TenancyInv, NEW q \in Slots, DeleteUserByExternalID(q)
  PROVE  TypeOK' /\ TenancyInv'
<1> DEFINE u == req[q].user
           C == Owned(db, u)
           new == UserDelete(db, u)
           events == {Note("user.deleted", u, Nil)}
<1>1. req[q].op = "gone" /\ WithTransaction(q, new, events) /\ minted' = minted
  BY DEF DeleteUserByExternalID
<1>2. req[q].op \in OpKinds
  BY <1>1 DEF OpKinds
<1>3. u \in UserIds
  BY <1>1 DEF TypeOK, Complete
<1>4. events \in SUBSET Event
  BY <1>3, NoteType DEF UserEvents
<1>5. /\ new \in Database /\ DOMAIN new.users = DOMAIN db.users \ {u}
      /\ \A v \in DOMAIN db.users \ {u} : new.users[v] = IF db.users[v].CurrentClientID \in C
                                                         THEN ClearCurrentClient(db.users[v]) ELSE db.users[v]
      /\ DOMAIN new.clients = DOMAIN db.clients \ C
      /\ \A c \in DOMAIN db.clients \ C : new.clients[c] = RemoveMember(db.clients[c], u)
      /\ new.defaults = db.defaults \ C /\ new.workspaces = db.workspaces \ {u}
  BY <1>3, Before, UserDeleteEffect
<1> HIDE DEF new, events, C
<1>6. \A c \in DOMAIN db.clients : db.clients[c] \in Client /\ db.clients[c].MemberIDs \in SUBSET UserIds
  BY Before, DatabaseFacts DEF Client
<1>7. \A c \in DOMAIN db.clients \ C : new.clients[c].MemberIDs = db.clients[c].MemberIDs \ {u}
  BY <1>5, <1>6, RemoveMemberType
<1>8. CASE Constraints(new)
  <2>1. NoDeletion => DOMAIN new.users = new.workspaces /\ DOMAIN new.clients = new.defaults
    BY <1>5, Before
  <2>2. NoListSave => \A x \in DOMAIN new.clients : MaxMembers >= Cardinality(new.clients[x].MemberIDs)
    <3> SUFFICES ASSUME NoListSave, NEW x \in DOMAIN db.clients \ C
                 PROVE  MaxMembers >= Cardinality(new.clients[x].MemberIDs)
      BY <1>5
    <3>1. new.clients[x].MemberIDs = db.clients[x].MemberIDs \ {u} /\ db.clients[x].MemberIDs \in SUBSET UserIds
      BY <1>6, <1>7
    <3>2. /\ Cardinality(db.clients[x].MemberIDs) \in Nat /\ Cardinality(new.clients[x].MemberIDs) \in Nat
          /\ Cardinality(new.clients[x].MemberIDs) <= Cardinality(db.clients[x].MemberIDs)
      BY <3>1, Seats
    <3>3. MaxMembers >= Cardinality(db.clients[x].MemberIDs)
      BY Before
    <3> QED BY <3>2, <3>3 DEF TenancyAssumption
  <2>3. NoMove => \A v \in DOMAIN new.users :
          new.users[v].CurrentClientID # Nil => v \in new.clients[new.users[v].CurrentClientID].MemberIDs
    <3> SUFFICES ASSUME NoMove, NEW v \in DOMAIN db.users \ {u}, new.users[v].CurrentClientID # Nil
                 PROVE  v \in new.clients[new.users[v].CurrentClientID].MemberIDs
      BY <1>5
    <3>1. db.users[v] \in User
      BY Before, DatabaseFacts
    <3>2. db.users[v].CurrentClientID \notin C /\ new.users[v] = db.users[v]
      BY <1>5, <3>1, ClearCurrentType
    <3>3. db.users[v].CurrentClientID \in DOMAIN db.clients /\ v \in db.clients[db.users[v].CurrentClientID].MemberIDs
      BY <3>2, Before
    <3> QED BY <1>7, <3>2, <3>3
  <2>4. DOMAIN new.users \subseteq 1..minted'.user /\ DOMAIN new.clients \subseteq 1..minted'.client
    BY <1>1, <1>5, Before
  <2>5. /\ minted' \in [user : 0..MaxUsers, client : 0..MaxClients]
        /\ minted.user <= minted'.user /\ minted.client <= minted'.client
    BY <1>1, Before
  <2> QED BY <1>1, <1>2, <1>4, <1>5, <1>8, <2>1, <2>2, <2>3, <2>4, <2>5, CommitStep
<1>9. CASE ~Constraints(new)
  BY <1>1, <1>9, RefusedStep
<1> QED BY <1>8, <1>9

(* The client a user creates has that user as its one member. *)
LEMMA FirstMember ==
  ASSUME NEW u \in UserIds
  PROVE  /\ AddMember(NewClient(u), u) \in Client /\ AddMember(NewClient(u), u).MemberIDs = {u}
         /\ MaxMembers >= Cardinality({u})
<1>1. NewClient(u) \in Client /\ NewClient(u).MemberIDs = {}
  BY DEF NewClient, Client
<1>2. AddMember(NewClient(u), u) \in Client /\ AddMember(NewClient(u), u).MemberIDs = {u}
  BY <1>1, AddMemberType
<1>3. Cardinality({u}) = 1
  BY FS_Singleton
<1> QED BY <1>2, <1>3 DEF TenancyAssumption

\* POST /clients: client, default campaign and current client at once.
LEMMA CreateClientStep ==
  ASSUME TypeOK, TenancyInv, NEW q \in Slots, CreateClient(q)
  PROVE  TypeOK' /\ TenancyInv'
<1> DEFINE u == req[q].user
           c == minted.client + 1
           cl == AddMember(NewClient(u), u)
           row == SetCurrentClient(req[q].row, c)
           d1 == ClientSave(db, c, cl)
           d2 == NewDefaultCampaign(d1, c)
           new == UserUpdate(d2, u, row)
           events == {Note("client.created", u, c), Note("client.member_added", u, c),
                      Note("user.current_client_changed", u, c)}
<1>1. /\ req[q].op = "create" /\ c \in ClientIds /\ WithTransaction(q, new, events)
      /\ minted' = IF Constraints(new) THEN [minted EXCEPT !.client = c] ELSE minted
  BY DEF CreateClient
<1>2. req[q].op \in UserSavers /\ req[q].op \in OpKinds
  BY <1>1 DEF UserSavers, OpKinds
<1>3. /\ u \in UserIds /\ u \in 1..minted.user /\ req[q].row \in User
      /\ NoDeletion => u \in DOMAIN db.users
  BY <1>2, UserSaver
<1>4. row \in User /\ row.CurrentClientID = c
  BY <1>1, <1>3 DEF SetCurrentClient, User
<1>5. cl \in Client /\ cl.MemberIDs = {u} /\ MaxMembers >= Cardinality(cl.MemberIDs)
  BY <1>3, FirstMember
<1>6. events \in SUBSET Event
  <2>1. /\ Note("client.created", u, c) \in Event /\ Note("client.member_added", u, c) \in Event
        /\ Note("user.current_client_changed", u, c) \in Event
    BY <1>1, <1>3, NoteType DEF ClientEvents, UserEvents
  <2> QED BY <2>1
<1>7. /\ c \notin DOMAIN db.clients /\ c \notin 0..minted.client
      /\ 1..minted.client \cup {c} \subseteq 1..c /\ minted.client <= c
  BY Before
<1> HIDE DEF cl, row, events
<1>8. d1 \in Database /\ Holds(d1, db.users, Upsert(db.clients, c, cl), db.workspaces, db.defaults, db.invoiced)
  BY <1>1, <1>5, Before, ClientSaveEffect
<1> HIDE DEF d1
<1>9. d2 \in Database /\ Holds(d2, d1.users, d1.clients, d1.workspaces, d1.defaults \cup {c}, d1.invoiced)
  BY <1>1, <1>8, NewDefaultCampaignEffect
<1> HIDE DEF d2
<1>10. new \in Database /\ Holds(new, Upsert(d2.users, u, row), d2.clients, d2.workspaces, d2.defaults, d2.invoiced)
  BY <1>3, <1>4, <1>9, UserSaveEffect
<1> HIDE DEF new
<1>11. Holds(new, Upsert(db.users, u, row), Upsert(db.clients, c, cl), db.workspaces, db.defaults \cup {c}, db.invoiced)
  BY <1>8, <1>9, <1>10 DEF Holds
<1>12. /\ new.workspaces = db.workspaces /\ new.defaults = db.defaults \cup {c}
       /\ DOMAIN new.users = DOMAIN db.users \cup {u}
       /\ new.users[u] = row /\ \A x \in DOMAIN db.users \ {u} : new.users[x] = db.users[x]
       /\ DOMAIN new.clients = DOMAIN db.clients \cup {c}
       /\ new.clients[c] = cl /\ \A x \in DOMAIN db.clients \ {c} : new.clients[x] = db.clients[x]
  BY <1>11 DEF Holds, Upsert
<1>13. CASE Constraints(new)
  <2>0. minted' = [minted EXCEPT !.client = c]
    BY <1>1, <1>13
  <2>1. minted' \in [user : 0..MaxUsers, client : 0..MaxClients] /\ minted'.user = minted.user /\ minted'.client = c
    BY <1>1, <2>0, Before DEF ClientIds
  <2>2. NoDeletion => /\ DOMAIN new.users = new.workspaces /\ DOMAIN new.clients = new.defaults
                      /\ DOMAIN db.users \subseteq DOMAIN new.users /\ DOMAIN db.clients \subseteq DOMAIN new.clients
    BY <1>3, <1>12, Before
  <2>3. NoListSave => \A x \in DOMAIN new.clients : MaxMembers >= Cardinality(new.clients[x].MemberIDs)
    BY <1>5, <1>12, Before
  <2>4. \A x \in 0..minted.client : x \in DOMAIN new.clients => x \in DOMAIN db.clients /\ new.clients[x] = db.clients[x]
    BY <1>7, <1>12
  <2>5. NoMove => \A v \in DOMAIN new.users :
          new.users[v].CurrentClientID # Nil => v \in new.clients[new.users[v].CurrentClientID].MemberIDs
    <3> SUFFICES ASSUME NoMove, NEW v \in DOMAIN new.users, new.users[v].CurrentClientID # Nil
                 PROVE  v \in new.clients[new.users[v].CurrentClientID].MemberIDs
      OBVIOUS
    <3>1. CASE v = u
      BY <1>4, <1>5, <1>12, <3>1
    <3>2. CASE v # u
      <4>1. v \in DOMAIN db.users /\ new.users[v] = db.users[v]
        BY <1>12, <3>2
      <4>2. db.users[v].CurrentClientID \in DOMAIN db.clients /\ v \in db.clients[db.users[v].CurrentClientID].MemberIDs
        BY <4>1, Before
      <4> QED BY <1>7, <1>12, <4>1, <4>2
    <3> QED BY <3>1, <3>2
  <2>6. DOMAIN new.users \subseteq 1..minted'.user /\ DOMAIN new.clients \subseteq 1..minted'.client
    BY <1>3, <1>7, <1>12, <2>1, Before
  <2>7. minted.user <= minted'.user /\ minted.client <= minted'.client
    BY <1>7, <2>1, Before
  <2> QED BY <1>1, <1>2, <1>6, <1>10, <1>13, <2>1, <2>2, <2>3, <2>4, <2>5, <2>6, <2>7, CommitStep
<1>14. CASE ~Constraints(new)
  BY <1>1, <1>14, RefusedStep
<1> QED BY <1>13, <1>14

\* The first sign-in: user, workspace, client and campaign at once.
LEMMA CreateUserStep ==
  ASSUME TypeOK, TenancyInv, NEW q \in Slots, CreateUser(q)
  PROVE  TypeOK' /\ TenancyInv'
<1> DEFINE u == minted.user + 1
           c == minted.client + 1
           cl == AddMember(NewClient(u), u)
           row == NewUser(req[q].clerk, req[q].banned)
           d1 == UserSave(db, u, row)
           d2 == NewWorkspace(d1, u)
           d3 == ClientSave(d2, c, cl)
           d4 == NewDefaultCampaign(d3, c)
           new == UserUpdate(d4, u, SetCurrentClient(d4.users[u], c))
           events == {Note("user.created", u, Nil), Note("client.created", u, c),
                      Note("client.member_added", u, c), Note("user.current_client_changed", u, c)}
<1>1. /\ req[q].op = "signup" /\ u \in UserIds /\ c \in ClientIds /\ WithTransaction(q, new, events)
      /\ minted' = IF Constraints(new) THEN [user |-> u, client |-> c] ELSE minted
  BY DEF CreateUser
<1>2. req[q].op \in OpKinds
  BY <1>1 DEF OpKinds
<1>3. row \in User
  <2>1. req[q].clerk \in Clerks /\ req[q].banned \in BOOLEAN
    BY <1>1 DEF TypeOK, Request, Complete
  <2> QED BY <2>1 DEF NewUser, User
<1>4. SetCurrentClient(row, c) \in User /\ SetCurrentClient(row, c).CurrentClientID = c
  BY <1>1, <1>3 DEF SetCurrentClient, User
<1>5. cl \in Client /\ cl.MemberIDs = {u} /\ MaxMembers >= Cardinality(cl.MemberIDs)
  BY <1>1, FirstMember
<1>6. events \in SUBSET Event
  <2>1. /\ Note("user.created", u, Nil) \in Event /\ Note("client.created", u, c) \in Event
        /\ Note("client.member_added", u, c) \in Event /\ Note("user.current_client_changed", u, c) \in Event
    BY <1>1, NoteType DEF ClientEvents, UserEvents
  <2> QED BY <2>1
<1>7. /\ c \notin DOMAIN db.clients /\ c \notin 0..minted.client
      /\ 1..minted.client \cup {c} \subseteq 1..c /\ minted.client <= c
      /\ u \notin DOMAIN db.users /\ 1..minted.user \cup {u} \subseteq 1..u /\ minted.user <= u
  BY Before
<1> HIDE DEF cl, row, events
<1>8. d1 \in Database /\ Holds(d1, Upsert(db.users, u, row), db.clients, db.workspaces, db.defaults, db.invoiced)
  BY <1>1, <1>3, Before, UserSaveEffect
<1> HIDE DEF d1
<1>9. d2 \in Database /\ Holds(d2, d1.users, d1.clients, d1.workspaces \cup {u}, d1.defaults, d1.invoiced)
  BY <1>1, <1>8, NewWorkspaceEffect
<1> HIDE DEF d2
<1>10. d3 \in Database /\ Holds(d3, d2.users, Upsert(d2.clients, c, cl), d2.workspaces, d2.defaults, d2.invoiced)
  BY <1>1, <1>5, <1>9, ClientSaveEffect
<1> HIDE DEF d3
<1>11. d4 \in Database /\ Holds(d4, d3.users, d3.clients, d3.workspaces, d3.defaults \cup {c}, d3.invoiced)
  BY <1>1, <1>10, NewDefaultCampaignEffect
<1> HIDE DEF d4
<1>12. Holds(d4, Upsert(db.users, u, row), Upsert(db.clients, c, cl), db.workspaces \cup {u}, db.defaults \cup {c}, db.invoiced)
  BY <1>8, <1>9, <1>10, <1>11 DEF Holds
<1>13. d4.users[u] = row
  BY <1>12 DEF Holds, Upsert
<1>14. new = UserUpdate(d4, u, SetCurrentClient(row, c))
  BY <1>13
<1> HIDE DEF new
<1>15. /\ new \in Database
       /\ Holds(new, Upsert(d4.users, u, SetCurrentClient(row, c)), d4.clients, d4.workspaces, d4.defaults, d4.invoiced)
  BY <1>1, <1>4, <1>11, <1>14, UserSaveEffect
<1>16. /\ new.workspaces = db.workspaces \cup {u} /\ new.defaults = db.defaults \cup {c}
       /\ new.clients = Upsert(db.clients, c, cl)
       /\ new.users = Upsert(Upsert(db.users, u, row), u, SetCurrentClient(row, c))
  BY <1>12, <1>15 DEF Holds
<1>17. /\ DOMAIN new.users = DOMAIN db.users \cup {u}
       /\ new.users[u] = SetCurrentClient(row, c) /\ \A x \in DOMAIN db.users : new.users[x] = db.users[x]
  <2>1. /\ DOMAIN Upsert(db.users, u, row) = DOMAIN db.users \cup {u}
        /\ \A x \in DOMAIN db.users : Upsert(db.users, u, row)[x] = db.users[x]
    BY <1>7 DEF Upsert
  <2> DEFINE t == Upsert(db.users, u, row)
  <2> HIDE DEF t
  <2>2. /\ DOMAIN Upsert(t, u, SetCurrentClient(row, c)) = DOMAIN t \cup {u}
        /\ Upsert(t, u, SetCurrentClient(row, c))[u] = SetCurrentClient(row, c)
        /\ \A x \in DOMAIN t \ {u} : Upsert(t, u, SetCurrentClient(row, c))[x] = t[x]
    BY DEF Upsert
  <2> QED BY <1>7, <1>16, <2>1, <2>2 DEF t
<1>18. /\ DOMAIN new.clients = DOMAIN db.clients \cup {c}
       /\ new.clients[c] = cl /\ \A x \in DOMAIN db.clients : new.clients[x] = db.clients[x]
  BY <1>7, <1>16 DEF Upsert
<1>19. CASE Constraints(new)
  <2>0. minted' = [user |-> u, client |-> c]
    BY <1>1, <1>19
  <2>1. minted' \in [user : 0..MaxUsers, client : 0..MaxClients] /\ minted'.user = u /\ minted'.client = c
    BY <1>1, <2>0, Before DEF ClientIds, UserIds
  <2>2. NoDeletion => /\ DOMAIN new.users = new.workspaces /\ DOMAIN new.clients = new.defaults
                      /\ DOMAIN db.users \subseteq DOMAIN new.users /\ DOMAIN db.clients \subseteq DOMAIN new.clients
    BY <1>16, <1>17, <1>18, Before
  <2>3. NoListSave => \A x \in DOMAIN new.clients : MaxMembers >= Cardinality(new.clients[x].MemberIDs)
    BY <1>5, <1>18, Before
  <2>4. \A x \in 0..minted.client : x \in DOMAIN new.clients => x \in DOMAIN db.clients /\ new.clients[x] = db.clients[x]
    BY <1>7, <1>18
  <2>5. NoMove => \A v \in DOMAIN new.users :
          new.users[v].CurrentClientID # Nil => v \in new.clients[new.users[v].CurrentClientID].MemberIDs
    <3> SUFFICES ASSUME NoMove, NEW v \in DOMAIN new.users, new.users[v].CurrentClientID # Nil
                 PROVE  v \in new.clients[new.users[v].CurrentClientID].MemberIDs
      OBVIOUS
    <3>1. CASE v = u
      BY <1>4, <1>5, <1>17, <1>18, <3>1
    <3>2. CASE v # u
      <4>1. v \in DOMAIN db.users /\ new.users[v] = db.users[v]
        BY <1>17, <3>2
      <4>2. db.users[v].CurrentClientID \in DOMAIN db.clients /\ v \in db.clients[db.users[v].CurrentClientID].MemberIDs
        BY <4>1, Before
      <4> QED BY <1>18, <4>1, <4>2
    <3> QED BY <3>1, <3>2
  <2>6. DOMAIN new.users \subseteq 1..minted'.user /\ DOMAIN new.clients \subseteq 1..minted'.client
    BY <1>7, <1>17, <1>18, <2>1, Before
  <2>7. minted.user <= minted'.user /\ minted.client <= minted'.client
    BY <1>7, <2>1
  <2>8. /\ \A v \in DOMAIN db.users : v \in DOMAIN new.users /\ new.users[v].CurrentClientID = db.users[v].CurrentClientID
        /\ \A x \in DOMAIN db.clients : x \in DOMAIN new.clients /\ new.clients[x] = db.clients[x]
    BY <1>17, <1>18
  <2> QED BY <1>1, <1>2, <1>6, <1>15, <1>19, <2>1, <2>2, <2>3, <2>4, <2>5, <2>6, <2>7, <2>8, CommitStep
<1>20. CASE ~Constraints(new)
  BY <1>1, <1>20, RefusedStep
<1> QED BY <1>19, <1>20

-----------------------------------------------------------------------------
(* Steps that save nothing *)
LEMMA CountStep ==
  ASSUME TypeOK, TenancyInv, NEW q \in Slots, AssertMemberCreate(q)
  PROVE  TypeOK' /\ TenancyInv'
<1> DEFINE fits == \E cl \in Lookup(db.clients, req[q].client) : MaxMembers > Cardinality(cl.MemberIDs)
           r == [req[q] EXCEPT !.counted = TRUE]
<1>1. /\ req[q].op = "add"
      /\ req' = [req EXCEPT ![q] = IF fits THEN r ELSE Idle]
  BY DEF AssertMemberCreate
<1>2. UNCHANGED <<db, outbox, clerk, hooks, minted, asked, news, overtaken>>
  BY DEF AssertMemberCreate
<1>3. req[q] \in Request /\ Complete(req[q])
  BY DEF TypeOK
<1>4. CASE ~fits
  <2>1. req' = [req EXCEPT ![q] = Idle]
    BY <1>1, <1>4
  <2> QED BY <1>2, <2>1, CloseStep
<1>5. CASE fits
  <2>1. /\ r \in Request /\ r.op = "add" /\ r.user = req[q].user /\ r.client = req[q].client
        /\ r.loaded = req[q].loaded /\ r.row = req[q].row /\ r.clerk = req[q].clerk
    BY <1>1, <1>3 DEF Request
  <2>2. Complete(r)
    BY <1>1, <1>3, <2>1 DEF Complete
  <2>3. /\ req[q].client \in DOMAIN db.clients
        /\ MaxMembers > Cardinality(db.clients[req[q].client].MemberIDs)
    BY <1>5 DEF Lookup
  <2>4. req' = [req EXCEPT ![q] = r]
    BY <1>1, <1>5
  <2> HIDE DEF r, fits
  <2>5. req' \in [Slots -> Request] /\ req'[q] = r /\ \A p \in Slots \ {q} : req'[p] = req[p]
    BY <2>1, <2>4 DEF TypeOK
  <2>6. TypeOK'
    BY <1>2, <2>2, <2>5 DEF TypeOK
  <2>7. Constraints(db)' /\ Minted'
    BY <1>2, <2>1, <2>5 DEF TenancyInv, Minted, Constraints, UniqueClerk
  <2>8. Anchored'
    BY <1>1, <1>2, <2>1, <2>5 DEF TenancyInv, Anchored
  <2>9. Seated'
    <3>1. NoListSave => /\ db.clients[req[q].client] = req[q].loaded
                        /\ MaxMembers >= Cardinality(req[q].loaded.MemberIDs)
      BY <1>1, <2>3 DEF TenancyInv, Seated, NoListSave, MemberSavers
    <3>2. NoListSave => MaxMembers > Cardinality(r.loaded.MemberIDs)
      BY <2>1, <2>3, <3>1
    <3> QED BY <1>1, <1>2, <2>1, <2>5, <3>1, <3>2 DEF TenancyInv, Seated, NoListSave
  <2>10. Placed'
    BY <1>1, <1>2, <2>1, <2>5 DEF TenancyInv, Placed
  <2> QED BY <2>6, <2>7, <2>8, <2>9, <2>10 DEF TenancyInv
<1> QED BY <1>4, <1>5

(* What a request for a change of an account starts from. *)
LEMMA SignupOpens ==
  ASSUME TypeOK, TenancyInv, NEW q \in Slots, NEW k \in Clerks, NEW b \in BOOLEAN,
         Begin(q, [Idle EXCEPT !.op = "signup", !.clerk = k, !.banned = b]),
         UNCHANGED <<db, outbox, clerk, hooks, minted, asked, news, overtaken>>
  PROVE  TypeOK' /\ TenancyInv'
<1> DEFINE r == [Idle EXCEPT !.op = "signup", !.clerk = k, !.banned = b]
<1>1. r \in Request /\ r.op = "signup" /\ r.clerk = k /\ r.user = Nil /\ r.client = Nil /\ r.counted = FALSE
  BY DEF Idle, Request, OpKinds, NoUser, NoClient
<1>2. req' = [req EXCEPT ![q] = r]
  BY DEF Begin
<1> HIDE DEF r
<1>3. Complete(r)
  BY <1>1 DEF Complete
<1>4. r.user <= minted.user /\ r.client <= minted.client
  BY <1>1, Before DEF Nil
<1>5. r.op \notin UserSavers /\ r.op \notin MemberSavers \cup {"switch"} /\ r.op # "switch"
  BY <1>1 DEF UserSavers, MemberSavers
<1>6. /\ clerk' \in [Clerks -> [live : BOOLEAN, banned : BOOLEAN]] /\ hooks' \subseteq Webhook
      /\ asked' \in 0..MaxRequests /\ news' \in 0..MaxNews
  BY DEF TypeOK
<1> QED BY <1>1, <1>2, <1>3, <1>4, <1>5, <1>6, OpenStep

\* A first sign-in starts with a read of the identity provider.
LEMMA ProvisionStep ==
  ASSUME TypeOK, TenancyInv, NEW q \in Slots, NEW k \in Clerks, Provision(q, k)
  PROVE  TypeOK' /\ TenancyInv'
<1>1. PICK a \in FetchUser(k) : Begin(q, [Idle EXCEPT !.op = "signup", !.clerk = k, !.banned = a.banned])
  BY DEF Provision
<1>2. UNCHANGED <<db, outbox, clerk, hooks, minted, asked, news, overtaken>>
  BY DEF Provision
<1>3. a.banned \in BOOLEAN
  BY DEF FetchUser, TypeOK
<1> QED BY <1>1, <1>2, <1>3, SignupOpens

(* The rows a request loads are rows of the tables. *)
LEMMA LoadedRows ==
  ASSUME TypeOK, TenancyInv
  PROVE  /\ \A u \in DOMAIN db.users : u \in UserIds /\ u \in 1..minted.user /\ db.users[u] \in User
         /\ \A c \in DOMAIN db.clients : c \in ClientIds /\ c \in 1..minted.client /\ db.clients[c] \in Client
BY Before, DatabaseFacts

\* A webhook of the identity provider starts.
LEMMA WebhookStep ==
  ASSUME TypeOK, TenancyInv, NEW q \in Slots, NEW h \in hooks, Execute(q, h)
  PROVE  TypeOK' /\ TenancyInv'
<1>1. h.clerk \in Clerks /\ h.banned \in BOOLEAN
  BY DEF TypeOK, Webhook
<1>2. /\ clerk \in [Clerks -> [live : BOOLEAN, banned : BOOLEAN]] /\ hooks \subseteq Webhook
      /\ asked \in 0..MaxRequests /\ news \in 0..MaxNews
  BY DEF TypeOK
<1>3. CASE WebhookCreate(q, h)
  <2>1. Begin(q, [Idle EXCEPT !.op = "signup", !.clerk = h.clerk, !.banned = h.banned])
    BY <1>3 DEF WebhookCreate
  <2>2. UNCHANGED <<db, outbox, clerk, hooks, minted, asked, news, overtaken>>
    BY <1>3 DEF WebhookCreate
  <2> QED BY <1>1, <2>1, <2>2, SignupOpens
<1>4. CASE WebhookUpdate(q, h)
  <2>1. PICK u \in GetByClerkID(db, h.clerk) :
          Begin(q, [Idle EXCEPT !.op = "profile", !.user = u, !.row = db.users[u], !.banned = h.banned])
    BY <1>4 DEF WebhookUpdate
  <2>2. UNCHANGED <<db, outbox, clerk, hooks, minted, asked, news, overtaken>>
    BY <1>4 DEF WebhookUpdate
  <2> DEFINE r == [Idle EXCEPT !.op = "profile", !.user = u, !.row = db.users[u], !.banned = h.banned]
  <2>3. u \in DOMAIN db.users
    BY DEF GetByClerkID
  <2>4. u \in UserIds /\ u \in 1..minted.user /\ db.users[u] \in User
    BY <2>3, LoadedRows
  <2>5. r \in Request /\ r.op = "profile" /\ r.user = u /\ r.row = db.users[u] /\ r.client = Nil /\ r.counted = FALSE
    BY <1>1, <2>4 DEF Idle, Request, OpKinds, NoUser, NoClient
  <2>6. req' = [req EXCEPT ![q] = r]
    BY <2>1 DEF Begin
  <2> HIDE DEF r
  <2>7. Complete(r)
    BY <2>4, <2>5 DEF Complete
  <2>8. r.user <= minted.user /\ r.client <= minted.client
    BY <2>4, <2>5, Before DEF Nil
  <2>9. r.op \notin MemberSavers \cup {"switch"} /\ r.op # "switch"
    BY <2>5 DEF MemberSavers
  <2>10. r.user \in DOMAIN db.users /\ db.users[r.user].CurrentClientID = r.row.CurrentClientID
    BY <2>3, <2>5
  <2> QED BY <1>2, <2>2, <2>5, <2>6, <2>7, <2>8, <2>9, <2>10, OpenStep
<1>5. CASE WebhookDelete(q, h)
  <2>1. PICK u \in GetByClerkID(db, h.clerk) : Begin(q, [Idle EXCEPT !.op = "gone", !.user = u])
    BY <1>5 DEF WebhookDelete
  <2>2. UNCHANGED <<db, outbox, clerk, hooks, minted, asked, news, overtaken>>
    BY <1>5 DEF WebhookDelete
  <2> DEFINE r == [Idle EXCEPT !.op = "gone", !.user = u]
  <2>3. u \in DOMAIN db.users
    BY DEF GetByClerkID
  <2>4. u \in UserIds /\ u \in 1..minted.user
    BY <2>3, LoadedRows
  <2>5. r \in Request /\ r.op = "gone" /\ r.user = u /\ r.client = Nil /\ r.counted = FALSE
    BY <2>4 DEF Idle, Request, OpKinds, NoUser, NoClient
  <2>6. req' = [req EXCEPT ![q] = r]
    BY <2>1 DEF Begin
  <2> HIDE DEF r
  <2>7. Complete(r)
    BY <2>4, <2>5 DEF Complete
  <2>8. r.user <= minted.user /\ r.client <= minted.client
    BY <2>4, <2>5, Before DEF Nil
  <2>9. r.op \notin UserSavers /\ r.op \notin MemberSavers \cup {"switch"} /\ r.op # "switch"
    BY <2>5 DEF UserSavers, MemberSavers
  <2> QED BY <1>2, <2>2, <2>5, <2>6, <2>7, <2>8, <2>9, OpenStep
<1> QED BY <1>3, <1>4, <1>5 DEF Execute

(* An authenticated request opens with the rows it has read. *)
LEMMA AskStep ==
  ASSUME TypeOK, TenancyInv, NEW q \in Slots, NEW u, NEW r, Ask(q, u, r), r \in Request,
         Complete(r), r.user <= minted.user, r.client <= minted.client,
         r.op \in UserSavers => r.user \in DOMAIN db.users /\ db.users[r.user].CurrentClientID = r.row.CurrentClientID,
         r.op \in MemberSavers \cup {"switch"} => r.client \in DOMAIN db.clients /\ db.clients[r.client] = r.loaded,
         r.counted = FALSE,
         r.op = "switch" => r.user \in r.loaded.MemberIDs
  PROVE  TypeOK' /\ TenancyInv'
<1>1. req' = [req EXCEPT ![q] = r] /\ UNCHANGED <<db, outbox, minted, overtaken>>
  BY DEF Ask, Begin
<1>2. /\ clerk' \in [Clerks -> [live : BOOLEAN, banned : BOOLEAN]] /\ hooks' \subseteq Webhook /\ news' \in 0..MaxNews
  BY DEF TypeOK, Ask
<1>3. asked' \in 0..MaxRequests
  BY DEF TypeOK, Ask, TenancyAssumption
<1> QED BY <1>1, <1>2, <1>3, OpenStep

\* POST /clients starts.
LEMMA CreateOpens ==
  ASSUME TypeOK, TenancyInv, NEW q \in Slots, NEW u \in DOMAIN db.users, Create(q, u)
  PROVE  TypeOK' /\ TenancyInv'
<1> DEFINE r == [Idle EXCEPT !.op = "create", !.user = u, !.row = db.users[u]]
<1>1. u \in UserIds /\ u \in 1..minted.user /\ db.users[u] \in User
  BY LoadedRows
<1>2. r \in Request /\ r.op = "create" /\ r.user = u /\ r.row = db.users[u] /\ r.client = Nil /\ r.counted = FALSE
  BY <1>1 DEF Idle, Request, OpKinds, NoUser, NoClient
<1>3. Ask(q, u, r)
  BY DEF Create
<1> HIDE DEF r
<1>4. Complete(r) /\ r.user <= minted.user /\ r.client <= minted.client
  BY <1>1, <1>2, Before DEF Complete, Nil
<1>5. r.op \notin MemberSavers \cup {"switch"} /\ r.op # "switch"
  BY <1>2 DEF MemberSavers
<1>6. r.user \in DOMAIN db.users /\ db.users[r.user].CurrentClientID = r.row.CurrentClientID
  BY <1>2
<1> QED BY <1>2, <1>3, <1>4, <1>5, <1>6, AskStep

\* Switching the current client starts.
LEMMA SwitchOpens ==
  ASSUME TypeOK, TenancyInv, NEW q \in Slots, NEW u \in DOMAIN db.users, NEW c \in DOMAIN db.clients, Switch(q, u, c)
  PROVE  TypeOK' /\ TenancyInv'
<1> DEFINE r == [Idle EXCEPT !.op = "switch", !.client = c, !.loaded = db.clients[c],
                             !.user = u, !.row = db.users[u]]
<1>1. /\ u \in UserIds /\ u \in 1..minted.user /\ db.users[u] \in User
      /\ c \in ClientIds /\ c \in 1..minted.client /\ db.clients[c] \in Client
  BY LoadedRows
<1>2. /\ r \in Request /\ r.op = "switch" /\ r.user = u /\ r.row = db.users[u]
      /\ r.client = c /\ r.loaded = db.clients[c] /\ r.counted = FALSE
  BY <1>1 DEF Idle, Request, OpKinds, NoUser, NoClient
<1>3. Ask(q, u, r)
  BY DEF Switch
<1>4. u \in db.clients[c].MemberIDs
  BY DEF Switch
<1> HIDE DEF r
<1>5. Complete(r) /\ r.user <= minted.user /\ r.client <= minted.client
  BY <1>1, <1>2, Before DEF Complete
<1>6. /\ r.user \in DOMAIN db.users /\ db.users[r.user].CurrentClientID = r.row.CurrentClientID
      /\ r.client \in DOMAIN db.clients /\ db.clients[r.client] = r.loaded /\ r.user \in r.loaded.MemberIDs
  BY <1>2, <1>4
<1> QED BY <1>2, <1>3, <1>5, <1>6, AskStep

(* A change of a client, its members or its name, starts from its row. *)
LEMMA ClientOpens ==
  ASSUME TypeOK, TenancyInv, NEW q \in Slots, NEW u \in DOMAIN db.users, NEW c \in DOMAIN db.clients,
         Update(q, u, c) \/ Delete(q, u, c)
  PROVE  TypeOK' /\ TenancyInv'
<1> SUFFICES ASSUME NEW op \in {"rename", "drop"},
                    Ask(q, u, [Idle EXCEPT !.op = op, !.client = c, !.loaded = db.clients[c]])
             PROVE  TypeOK' /\ TenancyInv'
  BY DEF Update, Delete
<1> DEFINE r == [Idle EXCEPT !.op = op, !.client = c, !.loaded = db.clients[c]]
<1>1. c \in ClientIds /\ c \in 1..minted.client /\ db.clients[c] \in Client
  BY LoadedRows
<1>2. /\ r \in Request /\ r.op = op /\ r.user = Nil /\ r.client = c /\ r.loaded = db.clients[c] /\ r.counted = FALSE
  BY <1>1 DEF Idle, Request, OpKinds, NoUser, NoClient
<1>3. Ask(q, u, r)
  OBVIOUS
<1> HIDE DEF r
<1>4. Complete(r) /\ r.user <= minted.user /\ r.client <= minted.client
  BY <1>1, <1>2, Before DEF Complete, Nil
<1>5. r.op \notin UserSavers /\ r.op # "switch"
  BY <1>2 DEF UserSavers
<1>6. r.client \in DOMAIN db.clients /\ db.clients[r.client] = r.loaded
  BY <1>2
<1> QED BY <1>2, <1>3, <1>4, <1>5, <1>6, AskStep

\* A change of a member list starts.
LEMMA MemberOpens ==
  ASSUME TypeOK, TenancyInv, NEW q \in Slots, NEW u \in DOMAIN db.users, NEW c \in DOMAIN db.clients,
         NEW x \in DOMAIN db.users, Invite(q, u, c, x) \/ Remove(q, u, c, x)
  PROVE  TypeOK' /\ TenancyInv'
<1> SUFFICES ASSUME NEW op \in {"add", "remove"},
                    Ask(q, u, [Idle EXCEPT !.op = op, !.client = c, !.loaded = db.clients[c], !.user = x])
             PROVE  TypeOK' /\ TenancyInv'
  BY DEF Invite, Remove
<1> DEFINE r == [Idle EXCEPT !.op = op, !.client = c, !.loaded = db.clients[c], !.user = x]
<1>1. /\ x \in UserIds /\ x \in 1..minted.user
      /\ c \in ClientIds /\ c \in 1..minted.client /\ db.clients[c] \in Client
  BY LoadedRows
<1>2. /\ r \in Request /\ r.op = op /\ r.user = x /\ r.client = c /\ r.loaded = db.clients[c] /\ r.counted = FALSE
  BY <1>1 DEF Idle, Request, OpKinds, NoUser, NoClient
<1>3. Ask(q, u, r)
  OBVIOUS
<1> HIDE DEF r
<1>4. Complete(r) /\ r.user <= minted.user /\ r.client <= minted.client
  BY <1>1, <1>2, Before DEF Complete
<1>5. r.op \notin UserSavers /\ r.op # "switch"
  BY <1>2 DEF UserSavers
<1>6. r.client \in DOMAIN db.clients /\ db.clients[r.client] = r.loaded
  BY <1>2
<1> QED BY <1>2, <1>3, <1>4, <1>5, <1>6, AskStep

(* Clerk touches none of the tables. *)
LEMMA ClerkStep ==
  ASSUME TypeOK, TenancyInv, NEW k \in Clerks, ClerkUpdates(k) \/ ClerkDeletes(k)
  PROVE  TypeOK' /\ TenancyInv'
<1>1. UNCHANGED <<db, outbox, req, minted, asked, overtaken>>
  BY DEF ClerkUpdates, ClerkDeletes
<1>2. clerk[k].banned \in BOOLEAN /\ clerk[k] \in [live : BOOLEAN, banned : BOOLEAN]
  BY DEF TypeOK
<1>3. news' \in 0..MaxNews
  BY DEF TypeOK, ClerkUpdates, ClerkDeletes, TenancyAssumption
<1>4. hooks' \subseteq Webhook
  <2>1. \A b \in BOOLEAN : /\ [type |-> "profile", clerk |-> k, banned |-> b] \in Webhook
                           /\ [type |-> "gone", clerk |-> k, banned |-> b] \in Webhook
    BY DEF Webhook
  <2>2. \E h \in Webhook : hooks' = hooks \cup {h}
    <3>1. CASE ClerkUpdates(k)
      <4>1. hooks' = hooks \cup {[type |-> "profile", clerk |-> k, banned |-> ~clerk[k].banned]}
        BY <3>1 DEF ClerkUpdates
      <4>2. (~clerk[k].banned) \in BOOLEAN
        OBVIOUS
      <4> QED BY <2>1, <4>1, <4>2
    <3>2. CASE ClerkDeletes(k)
      <4>1. hooks' = hooks \cup {[type |-> "gone", clerk |-> k, banned |-> FALSE]}
        BY <3>2 DEF ClerkDeletes
      <4> QED BY <2>1, <4>1
    <3> QED BY <3>1, <3>2
  <2>3. hooks \subseteq Webhook
    BY DEF TypeOK
  <2> QED BY <2>2, <2>3
<1>5. clerk' \in [Clerks -> [live : BOOLEAN, banned : BOOLEAN]]
  <2>1. \E a \in [live : BOOLEAN, banned : BOOLEAN] : clerk' = [clerk EXCEPT ![k] = a]
    <3>1. CASE ClerkUpdates(k)
      <4>1. [clerk[k] EXCEPT !.banned = ~clerk[k].banned] \in [live : BOOLEAN, banned : BOOLEAN]
        BY <1>2
      <4>2. clerk' = [clerk EXCEPT ![k] = [clerk[k] EXCEPT !.banned = ~clerk[k].banned]]
        BY <3>1 DEF ClerkUpdates
      <4> QED BY <4>1, <4>2
    <3>2. CASE ClerkDeletes(k)
      <4>1. [clerk[k] EXCEPT !.live = FALSE] \in [live : BOOLEAN, banned : BOOLEAN]
        BY <1>2
      <4>2. clerk' = [clerk EXCEPT ![k] = [clerk[k] EXCEPT !.live = FALSE]]
        BY <3>2 DEF ClerkDeletes
      <4> QED BY <4>1, <4>2
    <3> QED BY <3>1, <3>2
  <2> QED BY <2>1 DEF TypeOK
<1>6. TypeOK'
  BY <1>1, <1>3, <1>4, <1>5 DEF TypeOK
<1>7. TenancyInv'
  BY <1>1 DEF TenancyInv, Constraints, UniqueClerk, Minted, Anchored, Seated, Placed
<1> QED BY <1>6, <1>7

\* An invoice of a workspace is stored.
LEMMA InvoiceStep ==
  ASSUME TypeOK, TenancyInv, NEW w \in UserIds, InvoiceStored(w)
  PROVE  TypeOK' /\ TenancyInv'
<1>1. UNCHANGED <<outbox, req, clerk, hooks, minted, asked, overtaken>>
  BY DEF InvoiceStored
<1>2. news' \in 0..MaxNews
  BY DEF TypeOK, InvoiceStored, TenancyAssumption
<1>3. /\ db' \in Database /\ db'.users = db.users /\ db'.clients = db.clients /\ db'.workspaces = db.workspaces
      /\ db'.defaults = db.defaults /\ db'.invoiced = db.invoiced \cup {w}
  <2>1. db' = [db EXCEPT !.invoiced = db.invoiced \cup {w}]
    BY DEF InvoiceStored
  <2>2. db.invoiced \cup {w} \in SUBSET UserIds
    BY Before, DatabaseFacts
  <2> QED BY <2>1, <2>2, Before DEF Database
<1>4. w \in db.workspaces
  BY DEF InvoiceStored
<1>5. TypeOK'
  BY <1>1, <1>2, <1>3 DEF TypeOK
<1>6. Constraints(db)'
  BY <1>3, <1>4 DEF TenancyInv, Constraints, UniqueClerk
<1>7. Minted' /\ Anchored' /\ Seated' /\ Placed'
  BY <1>1, <1>3 DEF TenancyInv, Minted, Anchored, Seated, Placed
<1> QED BY <1>5, <1>6, <1>7 DEF TenancyInv

-----------------------------------------------------------------------------
(* The invariant holds at first and stays. *)
LEMMA InitInv ==
  ASSUME Init
  PROVE  TypeOK /\ TenancyInv
<1>1. \A x \in Slots : req[x] = Idle
  BY DEF Init
<1>2. db \in Database /\ DOMAIN db.users = {} /\ DOMAIN db.clients = {} /\ db.workspaces = {} /\ db.defaults = {} /\ db.invoiced = {}
  <2>1. /\ db.users = <<>> /\ db.clients = <<>> /\ db.workspaces = {} /\ db.defaults = {} /\ db.invoiced = {}
        /\ db = [users |-> <<>>, clients |-> <<>>, workspaces |-> {}, defaults |-> {}, invoiced |-> {}]
    BY DEF Init
  <2>2. DOMAIN <<>> = {}
    OBVIOUS
  <2>3. <<>> \in [{} -> User] /\ <<>> \in [{} -> Client]
    OBVIOUS
  <2>4. <<>> \in Tables(UserIds, User) /\ <<>> \in Tables(ClientIds, Client)
    BY <2>2, <2>3, TableFacts
  <2> QED BY <2>1, <2>2, <2>4 DEF Database
<1>3. TypeOK
  <2>1. req \in [Slots -> Request] /\ \A q \in Slots : Complete(req[q])
    BY <1>1, IdleFacts DEF Init
  <2>2. hooks \subseteq Webhook
    BY DEF Init, Webhook
  <2>3. /\ minted \in [user : 0..MaxUsers, client : 0..MaxClients] /\ asked \in 0..MaxRequests /\ news \in 0..MaxNews
        /\ outbox \subseteq Event /\ overtaken \subseteq OpKinds
    BY DEF Init, TenancyAssumption
  <2>4. clerk \in [Clerks -> [live : BOOLEAN, banned : BOOLEAN]]
    BY DEF Init
  <2> QED BY <1>2, <2>1, <2>2, <2>3, <2>4 DEF TypeOK
<1>4. Constraints(db)
  BY <1>2 DEF Constraints, UniqueClerk
<1>5. Minted
  <2>1. minted.user = 0 /\ minted.client = 0
    BY DEF Init
  <2> QED BY <1>1, <1>2, <2>1, IdleFacts DEF Minted, Nil
<1>6. Idle.op \notin UserSavers \cup MemberSavers \cup {"switch"}
  BY IdleFacts DEF UserSavers, MemberSavers
<1>7. Anchored /\ Seated /\ Placed
  BY <1>1, <1>2, <1>6 DEF Anchored, Seated, Placed
<1> QED BY <1>3, <1>4, <1>5, <1>7 DEF TenancyInv

\* Every step keeps the invariant.
LEMMA NextInv ==
  ASSUME TypeOK, TenancyInv, [Next]_vars
  PROVE  TypeOK' /\ TenancyInv'
<1>1. CASE UNCHANGED vars
  BY <1>1 DEF vars, TypeOK, TenancyInv, Constraints, UniqueClerk, Minted, Anchored, Seated, Placed
<1>2. CASE Next
  <2>1. ASSUME NEW q \in Slots, CreateUser(q) \/ UpdateUser(q) \/ DeleteUserByExternalID(q)
        PROVE  TypeOK' /\ TenancyInv'
    BY <2>1, CreateUserStep, UpdateUserStep, DeleteUserStep
  <2>2. ASSUME NEW q \in Slots, CreateClient(q) \/ UpdateClient(q) \/ DeleteClient(q)
        PROVE  TypeOK' /\ TenancyInv'
    BY <2>2, CreateClientStep, UpdateClientStep, DeleteClientStep
  <2>3. ASSUME NEW q \in Slots,
               AssertMemberCreate(q) \/ AddClientMember(q) \/ RemoveClientMember(q) \/ SwitchClient(q)
        PROVE  TypeOK' /\ TenancyInv'
    BY <2>3, CountStep, AddClientMemberStep, RemoveClientMemberStep, SwitchClientStep
  <2>4. ASSUME NEW q \in Slots, Rollback(q)
        PROVE  TypeOK' /\ TenancyInv'
    BY <2>4, CloseStep DEF Rollback
  <2>5. ASSUME NEW q \in Slots, NEW k \in Clerks, Provision(q, k)
        PROVE  TypeOK' /\ TenancyInv'
    BY <2>5, ProvisionStep
  <2>6. ASSUME NEW q \in Slots, NEW h \in hooks, Execute(q, h)
        PROVE  TypeOK' /\ TenancyInv'
    BY <2>6, WebhookStep
  <2>7. ASSUME NEW q \in Slots, NEW u \in DOMAIN db.users,
               \/ Create(q, u)
               \/ \E c \in DOMAIN db.clients :
                    \/ Update(q, u, c) \/ Delete(q, u, c) \/ Switch(q, u, c)
                    \/ \E x \in DOMAIN db.users : Invite(q, u, c, x) \/ Remove(q, u, c, x)
        PROVE  TypeOK' /\ TenancyInv'
    BY <2>7, CreateOpens, SwitchOpens, ClientOpens, MemberOpens
  <2>8. ASSUME NEW k \in Clerks, ClerkUpdates(k) \/ ClerkDeletes(k)
        PROVE  TypeOK' /\ TenancyInv'
    BY <2>8, ClerkStep
  <2>9. ASSUME NEW w \in UserIds, InvoiceStored(w)
        PROVE  TypeOK' /\ TenancyInv'
    BY <2>9, InvoiceStep
  <2> QED BY <1>2, <2>1, <2>2, <2>3, <2>4, <2>5, <2>6, <2>7, <2>8, <2>9 DEF Next
<1> QED BY <1>1, <1>2

(* The unique key on users.clerk_id leaves an account one row at most. *)
LEMMA InvAccounts ==
  ASSUME TypeOK, TenancyInv
  PROVE  AccountsComplete
<1>1. \A k \in Clerks : Cardinality(GetByClerkID(db, k)) < 2
  <2> SUFFICES ASSUME NEW k \in Clerks PROVE Cardinality(GetByClerkID(db, k)) < 2
    OBVIOUS
  <2>1. CASE GetByClerkID(db, k) = {}
    BY <2>1, FS_EmptySet
  <2>2. CASE \E u \in GetByClerkID(db, k) : TRUE
    <3>1. PICK u \in GetByClerkID(db, k) : TRUE
      BY <2>2
    <3>2. UniqueClerk(db)
      BY DEF TenancyInv, Constraints
    <3>3. \A v \in GetByClerkID(db, k) : v = u
      BY <3>2 DEF GetByClerkID, UniqueClerk
    <3>4. GetByClerkID(db, k) = {u}
      BY <3>3
    <3>5. Cardinality({u}) = 1
      BY FS_Singleton
    <3> QED BY <3>4, <3>5
  <2> QED BY <2>1, <2>2
<1> QED BY <1>1 DEF TenancyInv, Anchored, AccountsComplete

\* The invariant implies that the current client is listed.
LEMMA InvCurrent ==
  ASSUME TypeOK, TenancyInv
  PROVE  CurrentListedUnlessOvertaken
<1> SUFFICES ASSUME NoMove, NEW u \in DOMAIN db.users, db.users[u].CurrentClientID # Nil
             PROVE  \E item \in List(u) : item.isActive
  BY DEF CurrentListedUnlessOvertaken, CurrentListed, NoMove
<1> DEFINE c == db.users[u].CurrentClientID
<1>1. c \in FindPageByUserID(db, u)
  BY Before DEF FindPageByUserID
<1>2. [id |-> c, isActive |-> c = c] \in List(u)
  BY <1>1 DEF List, NewClientListResponse
<1> QED BY <1>2

\* The invariant implies that the seats are bounded.
LEMMA InvSeats ==
  ASSUME TypeOK, TenancyInv
  PROVE  SeatsBounded
BY DEF TenancyInv, Seated, SeatsBounded

(* Every row and every request in flight keeps its shape, for any number of *)
(* accounts, requests and slots, whatever saves overtake each other.        *)
THEOREM TenancyTypes == Spec => []TypeOK
<1>1. Init => TypeOK /\ TenancyInv
  BY InitInv
<1>2. (TypeOK /\ TenancyInv) /\ [Next]_vars => (TypeOK /\ TenancyInv)'
  BY NextInv
<1> QED BY <1>1, <1>2, PTL DEF Spec

(* CreateUser and CreateClient leave complete accounts and clients behind,  *)
(* unless a deletion overtakes a save that brings a row back.               *)
THEOREM AccountsStayComplete == Spec => []AccountsComplete
<1>1. Init => TypeOK /\ TenancyInv
  BY InitInv
<1>2. (TypeOK /\ TenancyInv) /\ [Next]_vars => (TypeOK /\ TenancyInv)'
  BY NextInv
<1>3. TypeOK /\ TenancyInv => AccountsComplete
  BY InvAccounts
<1> QED BY <1>1, <1>2, <1>3, PTL DEF Spec

(* The client a user works in is one GET /clients lists for that user, as   *)
(* long as no save of members or current clients was made from stale rows.  *)
THEOREM CurrentStaysListed == Spec => []CurrentListedUnlessOvertaken
<1>1. Init => TypeOK /\ TenancyInv
  BY InitInv
<1>2. (TypeOK /\ TenancyInv) /\ [Next]_vars => (TypeOK /\ TenancyInv)'
  BY NextInv
<1>3. TypeOK /\ TenancyInv => CurrentListedUnlessOvertaken
  BY InvCurrent
<1> QED BY <1>1, <1>2, <1>3, PTL DEF Spec

(* AssertMemberCreate keeps a client within the seats of its plan although  *)
(* it counts apart from the save, unless a save of a member list overtook.  *)
THEOREM SeatsStayBounded == Spec => []SeatsBounded
<1>1. Init => TypeOK /\ TenancyInv
  BY InitInv
<1>2. (TypeOK /\ TenancyInv) /\ [Next]_vars => (TypeOK /\ TenancyInv)'
  BY NextInv
<1>3. TypeOK /\ TenancyInv => SeatsBounded
  BY InvSeats
<1> QED BY <1>1, <1>2, <1>3, PTL DEF Spec
=============================================================================
