------------------------------ MODULE Accounts ------------------------------
(***************************************************************************)
(* Accounts, invites, and the API keys of a project (the code's Owner):    *)
(* routers/users.py, routers/owners.py, auth/manager.py and the services   *)
(* they call.  Every request is signed in by reading its account's row,    *)
(* looks at other rows, and commits.                                       *)
(***************************************************************************)
EXTENDS Sessions

CONSTANTS
  Account,         \* e-mail addresses
  DefaultAdmin,    \* DEFAULT_ADMIN_EMAIL
  Invite,          \* invite codes
  KeyLimits,       \* values of max_keys
  NewRoles,        \* roles of accounts that are added or registered
  Changes,         \* what PATCH may ask for: [field, value]
  RequireInvite    \* REQUIRE_INVITE

Roles == {"ADMIN", "MANAGER", "DEVELOPER", "VIEWER"}

\* UserUpdate, one field at a time.
AllChanges == {[field |-> "role", value |-> r] : r \in Roles} \cup
              {[field |-> f, value |-> b] : f \in {"super", "active"}, b \in BOOLEAN}

ASSUME AccountsAssumption ==
  /\ DefaultAdmin \in Account
  /\ KeyLimits \subseteq Nat \ {0}
  /\ NewRoles \subseteq Roles
  /\ Changes \subseteq AllChanges
  /\ RequireInvite \in BOOLEAN

VARIABLES
  users,           \* the accounts that exist: [role, super, active]
  project,         \* the Owner row, or NoProject: [holder, max]
  keys,            \* its active keys
  invites,         \* the codes that exist, and whether each is used
  cap, crowd,      \* history: the highest max_keys; the most checked creations at once
  uses, guests,    \* history: registrations per code; the most at once
  lost,            \* history: registrations that were cut off
  deletions        \* history: accounts deleted

accountVars == <<users, project, keys, invites, cap, crowd, uses, guests, lost, deletions>>
userTables == <<users, deletions>>
projectTables == <<project, keys, cap, crowd>>
inviteTables == <<invites, uses, guests, lost>>

Accounts == [role : Roles, super : BOOLEAN, active : BOOLEAN]
Projects == [holder : Account, max : KeyLimits]
NoProject == [holder |-> "nobody", max |-> 0]
MostOf(a, b) == IF a > b THEN a ELSE b

Admin(u) == u.super \/ u.role = "ADMIN"
Manager(u) == u.super \/ u.role \in {"ADMIN", "MANAGER"}
Writer(u) == u.super \/ u.role # "VIEWER"

\* current_active_user and the role the route requires.
SignIn(s, by, Allowed(_), request) ==
  /\ by \in DOMAIN users
  /\ users[by].active
  /\ Allowed(users[by])
  /\ Accept(s, request)

-----------------------------------------------------------------------------
(* Projects and their keys.                                                *)

\* Managers act on every project, the others on their own.
MayActOn(request) == Manager(request.as) \/ project.holder = request.by

AskKey(s, by) ==
  /\ SignIn(s, by, Writer, [op |-> "key", at |-> "signed in", by |-> by, as |-> users[by]])
  /\ UNCHANGED accountVars

\* The limit is checked only if the project exists.
RoomForKey == project = NoProject \/ keys < project.max

CheckKey(s) ==
  /\ hand[s].op = "key" /\ hand[s].at = "signed in"
  /\ IF MayActOn(hand[s]) /\ RoomForKey THEN Stage(s, "checked") ELSE Finish(s)
  /\ crowd' = MostOf(crowd, Cardinality({q \in Session : hand'[q].op = "key" /\ hand'[q].at = "checked"}))
  /\ UNCHANGED <<userTables, project, keys, cap, inviteTables>>

\* The foreign key fails the commit of a key whose project is gone.
CommitKey(s) ==
  /\ hand[s].op = "key" /\ hand[s].at = "checked"
  /\ keys' = IF project = NoProject THEN keys ELSE keys + 1
  /\ Finish(s)
  /\ UNCHANGED <<userTables, project, cap, crowd, inviteTables>>

RevokeKey ==
  /\ keys > 0
  /\ keys' = keys - 1
  /\ UNCHANGED <<sessionVars, userTables, project, cap, crowd, inviteTables>>

AskProject(s, by, op, holder, max) ==
  /\ SignIn(s, by, Writer, [op |-> op, at |-> "signed in", by |-> by, as |-> users[by],
                            holder |-> IF Manager(users[by]) THEN holder ELSE by, max |-> max])
  /\ UNCHANGED accountVars

\* create_owner refuses an id that exists; the others one that does not, or
\* that is somebody else's.
CheckProject(s) ==
  /\ hand[s].op \in {"create", "update", "delete"} /\ hand[s].at = "signed in"
  /\ IF (hand[s].op = "create") = (project = NoProject) /\ (hand[s].op = "create" \/ MayActOn(hand[s]))
       THEN Proceed(s, [op |-> hand[s].op, at |-> "checked", holder |-> hand[s].holder, max |-> hand[s].max,
                        seen |-> project.max])
       ELSE Finish(s)
  /\ UNCHANGED accountVars

Limit(max) == project' = [project EXCEPT !.max = max] /\ cap' = MostOf(cap, max)

CommitProject(s) ==
  /\ hand[s].at = "checked"
  /\ \/ /\ hand[s].op = "create"
        /\ project' = IF project = NoProject THEN [holder |-> hand[s].holder, max |-> hand[s].max] ELSE project
        /\ cap' = IF project = NoProject THEN MostOf(cap, hand[s].max) ELSE cap
        /\ UNCHANGED keys
     \/ /\ hand[s].op = "update"
        /\ IF project = NoProject THEN UNCHANGED <<project, cap>>
           ELSE Limit(Column(project.max, hand[s].seen, hand[s].max))
        /\ UNCHANGED keys
     \/ /\ hand[s].op = "delete"      \* cascades to the keys
        /\ project' = NoProject
        /\ keys' = 0
        /\ UNCHANGED cap
  /\ Finish(s)
  /\ UNCHANGED <<userTables, crowd, inviteTables>>

-----------------------------------------------------------------------------
(* Accounts.                                                               *)

Change(u, c) == [u EXCEPT ![c.field] = c.value]

\* Bug: managers may edit admins.
AllowedAnyTarget(actor, own, target, c) ==
  /\ ~own
  /\ Admin(actor) \/ (c.field # "super" /\ (c.field = "role" => c.value \in {"DEVELOPER", "VIEWER"}))

\* _check_user_update_allowed
UpdateAllowed(actor, own, target, c) ==
  /\ ~own
  /\ \/ Admin(actor)
     \/ /\ c.field # "super"
        /\ ~Admin(target) /\ target.role # "MANAGER"
        /\ c.field = "role" => c.value \in {"DEVELOPER", "VIEWER"}

AskUpdate(s, by, target, c) ==
  /\ SignIn(s, by, Manager, [op |-> "patch", at |-> "signed in", by |-> by, as |-> users[by], target |-> target, change |-> c])
  /\ UNCHANGED accountVars

CheckUpdate(s) ==
  /\ hand[s].op = "patch" /\ hand[s].at = "signed in"
  /\ LET t == hand[s].target
     IN  IF t \in DOMAIN users /\ UpdateAllowed(hand[s].as, t = hand[s].by, users[t], hand[s].change)
           THEN Proceed(s, [op |-> "patch", at |-> "allowed", as |-> hand[s].as, by |-> hand[s].by,
                            target |-> t, change |-> hand[s].change, seen |-> users[t]])
           ELSE Finish(s)
  /\ UNCHANGED accountVars

Written(row, seen, c) == IF seen[c.field] = c.value THEN row ELSE Change(row, c)

CommitUpdate(s) ==
  /\ hand[s].op = "patch" /\ hand[s].at = "allowed"
  /\ LET t == hand[s].target
     IN  users' = IF t \in DOMAIN users
                    THEN [users EXCEPT ![t] = Written(@, hand[s].seen, hand[s].change)]
                    ELSE users
  /\ Finish(s)
  /\ UNCHANGED <<projectTables, inviteTables, deletions>>

Added(t, u) ==
  users' = IF t \in DOMAIN users THEN users
           ELSE [x \in DOMAIN users \cup {t} |-> IF x = t THEN u ELSE users[x]]

AskAdmin(s, by, op, target, u) ==
  /\ SignIn(s, by, Admin, [op |-> op, at |-> "signed in", by |-> by, as |-> users[by], target |-> target, row |-> u])
  /\ UNCHANGED accountVars

\* create_user_admin and delete_user; an admin may delete itself.
CommitAdmin(s) ==
  /\ hand[s].at = "signed in"
  /\ LET t == hand[s].target
     IN  \/ hand[s].op = "add" /\ Added(t, hand[s].row) /\ UNCHANGED deletions
         \/ /\ hand[s].op = "remove"
            /\ users' = [u \in DOMAIN users \ {t} |-> users[u]]
            /\ deletions' = deletions + 1
  /\ Finish(s)
  /\ UNCHANGED <<projectTables, inviteTables>>

\* create_default_admin, whenever a worker starts: an account that exists keeps
\* its role.
CreateDefaultAdmin ==
  /\ DefaultAdmin \notin DOMAIN users
  /\ Added(DefaultAdmin, [role |-> "ADMIN", super |-> TRUE, active |-> TRUE])
  /\ UNCHANGED <<sessionVars, projectTables, inviteTables, deletions>>

-----------------------------------------------------------------------------
(* Registration: UserManager.create.                                       *)

\* Bug: a code that is used is still taken.
OpenEvenUsed(code) == ~RequireInvite \/ code \in DOMAIN invites

InviteOpen(code) == ~RequireInvite \/ (code \in DOMAIN invites /\ ~invites[code])

Registering(h) == {s \in Session : h[s].op = "register"}

Register(s, t, role, code) ==
  /\ InviteOpen(code)
  /\ Accept(s, [op |-> "register", at |-> "checked", target |-> t, code |-> code,
                row |-> [role |-> role, super |-> FALSE, active |-> TRUE]])
  /\ guests' = MostOf(guests, Cardinality(Registering(hand')))
  /\ UNCHANGED <<userTables, projectTables, invites, uses, lost>>

\* The account is committed before the invite is marked.
CreateAccount(s) ==
  /\ hand[s].op = "register" /\ hand[s].at = "checked"
  /\ LET t == hand[s].target
         free == t \notin DOMAIN users
     IN  /\ Added(t, hand[s].row)
         /\ IF free THEN Stage(s, "created") ELSE Finish(s)
         /\ uses' = IF free THEN [uses EXCEPT ![hand[s].code] = @ + 1] ELSE uses
  /\ UNCHANGED <<deletions, projectTables, invites, guests, lost>>

MarkInvite(s) ==
  /\ hand[s].op = "register" /\ hand[s].at = "created"
  /\ LET c == hand[s].code
     IN  invites' = IF RequireInvite /\ c \in DOMAIN invites THEN [invites EXCEPT ![c] = TRUE] ELSE invites
  /\ Finish(s)
  /\ UNCHANGED <<userTables, projectTables, uses, guests, lost>>

\* A manager withdraws a code.
DeleteInvite(code) ==
  /\ code \in DOMAIN invites
  /\ invites' = [c \in DOMAIN invites \ {code} |-> invites[c]]
  /\ UNCHANGED <<sessionVars, userTables, projectTables, uses, guests, lost>>

\* The worker stops: what is not committed is gone.
Cut(s) ==
  /\ hand[s] # NoRequest
  /\ Finish(s)
  /\ lost' = IF hand[s].op = "register" THEN lost + 1 ELSE lost
  /\ UNCHANGED <<userTables, projectTables, invites, uses, guests>>

-----------------------------------------------------------------------------
AccountsInit(start, projects) ==
  /\ users = start
  /\ project \in projects
  /\ keys = 0
  /\ invites = [c \in Invite |-> FALSE]
  /\ cap = project.max
  /\ crowd = 0
  /\ uses = [c \in Invite |-> 0]
  /\ guests = 0
  /\ lost = 0
  /\ deletions = 0

PeopleNext ==
  \/ \E s \in Session, by, t \in Account, c \in Changes : AskUpdate(s, by, t, c)
  \/ \E s \in Session, by, t \in Account, op \in {"add", "remove"}, r \in NewRoles :
       AskAdmin(s, by, op, t, [role |-> r, super |-> FALSE, active |-> TRUE])
  \/ \E s \in Session, t \in Account, r \in NewRoles, c \in Invite : Register(s, t, r, c)
  \/ \E s \in Session :
       \/ CheckUpdate(s) \/ CommitUpdate(s) \/ CommitAdmin(s)
       \/ CreateAccount(s) \/ MarkInvite(s) \/ Cut(s)
  \/ \E c \in Invite : DeleteInvite(c)
  \/ CreateDefaultAdmin

ProjectNext ==
  \/ \E s \in Session, by \in Account :
       \/ AskKey(s, by)
       \/ \E op \in {"create", "update", "delete"}, h \in Account, m \in KeyLimits : AskProject(s, by, op, h, m)
  \/ \E s \in Session : CheckKey(s) \/ CommitKey(s) \/ CheckProject(s) \/ CommitProject(s)
  \/ RevokeKey

\* Some account can administer the gateway; a project may exist.
AccountsSpec ==
  /\ SessionsInit(0)
  /\ \E S \in SUBSET Account : \E start \in [S -> Accounts] :
       /\ \E u \in S : Admin(start[u]) /\ start[u].active
       /\ AccountsInit(start, {NoProject} \cup Projects)
  /\ [][PeopleNext \/ ProjectNext]_<<sessionVars, accountVars>>

-----------------------------------------------------------------------------
\* What a session can be at, and what it has read by then.
Asking == [op : {"key"}, at : {"signed in", "checked"}, by : Account, as : Accounts]
Managing == [op : {"create", "update", "delete"}, at : {"signed in"}, by : Account, as : Accounts,
             holder : Account, max : KeyLimits]
Managed == [op : {"create", "update", "delete"}, at : {"checked"}, holder : Account, max : KeyLimits, seen : Nat]
Patching == [op : {"patch"}, at : {"signed in"}, by : Account, as : Accounts, target : Account, change : Changes]
Patched == [op : {"patch"}, at : {"allowed"}, by : Account, as : Accounts, target : Account, change : Changes,
            seen : Accounts]
Administering == [op : {"add", "remove"}, at : {"signed in"}, by : Account, as : Accounts, target : Account,
                  row : Accounts]
Joining == [op : {"register"}, at : {"checked", "created"}, target : Account, code : Invite, row : Accounts]

Requests == {NoRequest} \cup Asking \cup Managing \cup Managed \cup Patching \cup Patched
              \cup Administering \cup Joining

AccountsTypeOK ==
  /\ hand \in [Session -> Requests]
  /\ requests \in Nat
  /\ overlapped \in BOOLEAN
  /\ DOMAIN users \subseteq Account
  /\ users \in [DOMAIN users -> Accounts]
  /\ project \in {NoProject} \cup Projects
  /\ DOMAIN invites \subseteq Invite
  /\ invites \in [DOMAIN invites -> BOOLEAN]
  /\ uses \in [Invite -> Nat]
  /\ {keys, cap, crowd, guests, lost, deletions} \subseteq Nat

-----------------------------------------------------------------------------
(* The active keys of a project exceed the highest max_keys it was given   *)
(* by at most the creations that were checked at the same time, less one   *)
(* (owners.py:51-67 counts, then awaits, then commits).                    *)
KeysWithinLimit ==
  project # NoProject => keys + Cardinality(InHand("key", "checked")) <= cap - 1 + crowd

(* An invite is spent once, unless registrations overlap or one is cut off *)
(* between the account and the mark (auth/manager.py:52-74).               *)
InviteSpentOnce == RequireInvite => \A c \in Invite : uses[c] <= MostOf(1, guests) + lost

(* As long as requests do not overlap and no account is deleted, an active *)
(* admin remains: nobody can lock the last one out (users.py:110-129).     *)
AdminRemains ==
  ~overlapped /\ deletions = 0 => \E u \in DOMAIN users : Admin(users[u]) /\ users[u].active

(* What requests that read, decide and commit without a lock can overrun.   *)
AccountLimits == KeysWithinLimit /\ InviteSpentOnce /\ AdminRemains

(* Who is an admin is changed only by a request that was an admin's when   *)
(* it signed in, by a registration, and, on an account that was no admin   *)
(* when the request looked, by a manager (users.py:110-141).               *)
RightsGuarded ==
  [][\A u \in DOMAIN users \cap DOMAIN users' :
       Admin(users[u]) # Admin(users'[u]) =>
         \E s \in Session : /\ hand[s].op = "patch"
                            /\ hand'[s] = NoRequest
                            /\ Admin(hand[s].as) \/ ~Admin(hand[s].seen)]_accountVars

-----------------------------------------------------------------------------
(* The inductive invariants behind AccountLimits and RightsGuarded.        *)

\* Keys: the sessions that have checked were counted, and only a project has
\* keys.
KeysInv ==
  /\ Cardinality(InHand("key", "checked")) <= crowd
  /\ project.max <= cap
  /\ project = NoProject => keys = 0
  /\ KeysWithinLimit

\* Registrations with code c whose account is still to come, and those whose
\* mark is.
Coming(c) == {s \in Session : hand[s].op = "register" /\ hand[s].at = "checked" /\ hand[s].code = c}
Unmarked(c) == {s \in Session : hand[s].op = "register" /\ hand[s].at = "created" /\ hand[s].code = c}

\* While a code is open, every use of it is a registration that will mark it or
\* that was cut off.
InvitesInv ==
  RequireInvite => \A c \in Invite :
    /\ InviteOpen(c) => uses[c] <= Cardinality(Unmarked(c)) + lost
    /\ uses[c] + Cardinality(Coming(c)) <= guests + lost

\* A change that was let through is one its actor may make.
PatchesInv ==
  \A s \in Session :
    hand[s].op = "patch" /\ hand[s].at = "allowed" =>
      UpdateAllowed(hand[s].as, FALSE, hand[s].seen, hand[s].change)

\* Alone, a request finds the rows as it has read them, so its actor stays
\* what it is and the target is what was checked.
AdminInv ==
  ~overlapped =>
    /\ \A s, q \in Session : hand[s] # NoRequest /\ hand[q] # NoRequest => s = q
    /\ deletions = 0 =>
         /\ AdminRemains
         /\ \A s \in Session :
              hand[s].op = "patch" =>
                /\ hand[s].by \in DOMAIN users
                /\ hand[s].as = users[hand[s].by]
                /\ hand[s].as.active
                /\ hand[s].at = "allowed" => /\ hand[s].target \in DOMAIN users
                                            /\ hand[s].target # hand[s].by
                                            /\ hand[s].seen = users[hand[s].target]
=============================================================================
