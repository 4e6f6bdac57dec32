------------------------------- MODULE Seeding -------------------------------
(***************************************************************************)
(* migration.service.js: every instance that starts, and every GET of      *)
(* /migration/seeding, seeds the roles, the menu groups with the           *)
(* permissions of the roles, and the system users; /migration/unseeding    *)
(* removes them.  Each row is looked up and created in statements of their *)
(* own, without a transaction, while other instances seed and              *)
(* administrators create, rename, delete and assign.                       *)
(*                                                                         *)
(* Roles and users are paranoid: their removal leaves the row, and the     *)
(* look-ups of the seeding (paranoid: false) find it.                      *)
(*                                                                         *)
(* A row is looked up by its name (the slug of a menu, the e-mail of a     *)
(* user), but it has a second unique key: roles and menus are seeded with  *)
(* fixed ids, users with a user name.  An administrator who renames a role *)
(* or a menu takes the name from the row and leaves it the id.             *)
(*                                                                         *)
(* SeedingInit, SeedingNext and SeedingSpec are so named that a module can *)
(* extend this one and Lifecycle, the other part of the start.             *)
(***************************************************************************)
EXTENDS Naturals, Sequences, Functions

CONSTANTS Seeders,                        \* runs of seedAll that may overlap
          DefaultRoles, ApplicationRoles, \* names, as sets
          SystemRole,                     \* the role of the system users
          MenuOrder, UserOrder,           \* slugs and e-mails, in their order
          Assignments,                    \* <<role, menu>>, in their order
          Administered                    \* bound: names that administrators take and give

Menus  == Range(MenuOrder)
Users  == Range(UserOrder)
Roles  == DefaultRoles \cup ApplicationRoles
Grants == Range(Assignments)
Rows   == Roles \cup Menus \cup Users \cup Grants

\* No list is empty but perhaps the assignments, which are of known roles and
\* menus, and the rows of the four tables are different things.
ASSUME SeedingAssumption ==
    /\ MenuOrder \in Seq(Menus) \ {<<>>} /\ UserOrder \in Seq(Users) \ {<<>>}
    /\ Assignments \in Seq(Roles \X Menus)
    /\ SystemRole \in DefaultRoles
    /\ Roles \cap (Menus \cup Users \cup Grants) = {}
    /\ Menus \cap (Users \cup Grants) = {}
    /\ Users \cap Grants = {}

\* What seedAll goes through: four functions that catch their errors, and the
\* rows that each of them looks up and creates together.
Singly(s) == [i \in 1 .. Len(s) |-> {s[i]}]
Script == << << DefaultRoles >>,
             << ApplicationRoles >>,
             Singly(MenuOrder) \o Singly(Assignments),
             Singly(UserOrder) >>
Phases == 1 .. Len(Script)
RowsOf(phase) == UNION Range(Script[phase])

VARIABLES
    row,       \* what bears each name: nothing ("absent"), the "seeded" row, one that
               \* administrators "chosen", one soft-"deleted"
    held,      \* roles and menus whose id, and users whose user name or e-mail, is in use
    seeder,    \* where each seeding is, and what its look-up missed
    stale,     \* seedings in the third phase that may hold an id that a role or a menu
               \* of that name no longer has
    unseeding, \* the next statement of unseedAll
    shaken     \* history: phases whose rows the seedings since the last rest do not owe

seedingVars == <<row, held, seeder, stale, unseeding, shaken>>

Idle == [phase |-> 0, next |-> 1, missing |-> {}]
Quiet == \A s \in Seeders : seeder[s] = Idle

SeedingInit == /\ row = [x \in Rows |-> "absent"]
               /\ held = {}
               /\ seeder = [s \in Seeders |-> Idle]
               /\ stale = {}
               /\ unseeding = 0
               /\ shaken = Phases

-----------------------------------------------------------------------------
(* seedAll                                                                 *)

Exists(x) == row[x] # "absent"

\* Nothing bears the name, but the id or the user name is in use.
Blocked(x) == x \in held /\ ~Exists(x)

\* Menus and users need the roles.
Owed(phase) == IF phase <= 2 THEN {phase} \cup 3 .. Len(Script) ELSE {phase}

\* The phases that owe x or what needs x.
Touched(x) == UNION {Owed(phase) : phase \in {p \in Phases : x \in RowsOf(p)}}

\* What no seeding can complete: INSERTs of blocked rows fail, and system users
\* refer to their role by its id, which another role of that name has not.
Barred == {p \in {4} : Exists(SystemRole) /\ SystemRole \notin held}
          \cup UNION {Touched(x) : x \in {y \in Rows : Blocked(y)}}

Start(s) ==
    /\ seeder[s] = Idle
    /\ seeder' = [seeder EXCEPT ![s].phase = 1]
    /\ shaken' = IF Quiet /\ unseeding = 0 THEN Barred ELSE shaken
    /\ UNCHANGED <<row, held, stale, unseeding>>

Following(phase) == IF phase = Len(Script) THEN 0 ELSE phase + 1

\* The catch block of a function, or its end.
Leave(s) == seeder' = [seeder EXCEPT ![s] = [Idle EXCEPT !.phase = Following(seeder[s].phase)]]

Advance(s) ==
    LET me == seeder[s]
    IN IF me.next = Len(Script[me.phase]) THEN Leave(s)
       ELSE seeder' = [seeder EXCEPT ![s].next = me.next + 1, ![s].missing = {}]

\* The seedings that what happens to a role or a menu finds in the third phase,
\* where they hold ids of roles and menus, and those that it leaves there.
Outdated == stale \cup {s \in Seeders : seeder[s].phase = 3}
StillStale == {s \in stale : seeder'[s].phase = 3}

\* The rows that x refers to.  A grant that lacks one is skipped.
Present(x) == x \in Grants => Exists(x[1]) /\ Exists(x[2])

Wanted(s) == Script[seeder[s].phase][seeder[s].next]

\* Mutant: what is found was seeded before, and so was the rest.
OnFoundLeave(s) == Leave(s)

\* A menu that is found is brought up to date: its icon and its position.
OnFound(s) == Advance(s)

Look(s) ==
    /\ seeder[s].phase # 0 /\ seeder[s].missing = {}
    /\ LET missing == {x \in Wanted(s) : ~Exists(x) /\ Present(x)}
       IN IF missing = {} THEN OnFound(s)
                          ELSE \/ seeder' = [seeder EXCEPT ![s].missing = missing]
                               \/ s \in stale /\ missing \subseteq Grants /\ Advance(s)
    /\ stale' = StillStale
    /\ UNCHANGED <<row, held, unseeding, shaken>>

\* Mutant: what is there already is written over.
RejectedNever(x) == ~Present(x)

\* The unique indexes, and the foreign keys of grants and users.
Rejected(x) == \/ Exists(x) \/ x \in held
               \/ ~Present(x)
               \/ x \in Users /\ SystemRole \notin held

\* bulkCreate with ignoreDuplicates: INSERT ... ON CONFLICT DO NOTHING.
CreateRoles(s) ==
    LET new == {x \in seeder[s].missing : ~Exists(x) /\ x \notin held}
    IN /\ row' = [x \in Rows |-> IF x \in new THEN "seeded" ELSE row[x]]
       /\ held' = held \cup new
       /\ Advance(s)
       /\ stale' = IF new = {} THEN StillStale ELSE Outdated \ {s}

\* Others: an error ends the function.
CreateOther(s) ==
    LET new == seeder[s].missing
    IN /\ IF \E x \in new : Rejected(x)
          THEN Leave(s) /\ UNCHANGED <<row, held>>
          ELSE /\ row' = [x \in Rows |-> IF x \in new THEN "seeded" ELSE row[x]]
               /\ held' = held \cup (new \ Grants)
               /\ Advance(s)
       /\ stale' = StillStale

\* The permission is one of a role or a menu that lost its name since it was
\* looked up, or refers to nothing any more.
CreateElsewhere(s) ==
    /\ s \in stale /\ seeder[s].missing \subseteq Grants
    /\ Advance(s) \/ Leave(s)
    /\ stale' = StillStale
    /\ UNCHANGED <<row, held>>

Create(s) ==
    /\ seeder[s].missing # {}
    /\ \/ seeder[s].missing \subseteq Roles /\ CreateRoles(s)
       \/ ~(seeder[s].missing \subseteq Roles) /\ CreateOther(s)
       \/ CreateElsewhere(s)
    /\ UNCHANGED <<unseeding, shaken>>

\* A statement fails: the function logs it and ends.
Fail(s) ==
    /\ seeder[s].phase # 0
    /\ Leave(s)
    /\ shaken' = shaken \cup Owed(seeder[s].phase)
    /\ stale' = StillStale
    /\ UNCHANGED <<row, held, unseeding>>

Crash(s) ==
    /\ seeder[s].phase # 0
    /\ seeder' = [seeder EXCEPT ![s] = Idle]
    /\ shaken' = shaken \cup (seeder[s].phase .. Len(Script))
    /\ stale' = StillStale
    /\ UNCHANGED <<row, held, unseeding>>

-----------------------------------------------------------------------------
(* unseedAll: grants, menus, users, roles; each may fail for itself        *)

Removed(x, gone) == [y \in Rows |-> IF y \in x /\ Exists(y) THEN gone ELSE row[y]]

\* ON DELETE CASCADE.
GrantsOf(x) == {g \in Grants : x \in {g[1], g[2]}}
WithGrants(rows) == rows \cup UNION {GrantsOf(x) : x \in rows}

Unseed ==
    /\ \/ /\ row' = << Removed(Grants, "absent"), Removed(WithGrants(Menus), "absent"),
                       Removed(Users, "deleted"), Removed(Roles, "deleted") >>[unseeding + 1]
          /\ held' = IF unseeding = 1 THEN held \ Menus ELSE held
       \/ UNCHANGED <<row, held>>
    /\ unseeding' = (unseeding + 1) % 4
    /\ shaken' = shaken \cup {3}
    /\ stale' = Outdated
    /\ UNCHANGED seeder

-----------------------------------------------------------------------------
(* Administrators (roles.service.js, userCreate, registerUser)             *)

Live(x) == row[x] \in {"seeded", "chosen"}

\* findByPk of both, then the grant is created or updated.
AssignMenuToRole(g) ==
    /\ Live(g[1]) /\ Exists(g[2])
    /\ row' = [row EXCEPT ![g] = "chosen"]
    /\ UNCHANGED held

RemoveMenuFromRole(g) == Exists(g) /\ row' = Removed({g}, "absent") /\ UNCHANGED held

\* updateRole and updateMenu give the row another name; it keeps its id and its
\* permissions.
Rename(x) == Live(x) /\ row' = Removed(WithGrants({x}), "absent") /\ UNCHANGED held

\* A row gets the name: a new one, another one, or the seeded one that had lost
\* it, with whatever permissions it has.
TakeName(x) ==
    /\ ~Exists(x)
    /\ \E origin \in {"chosen"} \cup {o \in {"seeded"} : x \in held \ Users},
          brought \in SUBSET {g \in GrantsOf(x) : \A y \in {g[1], g[2]} \ {x} : Exists(y)} :
          row' = [y \in Rows |-> IF y = x THEN origin
                                 ELSE IF y \in brought THEN "chosen" ELSE row[y]]
    /\ held' = held \cup ({x} \cap Users)

TakeUsername(user) == ~Exists(user) /\ held' = held \cup {user} /\ UNCHANGED row

\* The role is soft-deleted: a seeding finds it.
DeleteRole(role) == Live(role) /\ row' = Removed({role}, "deleted") /\ UNCHANGED held

\* The menu of that name, or the seeded one under another name.
DeleteMenu(menu) ==
    \/ /\ Exists(menu)
       /\ row' = Removed(WithGrants({menu}), "absent")
       /\ held' = IF row[menu] = "seeded" THEN held \ {menu} ELSE held
    \/ /\ menu \in held /\ row[menu] # "seeded"
       /\ held' = held \ {menu}
       /\ UNCHANGED row

AdministerGrants ==
    /\ \E g \in Grants : AssignMenuToRole(g) \/ RemoveMenuFromRole(g)
    /\ shaken' = shaken \cup {3}
    /\ UNCHANGED stale

AdministerUsers ==
    /\ \E user \in Users \cap Administered : TakeName(user) \/ TakeUsername(user)
    /\ shaken' = shaken \cup {4}
    /\ UNCHANGED stale

AdministerNames ==
    /\ \E x \in (Roles \cup Menus) \cap Administered :
          /\ Rename(x) \/ TakeName(x) \/ (x \in Menus /\ DeleteMenu(x))
          /\ shaken' = shaken \cup Touched(x)
    /\ stale' = Outdated

Administer ==
    /\ \/ AdministerGrants \/ AdministerUsers \/ AdministerNames
       \/ \E role \in Roles : DeleteRole(role) /\ UNCHANGED <<stale, shaken>>
    /\ UNCHANGED <<seeder, unseeding>>

-----------------------------------------------------------------------------
SeedingNext == \/ \E s \in Seeders : Start(s) \/ Look(s) \/ Create(s) \/ Fail(s) \/ Crash(s)
               \/ Unseed
               \/ Administer

SeedingSpec == SeedingInit /\ [][SeedingNext]_seedingVars

-----------------------------------------------------------------------------
(* Properties                                                              *)

\* When seedings that overlapped are over, every row of every function is
\* there, unless a statement of it failed, a process died, somebody removed,
\* renamed or added rows meanwhile, or the id or user name of a row that lacked
\* was in use when they began: whichever of them lost a race to another one and
\* gave up, the first in the fixed order went on.
RestIsComplete ==
    Quiet => \A phase \in Phases \ shaken : \A x \in RowsOf(phase) : Exists(x)

\* No seeding, however its look-up overlaps an assignment, turns a permission
\* that an administrator chose back into the seeded one.
ChoicesStay ==
    [][\A g \in Grants : row[g] = "chosen" /\ row'[g] # "chosen" => UNCHANGED seeder]_seedingVars
=============================================================================
