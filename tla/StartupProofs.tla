---------------------------- MODULE StartupProofs ---------------------------
(***************************************************************************)
(* The two components that a starting process runs, which share no         *)
(* variable: which rows the seedings of Seeding leave, for any number of   *)
(* instances and any lists of rows, and what the exit with success of a    *)
(* process of Lifecycle has waited for, for any number of requests and of  *)
(* signals and exceptions, in whatever step they find it.                  *)
(***************************************************************************)
EXTENDS Lifecycle, Seeding, SequenceTheorems, TLAPS

-----------------------------------------------------------------------------
(* Seeding: the inductive invariant                                        *)

\* The rows of the i-th look-up of function p are there, and all of its rows.
Done(p, i) == \A x \in Script[p][i] : Exists(x)
Complete(p) == \A x \in RowsOf(p) : Exists(x)

\* Where a seeding can be.
Place == [phase : 0 .. 4, next : Nat, missing : SUBSET Rows]

SeedingTypeOK == /\ row \in [Rows -> {"absent", "seeded", "chosen", "deleted"}]
          /\ seeder \in [Seeders -> Place]
          /\ unseeding \in 0 .. 3
          /\ shaken \in SUBSET Phases

\* A seeding is at a place of the script, and owes only rows of that place.
OnScript == \A s \in Seeders :
    IF seeder[s].phase = 0 THEN seeder[s] = Idle
    ELSE /\ seeder[s].next \in 1 .. Len(Script[seeder[s].phase])
         /\ seeder[s].missing \subseteq Wanted(s)

\* Menus and users are owed only where the roles are.
RolesFirst == shaken \cap {1, 2} # {} => {3, 4} \subseteq shaken

\* What a seeding has passed in the phase it is in is there.
PassedIsThere == \A s \in Seeders :
    seeder[s].phase \in Phases \ shaken =>
        \A i \in 1 .. seeder[s].next - 1 : Done(seeder[s].phase, i)

\* What it has looked up and not found can be created, and is all that lacks.
MissedIsAll == \A s \in Seeders :
    seeder[s].phase \in Phases \ shaken /\ seeder[s].missing # {} =>
        /\ \A x \in seeder[s].missing : Present(x)
        /\ \A x \in Wanted(s) \ seeder[s].missing : Exists(x)

\* The roles are there once a seeding is past them.
RolesAreThere == \A s \in Seeders : \A p \in {1, 2} \ shaken :
    seeder[s].phase > p => Complete(p)

\* A phase is complete or a seeding has still to end it.
SomeoneOwes == \A p \in Phases \ shaken :
    Complete(p) \/ \E s \in Seeders : seeder[s].phase \in 1 .. p

\* Who lost the race for a row lost it to a seeding that is ahead.
LoserIsBehind == \A s \in Seeders :
    /\ seeder[s].phase \in {3, 4} \ shaken
    /\ \E x \in seeder[s].missing : Exists(x)
    => \/ Complete(seeder[s].phase)
       \/ \E r \in Seeders : seeder[r].phase = seeder[s].phase /\ seeder[r].next > seeder[s].next

SeedingInv == /\ SeedingTypeOK /\ OnScript /\ RolesFirst /\ PassedIsThere
              /\ MissedIsAll /\ RolesAreThere /\ SomeoneOwes /\ LoserIsBehind

\* A row that a phase owes and that is not there can be created, and the role
\* of the system users is the one with the id that they refer to.
KeysAreFree == /\ \A p \in Phases \ shaken : \A x \in RowsOf(p) : ~Blocked(x)
               /\ 4 \notin shaken /\ Exists(SystemRole) => SystemRole \in held

\* What a seeding holds of roles and menus is out of date only where somebody
\* disturbed the permissions.
StaleIsShaken == stale \subseteq Seeders /\ \A s \in stale : seeder[s].phase = 3 /\ 3 \in shaken

SeedingIInv == SeedingInv /\ KeysAreFree /\ StaleIsShaken

-----------------------------------------------------------------------------
(* The script                                                              *)

LEMMA SinglyFacts ==
  ASSUME NEW S, NEW t \in Seq(S)
  PROVE  /\ Singly(t) \in Seq(SUBSET S) /\ Len(Singly(t)) = Len(t)
         /\ \A i \in 1 .. Len(t) : Singly(t)[i] = {t[i]} /\ t[i] \in S
  BY DEF Singly

LEMMA FourPhases == Len(Script) = 4 /\ Phases = 1 .. 4
  BY DEF Script, Phases

\* The roles are two places of the script, the menus and the users one each.
LEMMA RolePlaces ==
  /\ Len(Script[1]) = 1 /\ Script[1][1] = DefaultRoles /\ RowsOf(1) = DefaultRoles
  /\ Len(Script[2]) = 1 /\ Script[2][1] = ApplicationRoles /\ RowsOf(2) = ApplicationRoles
<1>1. Script[1] = <<DefaultRoles>> /\ Script[2] = <<ApplicationRoles>>
  BY DEF Script
<1>2. ASSUME NEW X PROVE UNION Range(<<X>>) = X
  BY DEF Range
<1> QED
  BY <1>1, <1>2 DEF RowsOf

\* The menus come before the grants.
LEMMA MenuPlaces ==
  /\ Len(Script[3]) = Len(MenuOrder) + Len(Assignments)
  /\ Len(MenuOrder) \in Nat \ {0} /\ Len(Assignments) \in Nat
  /\ \A i \in 1 .. Len(MenuOrder) : Script[3][i] = {MenuOrder[i]}
  /\ \A i \in Len(MenuOrder) + 1 .. Len(Script[3]) :
        Script[3][i] = {Assignments[i - Len(MenuOrder)]}
<1>1. /\ MenuOrder \in Seq(Menus) /\ MenuOrder # <<>>
      /\ Assignments \in Seq(Roles \X Menus)
  BY SeedingAssumption
<1> DEFINE T == Menus \cup (Roles \X Menus)
<1>2. /\ Singly(MenuOrder) \in Seq(SUBSET T) /\ Singly(Assignments) \in Seq(SUBSET T)
  <2>1. MenuOrder \in Seq(T) /\ Assignments \in Seq(T)
    BY <1>1
  <2> QED
    BY <2>1, SinglyFacts
<1>3. Script[3] = Singly(MenuOrder) \o Singly(Assignments)
  BY DEF Script
<1>4. /\ Len(Script[3]) = Len(Singly(MenuOrder)) + Len(Singly(Assignments))
      /\ \A i \in 1 .. Len(Singly(MenuOrder)) + Len(Singly(Assignments)) :
           Script[3][i] = IF i <= Len(Singly(MenuOrder)) THEN Singly(MenuOrder)[i]
                          ELSE Singly(Assignments)[i - Len(Singly(MenuOrder))]
  <2> HIDE DEF T
  <2> QED
    BY <1>2, <1>3, ConcatProperties
<1>5. /\ Len(MenuOrder) \in Nat \ {0} /\ Len(Assignments) \in Nat
  BY <1>1
<1>6. /\ Len(Singly(MenuOrder)) = Len(MenuOrder)
      /\ Len(Singly(Assignments)) = Len(Assignments)
      /\ \A i \in 1 .. Len(MenuOrder) : Singly(MenuOrder)[i] = {MenuOrder[i]}
      /\ \A i \in 1 .. Len(Assignments) : Singly(Assignments)[i] = {Assignments[i]}
  BY <1>1, SinglyFacts
<1>7. ASSUME NEW i \in 1 .. Len(MenuOrder) PROVE Script[3][i] = {MenuOrder[i]}
  BY <1>4, <1>5, <1>6
<1>8. ASSUME NEW i \in Len(MenuOrder) + 1 .. Len(Script[3])
      PROVE  Script[3][i] = {Assignments[i - Len(MenuOrder)]}
  <2>1. /\ i \in 1 .. Len(MenuOrder) + Len(Assignments) /\ ~(i <= Len(MenuOrder))
        /\ i - Len(MenuOrder) \in 1 .. Len(Assignments)
    BY <1>4, <1>5, <1>6
  <2>2. Script[3][i] = Singly(Assignments)[i - Len(MenuOrder)]
    BY <1>4, <1>6, <2>1
  <2> QED
    BY <1>6, <2>1, <2>2
<1> QED
  BY <1>4, <1>5, <1>6, <1>7, <1>8

LEMMA UserPlaces ==
  /\ Len(Script[4]) = Len(UserOrder) /\ Len(UserOrder) \in Nat \ {0}
  /\ \A i \in 1 .. Len(UserOrder) : Script[4][i] = {UserOrder[i]}
<1>1. Script[4] = Singly(UserOrder)
  BY DEF Script
<1>2. UserOrder \in Seq(Users) /\ UserOrder # <<>>
  BY SeedingAssumption
<1>3. Len(UserOrder) \in Nat \ {0}
  BY <1>2
<1> QED
  BY <1>1, <1>2, <1>3, SinglyFacts

\* What the rest needs of the places of the script.
LEMMA Places ==
  ASSUME NEW p \in Phases
  PROVE  /\ Len(Script[p]) \in Nat \ {0}
         /\ DOMAIN Script[p] = 1 .. Len(Script[p])
         /\ \A i \in 1 .. Len(Script[p]) : Script[p][i] \subseteq RowsOf(p)
         /\ \A x \in RowsOf(p) : \E i \in 1 .. Len(Script[p]) : x \in Script[p][i]
<1>1. Len(Script[p]) \in Nat \ {0}
  BY FourPhases, RolePlaces, MenuPlaces, UserPlaces
<1>2. DOMAIN Script[p] = 1 .. Len(Script[p])
  <2>1. \A t : t = Singly(UserOrder) \/ t = Singly(MenuOrder) \o Singly(Assignments)
                 => DOMAIN t = 1 .. Len(t)
    OBVIOUS
  <2> QED
    BY <2>1 DEF Script, Phases
<1> QED
  BY <1>1, <1>2 DEF RowsOf, Range

\* The four functions have rows of different tables.
LEMMA Tables ==
  /\ RowsOf(1) \subseteq Roles /\ RowsOf(2) \subseteq Roles
  /\ RowsOf(3) = Menus \cup Grants /\ RowsOf(4) = Users
  /\ \A p \in Phases : RowsOf(p) \subseteq Rows
  /\ \A p, q \in Phases : p \in {3, 4} /\ p # q => RowsOf(p) \cap RowsOf(q) = {}
<1>1. RowsOf(1) \subseteq Roles /\ RowsOf(2) \subseteq Roles
  BY RolePlaces DEF Roles
<1>2. RowsOf(3) = Menus \cup Grants
  <2>1. MenuOrder \in Seq(Menus) /\ Assignments \in Seq(Roles \X Menus)
    BY SeedingAssumption
  <2>2. ASSUME NEW x \in RowsOf(3) PROVE x \in Menus \cup Grants
    <3>1. PICK i \in 1 .. Len(Script[3]) : x \in Script[3][i]
      BY Places, FourPhases
    <3>2. CASE i \in 1 .. Len(MenuOrder)
      BY <2>1, <3>1, <3>2, MenuPlaces DEF Menus, Range
    <3>3. CASE i \in Len(MenuOrder) + 1 .. Len(Script[3])
      <4>1. /\ x = Assignments[i - Len(MenuOrder)]
            /\ i - Len(MenuOrder) \in 1 .. Len(Assignments)
        BY <3>1, <3>3, MenuPlaces
      <4> QED
        BY <2>1, <4>1 DEF Grants, Range
    <3> QED
      BY <3>1, <3>2, <3>3, MenuPlaces
  <2>3. ASSUME NEW x \in Menus PROVE x \in RowsOf(3)
    <3>1. PICK i \in 1 .. Len(MenuOrder) : x = MenuOrder[i]
      BY <2>1 DEF Menus, Range
    <3>2. i \in 1 .. Len(Script[3]) /\ x \in Script[3][i]
      BY <3>1, MenuPlaces
    <3> QED
      BY <3>2, Places, FourPhases
  <2>4. ASSUME NEW x \in Grants PROVE x \in RowsOf(3)
    <3>1. PICK k \in 1 .. Len(Assignments) : x = Assignments[k]
      BY <2>1, SMTT(30) DEF Grants, Range
    <3> DEFINE i == k + Len(MenuOrder)
    <3>2. /\ i \in Len(MenuOrder) + 1 .. Len(Script[3]) /\ i \in 1 .. Len(Script[3])
          /\ i - Len(MenuOrder) = k
      BY <3>1, MenuPlaces
    <3>3. Script[3][i] = {Assignments[i - Len(MenuOrder)]}
      BY <3>2, MenuPlaces
    <3>4. x \in Script[3][i]
      BY <3>1, <3>2, <3>3
    <3> HIDE DEF i
    <3> QED
      BY <3>2, <3>4, Places, FourPhases
  <2> QED
    BY <2>2, <2>3, <2>4
<1>3. RowsOf(4) = Users
  <2>1. UserOrder \in Seq(Users) /\ \A i \in 1 .. Len(UserOrder) : UserOrder[i] \in Users
    BY SeedingAssumption
  <2>2. ASSUME NEW x \in RowsOf(4) PROVE x \in Users
    BY <2>1, Places, FourPhases, UserPlaces
  <2>3. ASSUME NEW x \in Users PROVE x \in RowsOf(4)
    <3>1. PICK i \in 1 .. Len(UserOrder) : x = UserOrder[i]
      BY <2>1 DEF Users, Range
    <3> QED
      BY <3>1, Places, FourPhases, UserPlaces
  <2> QED
    BY <2>2, <2>3
<1>4. \A p, q \in Phases : p \in {3, 4} /\ p # q => RowsOf(p) \cap RowsOf(q) = {}
  <2>1. /\ Roles \cap (Menus \cup Users \cup Grants) = {}
        /\ Menus \cap (Users \cup Grants) = {} /\ Users \cap Grants = {}
    BY SeedingAssumption
  <2>2. \A p \in Phases : p = 1 \/ p = 2 \/ p = 3 \/ p = 4
    BY FourPhases
  <2> QED
    BY <1>1, <1>2, <1>3, <2>1, <2>2
<1>5. \A p \in Phases : RowsOf(p) \subseteq Rows
  BY <1>1, <1>2, <1>3, FourPhases DEF Rows
<1> QED
  BY <1>1, <1>2, <1>3, <1>4, <1>5

\* A menu, a grant and a user is looked up alone.
LEMMA OneByOne ==
  ASSUME NEW p \in {3, 4}, NEW i \in 1 .. Len(Script[p]),
         NEW x \in Script[p][i], NEW y \in Script[p][i]
  PROVE  x = y
<1>1. CASE p = 3 /\ i \in 1 .. Len(MenuOrder)
  BY <1>1, MenuPlaces
<1>2. CASE p = 3 /\ i \in Len(MenuOrder) + 1 .. Len(Script[p])
  BY <1>2, MenuPlaces
<1>3. CASE p = 4
  BY <1>3, UserPlaces
<1> QED
  BY <1>1, <1>2, <1>3, MenuPlaces

\* What a grant refers to comes before it.
LEMMA GrantsFollow ==
  ASSUME NEW i \in 1 .. Len(Script[3]), NEW x \in Script[3][i], x \in Grants
  PROVE  x[1] \in Roles /\ \E j \in 1 .. i - 1 : x[2] \in Script[3][j]
<1>1. /\ MenuOrder \in Seq(Menus) /\ Assignments \in Seq(Roles \X Menus)
      /\ Menus \cap Grants = {}
  BY SeedingAssumption
<1>2. ~(i <= Len(MenuOrder))
  <2>1. \A j \in 1 .. Len(MenuOrder) : MenuOrder[j] \in Menus
    BY <1>1
  <2> QED
    BY <1>1, <2>1, MenuPlaces
<1>3. x[1] \in Roles /\ x[2] \in Menus
  <2>1. \A k \in 1 .. Len(Assignments) : Assignments[k] \in Roles \X Menus
    BY <1>1
  <2>2. PICK k \in 1 .. Len(Assignments) : x = Assignments[k]
    BY <1>1 DEF Grants, Range
  <2> QED
    BY <2>1, <2>2
<1>4. PICK j \in 1 .. Len(MenuOrder) : x[2] = MenuOrder[j]
  <2>1. \A menu \in Menus : \E j \in 1 .. Len(MenuOrder) : menu = MenuOrder[j]
    BY <1>1 DEF Menus, Range
  <2> QED
    BY <1>3, <2>1
<1>5. j \in 1 .. i - 1 /\ x[2] \in Script[3][j]
  BY <1>2, <1>4, MenuPlaces
<1> QED
  BY <1>3, <1>5

LEMMA GrantEnds ==
  ASSUME NEW g \in Grants
  PROVE  g[1] \in Roles /\ g[2] \in Menus /\ g[1] \in Rows /\ g[2] \in Rows
<1>1. g \in Roles \X Menus
  BY SeedingAssumption DEF Grants, Range
<1> QED
  BY <1>1 DEF Rows

\* Which phases suffer when something happens to a phase or to a row.
LEMMA OwedFacts ==
  ASSUME NEW p \in Phases
  PROVE  /\ Owed(p) \subseteq Phases /\ p \in Owed(p)
         /\ Owed(p) \cap {1, 2} # {} => {3, 4} \subseteq Owed(p)
         /\ p # 4 => 3 \in Owed(p)
<1>1. 3 .. Len(Script) = {3, 4} /\ p \in 1 .. 4
  BY FourPhases
<1> QED
  BY <1>1, FourPhases DEF Owed

LEMMA TouchedFacts ==
  ASSUME NEW x
  PROVE  /\ Touched(x) \subseteq Phases
         /\ Touched(x) \cap {1, 2} # {} => {3, 4} \subseteq Touched(x)
         /\ \A p \in Phases : x \in RowsOf(p) => p \in Touched(x)
         /\ x \in Roles \cup Menus => 3 \in Touched(x)
<1>1. \A q : q \in Touched(x) <=> \E p \in Phases : x \in RowsOf(p) /\ q \in Owed(p)
  BY DEF Touched
<1>2. \A p \in Phases : x \in RowsOf(p) => Owed(p) \subseteq Touched(x)
  BY <1>1
<1>3. Touched(x) \subseteq Phases
  BY <1>1, OwedFacts
<1>4. Touched(x) \cap {1, 2} # {} => {3, 4} \subseteq Touched(x)
  <2>1. ASSUME NEW q \in Touched(x) \cap {1, 2} PROVE {3, 4} \subseteq Touched(x)
    <3>1. PICK p \in Phases : x \in RowsOf(p) /\ q \in Owed(p)
      BY <1>1, <2>1
    <3>2. {3, 4} \subseteq Owed(p)
      BY <2>1, <3>1, OwedFacts
    <3> QED
      BY <1>2, <3>1, <3>2
  <2> QED
    BY <2>1
<1>5. \A p \in Phases : x \in RowsOf(p) => p \in Touched(x)
  BY <1>2, OwedFacts
<1>6. x \in Roles \cup Menus => \E p \in Phases : p # 4 /\ x \in RowsOf(p)
  BY FourPhases, RolePlaces, Tables DEF Roles
<1>7. x \in Roles \cup Menus => 3 \in Touched(x)
  BY <1>2, <1>6, OwedFacts
<1> QED
  BY <1>3, <1>4, <1>5, <1>7

LEMMA BarredFacts ==
  /\ Barred \subseteq Phases
  /\ Barred \cap {1, 2} # {} => {3, 4} \subseteq Barred
  /\ \A p \in Phases \ Barred : \A x \in RowsOf(p) : ~Blocked(x)
  /\ 4 \notin Barred /\ Exists(SystemRole) => SystemRole \in held
<1> DEFINE four == {p \in {4} : Exists(SystemRole) /\ SystemRole \notin held}
<1> DEFINE blocked == {x \in Rows : Blocked(x)}
<1>1. \A q : q \in Barred <=> q \in four \/ \E x \in Rows : Blocked(x) /\ q \in Touched(x)
  <2> DEFINE union == UNION {Touched(x) : x \in blocked}
  <2>1. Barred = four \cup union
    BY DEF Barred
  <2>2. \A x : x \in blocked <=> x \in Rows /\ Blocked(x)
    OBVIOUS
  <2> HIDE DEF four, blocked
  <2>3. \A q : q \in union <=> \E x \in blocked : q \in Touched(x)
    OBVIOUS
  <2> HIDE DEF union
  <2>4. \A q : q \in Barred <=> q \in union \/ q \in four
    BY <2>1
  <2> QED
    BY <2>2, <2>3, <2>4
<1>2. \A x \in Rows : Blocked(x) => Touched(x) \subseteq Barred
  BY <1>1
<1>3. four \subseteq {4} /\ (four = {} /\ Exists(SystemRole) => SystemRole \in held)
  OBVIOUS
<1> HIDE DEF four
<1>4. Barred \subseteq Phases
  <2>1. ASSUME NEW q \in Barred PROVE q \in Phases
    <3>1. CASE q \in four
      BY <1>3, <3>1, FourPhases
    <3>2. ASSUME NEW x \in Rows, q \in Touched(x) PROVE q \in Phases
      BY <3>2, TouchedFacts
    <3> QED
      BY <1>1, <2>1, <3>1, <3>2
  <2> QED
    BY <2>1
<1>5. Barred \cap {1, 2} # {} => {3, 4} \subseteq Barred
  <2>1. ASSUME NEW q \in Barred \cap {1, 2} PROVE {3, 4} \subseteq Barred
    <3>1. PICK x \in Rows : Blocked(x) /\ q \in Touched(x)
      BY <1>1, <1>3, <2>1
    <3>2. {3, 4} \subseteq Touched(x)
      BY <2>1, <3>1, TouchedFacts
    <3> QED
      BY <1>2, <3>1, <3>2
  <2> QED
    BY <2>1
<1>6. ASSUME NEW p \in Phases \ Barred, NEW x \in RowsOf(p) PROVE ~Blocked(x)
  BY <1>2, <1>6, TouchedFacts, Tables
<1>7. 4 \notin Barred /\ Exists(SystemRole) => SystemRole \in held
  BY <1>1, <1>3
<1> QED
  BY <1>4, <1>5, <1>6, <1>7

-----------------------------------------------------------------------------
(* One seeding                                                             *)

\* A seeding that is not at rest is at a place of the script.
LEMMA AtPlace ==
  ASSUME SeedingInv, NEW s \in Seeders, seeder[s].phase # 0
  PROVE  /\ seeder[s].phase \in Phases
         /\ seeder[s].next \in 1 .. Len(Script[seeder[s].phase])
         /\ seeder[s].missing \subseteq Wanted(s)
         /\ Wanted(s) \subseteq RowsOf(seeder[s].phase)
         /\ Wanted(s) \subseteq Rows
<1>1. seeder[s].phase \in Phases
  BY FourPhases DEF SeedingInv, SeedingTypeOK, Place
<1>2. /\ seeder[s].next \in 1 .. Len(Script[seeder[s].phase])
      /\ seeder[s].missing \subseteq Wanted(s)
  BY DEF SeedingInv, OnScript
<1>3. Wanted(s) \subseteq RowsOf(seeder[s].phase)
  BY <1>1, <1>2, Places DEF SeedingInv, Wanted
<1> QED
  BY <1>1, <1>2, <1>3, Tables DEF SeedingInv

\* What a seeding looks up can be created: a grant comes after its menu, and
\* after the roles.
LEMMA WantedIsPresent ==
  ASSUME SeedingInv, NEW s \in Seeders, seeder[s].phase \in Phases \ shaken, NEW x \in Wanted(s)
  PROVE  Present(x)
<1> SUFFICES ASSUME x \in Grants PROVE Exists(x[1]) /\ Exists(x[2])
  BY DEF Present
<1>1. seeder[s].phase # 0
  BY FourPhases
<1>2. /\ x \in RowsOf(seeder[s].phase) /\ x \in RowsOf(3)
  BY <1>1, AtPlace, Tables DEF SeedingInv
<1>3. seeder[s].phase = 3
  BY <1>2, Tables, FourPhases
<1>4. /\ seeder[s].next \in 1 .. Len(Script[3]) /\ x \in Script[3][seeder[s].next]
  BY <1>1, <1>3, AtPlace DEF Wanted
<1>5. x[1] \in Roles /\ \E j \in 1 .. seeder[s].next - 1 : x[2] \in Script[3][j]
  BY <1>2, <1>4, GrantsFollow
<1>6. Exists(x[2])
  BY <1>3, <1>5 DEF SeedingInv, PassedIsThere, Done
<1>7. Exists(x[1])
  <2>1. 1 \notin shaken /\ 2 \notin shaken
    BY <1>3 DEF SeedingInv, RolesFirst
  <2>2. Complete(1) /\ Complete(2)
    BY <1>3, <2>1 DEF SeedingInv, RolesAreThere
  <2> QED
    BY <1>5, <2>2, RolePlaces DEF Complete, Roles
<1> QED
  BY <1>6, <1>7

\* A seeding that had not found a row, in a phase nobody disturbed, has not
\* passed it, and no other place of its phase before its own holds the row.
LEMMA NotPassed ==
  ASSUME SeedingInv, NEW s \in Seeders, NEW t \in Seeders, NEW x \in Rows, ~Exists(x),
         seeder[s].phase \in {3, 4} \ shaken, seeder[t].phase = seeder[s].phase,
         x \in Wanted(s)
  PROVE  seeder[t].next <= seeder[s].next
<1>1. seeder[s].next \in 1 .. Len(Script[seeder[s].phase])
  BY AtPlace
<1>2. seeder[t].next \in Nat /\ seeder[s].next \in Nat
  BY DEF SeedingInv, SeedingTypeOK, Place
<1>3. ASSUME seeder[t].next > seeder[s].next PROVE FALSE
  <2>1. seeder[s].next \in 1 .. seeder[t].next - 1
    BY <1>1, <1>2, <1>3
  <2>2. Done(seeder[s].phase, seeder[s].next)
    BY <2>1, FourPhases DEF SeedingInv, PassedIsThere
  <2> QED
    BY <2>2 DEF Done, Wanted
<1> QED
  BY <1>2, <1>3

\* Only s moves, and it moves to that place.
MovesTo(s, place) == /\ seeder' \in [Seeders -> Place]
                     /\ seeder'[s] = place
                     /\ \A t \in Seeders \ {s} : seeder'[t] = seeder[t]

\* Rows only grow, and only by what s missed.
Grows(s) == /\ row' \in [Rows -> {"absent", "seeded", "chosen", "deleted"}]
            /\ \A x \in Rows : Exists(x) => Exists(x)'
            /\ \A x \in Rows : Exists(x)' => Exists(x) \/ x \in seeder[s].missing

\* Then what was there is there.
LEMMA GrowthKeeps ==
  ASSUME NEW s \in Seeders, Grows(s), NEW p \in Phases
  PROVE  /\ Complete(p) => Complete(p)'
         /\ \A i \in 1 .. Len(Script[p]) : Done(p, i) => Done(p, i)'
         /\ \A x \in RowsOf(p) : Exists(x) => Exists(x)'
<1>1. RowsOf(p) \subseteq Rows
  BY Tables
<1>2. \A i \in 1 .. Len(Script[p]) : Script[p][i] \subseteq RowsOf(p)
  BY Places
<1> QED
  BY <1>1, <1>2 DEF Grows, Complete, Done

\* What x refers to stays there.
LEMMA PresentStays ==
  ASSUME NEW s \in Seeders, Grows(s), NEW x \in Rows, Present(x)
  PROVE  Present(x)'
<1> SUFFICES ASSUME x \in Grants PROVE Exists(x[1])' /\ Exists(x[2])'
  BY DEF Present
<1>1. x[1] \in Rows /\ x[2] \in Rows
  BY GrantEnds
<1> QED
  BY <1>1 DEF Present, Grows

\* Who loses a row by the step of s was behind already, or s is not behind it.
LEMMA LostTo ==
  ASSUME SeedingInv, NEW s \in Seeders, NEW t \in Seeders, Grows(s), seeder[s].phase # 0,
         seeder[t].phase \in {3, 4} \ shaken, NEW x \in seeder[t].missing, Exists(x)'
  PROVE  \/ Complete(seeder[t].phase)
         \/ \E r \in Seeders : /\ seeder[r].phase = seeder[t].phase
                               /\ seeder[r].next > seeder[t].next
         \/ /\ seeder[s].phase = seeder[t].phase
            /\ seeder[s].next >= seeder[t].next
            /\ \A y \in seeder[s].missing : ~Exists(y)
<1>1. CASE Exists(x)
  BY <1>1 DEF SeedingInv, LoserIsBehind
<1>2. CASE ~Exists(x)
  <2>1. /\ seeder[t].phase \in Phases /\ x \in Wanted(t) /\ x \in RowsOf(seeder[t].phase)
        /\ x \in Rows
    BY AtPlace
  <2>2. /\ x \in seeder[s].missing /\ x \in Wanted(s) /\ x \in RowsOf(seeder[s].phase)
        /\ seeder[s].phase \in Phases
    BY <1>2, <2>1, AtPlace DEF Grows
  <2>3. seeder[s].phase = seeder[t].phase
    BY <2>1, <2>2, Tables DEF SeedingInv
  <2>4. seeder[t].next <= seeder[s].next
    BY <1>2, <2>1, <2>2, <2>3, NotPassed
  <2>5. \A y \in seeder[s].missing : y = x
    <3>1. seeder[s].next \in 1 .. Len(Script[seeder[s].phase])
      BY AtPlace
    <3>2. seeder[s].missing \subseteq Script[seeder[s].phase][seeder[s].next]
      BY AtPlace DEF Wanted
    <3> QED
      BY <2>2, <2>3, <3>1, <3>2, OneByOne DEF SeedingInv
  <2>6. seeder[t].next \in Nat /\ seeder[s].next \in Nat
    BY DEF SeedingInv, SeedingTypeOK, Place
  <2> QED
    BY <1>2, <2>3, <2>4, <2>5, <2>6
<1> QED
  BY <1>1, <1>2

\* A seeding goes on to the next place of its phase.
LEMMA ForwardKeeps ==
  ASSUME SeedingInv, NEW s \in Seeders, seeder[s].phase # 0, Grows(s),
         UNCHANGED <<unseeding, shaken>>,
         seeder[s].next # Len(Script[seeder[s].phase]),
         MovesTo(s, [phase |-> seeder[s].phase, next |-> seeder[s].next + 1, missing |-> {}]),
         seeder[s].phase \notin shaken => \A x \in Wanted(s) : Exists(x)'
  PROVE  SeedingInv'
<1>1. /\ seeder[s].phase \in Phases /\ seeder[s].next \in 1 .. Len(Script[seeder[s].phase])
      /\ \A t \in Seeders : seeder[t] \in Place
  BY AtPlace DEF SeedingInv, SeedingTypeOK, Place
<1>2. /\ seeder'[s].phase = seeder[s].phase /\ seeder'[s].missing = {}
      /\ seeder'[s].next = seeder[s].next + 1
      /\ \A t \in Seeders \ {s} : seeder'[t] = seeder[t]
  BY DEF MovesTo
<1>3. seeder'[s].next \in 1 .. Len(Script[seeder[s].phase]) /\ seeder'[s].next \in Nat
  BY <1>1, <1>2, Places
<1>4. \A p \in Phases : Complete(p) => Complete(p)'
  BY <1>1, GrowthKeeps
<1>5. SeedingTypeOK'
  BY DEF SeedingInv, SeedingTypeOK, Grows, MovesTo, Place
<1>6. OnScript'
  <2>1. ASSUME NEW t \in Seeders \ {s}
        PROVE  IF seeder'[t].phase = 0 THEN seeder'[t] = Idle
               ELSE /\ seeder'[t].next \in 1 .. Len(Script[seeder'[t].phase])
                    /\ seeder'[t].missing \subseteq Script[seeder'[t].phase][seeder'[t].next]
    BY <1>2 DEF SeedingInv, OnScript, Wanted
  <2> QED
    BY <1>1, <1>2, <1>3, <2>1 DEF OnScript, Wanted
<1>7. RolesFirst'
  BY DEF SeedingInv, RolesFirst
<1>8. PassedIsThere'
  <2>1. ASSUME NEW t \in Seeders, NEW p \in Phases \ shaken, p = seeder'[t].phase,
               NEW i \in 1 .. seeder'[t].next - 1
        PROVE  Done(p, i)'
    <3>1. p = seeder[t].phase /\ seeder[t].next \in Nat
      BY <1>1, <1>2, <2>1 DEF Place
    <3>2. i \in 1 .. Len(Script[p])
      <4>1. Len(Script[p]) \in Nat /\ seeder[t].phase # 0
        <5>1. p \in Phases /\ p # 0
          BY FourPhases
        <5> QED
          BY <1>1, <3>1, <5>1, Places
      <4>2. seeder'[t].next \in 1 .. Len(Script[p])
        BY <1>2, <1>3, <3>1, <4>1, AtPlace
      <4> QED
        BY <4>1, <4>2
    <3>3. i \in 1 .. seeder[t].next - 1 \/ (t = s /\ i = seeder[s].next)
      BY <1>1, <1>2, <3>1
    <3>4. CASE i \in 1 .. seeder[t].next - 1
      <4>1. Done(p, i)
        BY <2>1, <3>1, <3>4 DEF SeedingInv, PassedIsThere
      <4> QED
        BY <1>1, <3>2, <4>1, GrowthKeeps
    <3>5. CASE t = s /\ i = seeder[s].next
      BY <2>1, <3>1, <3>5 DEF Done, Wanted
    <3> QED
      BY <3>3, <3>4, <3>5
  <2> QED
    BY <2>1 DEF PassedIsThere, Done
<1>9. MissedIsAll'
  <2>1. ASSUME NEW t \in Seeders, seeder'[t].phase \in Phases \ shaken, seeder'[t].missing # {}
        PROVE  /\ \A x \in seeder'[t].missing : Present(x)'
               /\ \A x \in Wanted(t)' \ seeder'[t].missing : Exists(x)'
    <3>1. t # s /\ seeder'[t] = seeder[t] /\ seeder[t].phase # 0
      BY <1>2, <2>1, FourPhases
    <3>2. /\ \A x \in seeder[t].missing : Present(x)
          /\ \A x \in Wanted(t) \ seeder[t].missing : Exists(x)
      BY <2>1, <3>1 DEF SeedingInv, MissedIsAll
    <3>3. Wanted(t) \subseteq Rows /\ seeder[t].missing \subseteq Wanted(t)
      BY <3>1, AtPlace
    <3>4. Wanted(t)' = Wanted(t)
      BY <3>1 DEF Wanted
    <3>5. \A x \in Wanted(t) : Present(x) => Present(x)'
      BY <1>1, <2>1, <3>1, <3>3, PresentStays
    <3> QED
      BY <3>1, <3>2, <3>3, <3>4, <3>5 DEF Grows
  <2> QED
    BY <2>1 DEF MissedIsAll
<1>10. RolesAreThere'
  BY <1>1, <1>2, <1>4, FourPhases DEF SeedingInv, RolesAreThere
<1>11. SomeoneOwes'
  BY <1>1, <1>2, <1>4 DEF SeedingInv, SomeoneOwes
<1>12. LoserIsBehind'
  <2>1. ASSUME NEW t \in Seeders, NEW p \in {3, 4} \ shaken, p = seeder'[t].phase,
               NEW x \in seeder'[t].missing, Exists(x)'
        PROVE  \/ Complete(p)'
               \/ \E r \in Seeders : seeder'[r].phase = p /\ seeder'[r].next > seeder'[t].next
    <3>1. t # s /\ seeder'[t] = seeder[t] /\ p = seeder[t].phase /\ p \in Phases
      BY <1>2, <2>1, FourPhases
    <3>2. \A r \in Seeders : /\ seeder'[r].phase = seeder[r].phase
                             /\ seeder'[r].next >= seeder[r].next
                             /\ seeder[r].next \in Nat /\ seeder'[r].next \in Nat
      BY <1>1, <1>2, <1>3 DEF Place
    <3>3. seeder'[s].next > seeder[s].next
      BY <1>1, <1>2
    <3>4. CASE Complete(p)
      BY <1>4, <3>1, <3>4
    <3>5. ASSUME NEW r \in Seeders, seeder[r].phase = p, seeder[r].next > seeder[t].next
          PROVE  seeder'[r].phase = p /\ seeder'[r].next > seeder'[t].next
      BY <3>1, <3>2, <3>5
    <3>6. CASE seeder[s].phase = p /\ seeder[s].next >= seeder[t].next
      BY <3>1, <3>2, <3>3, <3>6
    <3> QED
      BY <2>1, <3>1, <3>4, <3>5, <3>6, LostTo
  <2> QED
    BY <2>1 DEF LoserIsBehind, Complete
<1> QED
  BY <1>1, <1>5, <1>6, <1>7, <1>8, <1>9, <1>10, <1>11, <1>12 DEF SeedingInv

\* A seeding ends its phase: it goes on to the next one or is over.  Where
\* nobody disturbed the phase, it completed it or lost a row of it.
LEMMA EndKeeps ==
  ASSUME SeedingInv, NEW s \in Seeders, seeder[s].phase # 0, Grows(s), UNCHANGED unseeding,
         shaken \subseteq shaken', shaken' \subseteq Phases, RolesFirst',
         NEW q \in 0 .. 4, q = 0 \/ q = seeder[s].phase + 1,
         MovesTo(s, [phase |-> q, next |-> 1, missing |-> {}]),
         \A p \in Phases \ shaken' : p >= seeder[s].phase =>
            \/ q \in 1 .. p
            \/ /\ p = seeder[s].phase
               /\ Complete(p)' \/ (p \in {3, 4} /\ \E x \in seeder[s].missing : Exists(x))
  PROVE  SeedingInv'
<1>1. /\ seeder[s].phase \in Phases /\ seeder[s].phase \in 1 .. 4
      /\ \A t \in Seeders : seeder[t] \in Place
  BY AtPlace, FourPhases DEF SeedingInv, SeedingTypeOK, Place
<1>2. /\ seeder'[s].phase = q /\ seeder'[s].missing = {} /\ seeder'[s].next = 1
      /\ seeder'[s] = [phase |-> q, next |-> 1, missing |-> {}]
      /\ \A t \in Seeders \ {s} : seeder'[t] = seeder[t]
  BY DEF MovesTo
<1>3. \A p \in Phases : Complete(p) => Complete(p)'
  BY <1>1, GrowthKeeps
<1>4. SeedingTypeOK'
  BY DEF SeedingInv, SeedingTypeOK, Grows, MovesTo, Place
<1>5. OnScript'
  <2>1. ASSUME NEW t \in Seeders \ {s}
        PROVE  IF seeder'[t].phase = 0 THEN seeder'[t] = Idle
               ELSE /\ seeder'[t].next \in 1 .. Len(Script[seeder'[t].phase])
                    /\ seeder'[t].missing \subseteq Script[seeder'[t].phase][seeder'[t].next]
    BY <1>2 DEF SeedingInv, OnScript, Wanted
  <2>2. IF q = 0 THEN seeder'[s] = Idle ELSE 1 \in 1 .. Len(Script[q])
    <3>1. CASE q = 0
      BY <1>2, <3>1 DEF Idle
    <3>2. CASE q # 0
      <4>1. q \in Phases
        BY <3>2, FourPhases
      <4> QED
        BY <1>1, <3>2, <4>1, Places
    <3> QED
      BY <3>1, <3>2
  <2> QED
    BY <1>2, <2>1, <2>2 DEF OnScript, Wanted
<1>6. PassedIsThere'
  <2>1. ASSUME NEW t \in Seeders, NEW p \in Phases \ shaken', p = seeder'[t].phase,
               NEW i \in 1 .. seeder'[t].next - 1
        PROVE  Done(p, i)'
    <3>1. t # s /\ seeder'[t] = seeder[t] /\ p \in Phases \ shaken
      BY <1>2
    <3>2. Done(p, i)
      BY <2>1, <3>1 DEF SeedingInv, PassedIsThere
    <3>3. i \in 1 .. Len(Script[p])
      <4>1. p # 0 /\ p \in Phases
        BY <3>1, FourPhases
      <4>2. seeder[t].next \in 1 .. Len(Script[p])
        BY <2>1, <3>1, <4>1, AtPlace
      <4>3. Len(Script[p]) \in Nat
        BY <1>1, <4>1, Places
      <4> QED
        BY <3>1, <4>2, <4>3
    <3> QED
      BY <1>1, <3>1, <3>2, <3>3, GrowthKeeps
  <2> QED
    BY <2>1 DEF PassedIsThere, Done
<1>7. MissedIsAll'
  <2>1. ASSUME NEW t \in Seeders, seeder'[t].phase \in Phases \ shaken', seeder'[t].missing # {}
        PROVE  /\ \A x \in seeder'[t].missing : Present(x)'
               /\ \A x \in Wanted(t)' \ seeder'[t].missing : Exists(x)'
    <3>1. /\ t # s /\ seeder'[t] = seeder[t] /\ seeder[t].phase # 0
          /\ seeder[t].phase \in Phases \ shaken
      BY <1>2, <2>1, FourPhases
    <3>2. /\ \A x \in seeder[t].missing : Present(x)
          /\ \A x \in Wanted(t) \ seeder[t].missing : Exists(x)
      BY <2>1, <3>1 DEF SeedingInv, MissedIsAll
    <3>3. Wanted(t) \subseteq Rows /\ seeder[t].missing \subseteq Wanted(t)
      BY <3>1, AtPlace
    <3>4. Wanted(t)' = Wanted(t)
      BY <3>1 DEF Wanted
    <3>5. \A x \in Wanted(t) : Present(x) => Present(x)'
      BY <1>1, <3>3, PresentStays
    <3> QED
      BY <3>1, <3>2, <3>3, <3>4, <3>5 DEF Grows
  <2> QED
    BY <2>1 DEF MissedIsAll
<1>8. RolesAreThere'
  <2>1. ASSUME NEW t \in Seeders, NEW p \in {1, 2} \ shaken', seeder'[t].phase > p
        PROVE  Complete(p)'
    <3>1. p \in Phases \ shaken' /\ p \in {1, 2} \ shaken
      BY FourPhases
    <3>2. CASE seeder[t].phase > p
      BY <1>3, <3>1, <3>2 DEF SeedingInv, RolesAreThere
    <3>3. CASE ~(seeder[t].phase > p)
      <4>1. t = s
        BY <1>2, <2>1, <3>3
      <4>2. p = seeder[s].phase /\ ~(q \in 1 .. p)
        BY <1>1, <1>2, <2>1, <3>3, <4>1
      <4> QED
        BY <1>1, <3>1, <4>2
    <3> QED
      BY <3>2, <3>3
  <2> QED
    BY <2>1 DEF RolesAreThere
<1>9. ASSUME NEW p \in {3, 4} \ shaken', p = seeder[s].phase,
             \E x \in seeder[s].missing : Exists(x)
      PROVE  \/ Complete(p)'
             \/ \E r \in Seeders \ {s} : seeder[r].phase = p /\ seeder[r].next > seeder[s].next
  <2>1. p \in {3, 4} \ shaken /\ p \in Phases
    BY FourPhases
  <2>2. \/ Complete(p)
        \/ \E r \in Seeders : seeder[r].phase = p /\ seeder[r].next > seeder[s].next
    BY <1>9, <2>1 DEF SeedingInv, LoserIsBehind
  <2>3. ~(seeder[s].next > seeder[s].next)
    BY <1>1 DEF Place
  <2> QED
    BY <1>3, <2>1, <2>2, <2>3
<1>10. SomeoneOwes'
  <2>1. ASSUME NEW p \in Phases \ shaken'
        PROVE  Complete(p)' \/ \E t \in Seeders : seeder'[t].phase \in 1 .. p
    <3>1. CASE Complete(p)
      BY <1>3, <3>1
    <3>2. ASSUME NEW t \in Seeders, seeder[t].phase \in 1 .. p
          PROVE  Complete(p)' \/ \E r \in Seeders : seeder'[r].phase \in 1 .. p
      <4>1. CASE t # s
        BY <1>2, <3>2, <4>1
      <4>2. CASE t = s /\ q \in 1 .. p
        BY <1>2, <4>2
      <4>3. CASE t = s /\ ~(q \in 1 .. p)
        <5>1. p >= seeder[s].phase /\ p \in 1 .. 4
          BY <1>1, <3>2, <4>3, FourPhases
        <5>2. /\ p = seeder[s].phase
              /\ Complete(p)' \/ (p \in {3, 4} /\ \E x \in seeder[s].missing : Exists(x))
          BY <4>3, <5>1
        <5>3. ASSUME NEW r \in Seeders \ {s}, seeder[r].phase = p
              PROVE  seeder'[r].phase \in 1 .. p
          BY <1>2, <5>1, <5>3
        <5> QED
          BY <1>9, <5>2, <5>3
      <4> QED
        BY <4>1, <4>2, <4>3
    <3> QED
      BY <3>1, <3>2 DEF SeedingInv, SomeoneOwes
  <2> QED
    BY <2>1 DEF SomeoneOwes, Complete
<1>11. LoserIsBehind'
  <2>1. ASSUME NEW t \in Seeders, NEW p \in {3, 4} \ shaken', p = seeder'[t].phase,
               NEW x \in seeder'[t].missing, Exists(x)'
        PROVE  \/ Complete(p)'
               \/ \E r \in Seeders : seeder'[r].phase = p /\ seeder'[r].next > seeder'[t].next
    <3>1. /\ t # s /\ seeder'[t] = seeder[t] /\ p = seeder[t].phase /\ p \in Phases
          /\ p \in {3, 4} \ shaken
      BY <1>2, <2>1, FourPhases
    <3>2. CASE Complete(p)
      BY <1>3, <3>1, <3>2
    <3>3. ASSUME NEW r \in Seeders \ {s}, seeder[r].phase = p, seeder[r].next > seeder[t].next
          PROVE  seeder'[r].phase = p /\ seeder'[r].next > seeder'[t].next
      BY <1>2, <3>1, <3>3
    <3>4. CASE seeder[s].phase = p /\ seeder[s].next >= seeder[t].next
      <4>1. p >= seeder[s].phase /\ ~(q \in 1 .. p)
        BY <1>1, <3>4
      <4>2. Complete(p)' \/ \E y \in seeder[s].missing : Exists(y)
        BY <3>1, <3>4, <4>1
      <4>3. ASSUME NEW r \in Seeders \ {s}, seeder[r].phase = p, seeder[r].next > seeder[s].next
            PROVE  seeder[r].next > seeder[t].next
        BY <1>1, <3>4, <4>3 DEF Place
      <4> QED
        BY <1>9, <3>3, <3>4, <4>2, <4>3
    <3>5. seeder[s].next > seeder[t].next => seeder[s].next >= seeder[t].next
      BY <1>1 DEF Place
    <3>6. \/ Complete(p)
          \/ \E r \in Seeders : seeder[r].phase = p /\ seeder[r].next > seeder[t].next
          \/ seeder[s].phase = p /\ seeder[s].next >= seeder[t].next
      BY <2>1, <3>1, LostTo
    <3> QED
      BY <3>2, <3>3, <3>4, <3>5, <3>6
  <2> QED
    BY <2>1 DEF LoserIsBehind, Complete
<1> QED
  BY <1>1, <1>4, <1>5, <1>6, <1>7, <1>8, <1>10, <1>11 DEF SeedingInv

-----------------------------------------------------------------------------
(* The steps                                                               *)

\* A look-up of rows of which some are not there.
LEMMA MissKeeps ==
  ASSUME SeedingInv, NEW s \in Seeders, seeder[s].phase # 0, UNCHANGED <<row, unseeding, shaken>>,
         NEW missing, missing = {x \in Wanted(s) : ~Exists(x) /\ Present(x)},
         seeder' = [seeder EXCEPT ![s].missing = missing]
  PROVE  SeedingInv'
<1>1. /\ seeder[s].phase \in Phases /\ Wanted(s) \subseteq Rows
      /\ seeder \in [Seeders -> Place]
  BY AtPlace DEF SeedingInv, SeedingTypeOK, Place
<1>2. /\ seeder' \in [Seeders -> Place] /\ seeder'[s].missing = missing
      /\ \A t \in Seeders : /\ seeder'[t].phase = seeder[t].phase
                            /\ seeder'[t].next = seeder[t].next
                            /\ t # s => seeder'[t] = seeder[t]
  BY <1>1 DEF Place
<1>3. \A x \in Rows : Exists(x)' <=> Exists(x)
  BY DEF Exists
<1>4. \A p \in Phases : Complete(p)' <=> Complete(p)
  BY DEF Complete, Exists
<1>5. (SeedingTypeOK /\ RolesFirst)'
  BY <1>2 DEF SeedingInv, SeedingTypeOK, RolesFirst, Place
<1>6. OnScript'
  <2>1. ASSUME NEW t \in Seeders
        PROVE  IF seeder'[t].phase = 0 THEN seeder'[t] = Idle
               ELSE /\ seeder'[t].next \in 1 .. Len(Script[seeder'[t].phase])
                    /\ seeder'[t].missing \subseteq Script[seeder'[t].phase][seeder'[t].next]
    BY <1>2 DEF SeedingInv, OnScript, Wanted
  <2> QED
    BY <2>1 DEF OnScript, Wanted
<1>7. PassedIsThere'
  BY <1>2 DEF SeedingInv, PassedIsThere, Done, Exists
<1>8. MissedIsAll'
  <2>1. ASSUME NEW t \in Seeders, seeder'[t].phase \in Phases \ shaken, seeder'[t].missing # {}
        PROVE  /\ \A x \in seeder'[t].missing : Present(x)
               /\ \A x \in Wanted(t) \ seeder'[t].missing : Exists(x)
    <3>1. CASE t = s
      <4>1. \A x \in Wanted(s) : Present(x)
        BY <1>2, <2>1, <3>1, WantedIsPresent
      <4> QED
        BY <1>2, <3>1, <4>1
    <3>2. CASE t # s
      BY <1>2, <2>1, <3>2 DEF SeedingInv, MissedIsAll
    <3> QED
      BY <3>1, <3>2
  <2>2. \A t \in Seeders : Wanted(t)' = Wanted(t)
    BY <1>2 DEF Wanted
  <2> QED
    BY <2>1, <2>2 DEF MissedIsAll, Present, Exists
<1>9. (RolesAreThere /\ SomeoneOwes)'
  BY <1>2, <1>4, FourPhases DEF SeedingInv, RolesAreThere, SomeoneOwes
<1>10. LoserIsBehind'
  <2>1. ASSUME NEW t \in Seeders, NEW p \in {3, 4} \ shaken, p = seeder[t].phase,
               NEW x \in seeder'[t].missing, Exists(x)
        PROVE  \/ Complete(p)
               \/ \E r \in Seeders : seeder'[r].phase = p /\ seeder'[r].next > seeder'[t].next
    <3>1. t # s
      BY <1>2, <2>1
    <3> QED
      BY <1>2, <2>1, <3>1 DEF SeedingInv, LoserIsBehind
  <2> QED
    BY <1>2, <2>1 DEF LoserIsBehind, Complete, Exists
<1> QED
  BY <1>5, <1>6, <1>7, <1>8, <1>9, <1>10 DEF SeedingInv

\* The first seeding after a rest owes every row that can be created, the others
\* what was owed.
LEMMA StartKeeps ==
  ASSUME SeedingInv, NEW s \in Seeders, Start(s)
  PROVE  SeedingInv'
<1>1. /\ seeder[s] = Idle /\ UNCHANGED <<row, unseeding>>
      /\ seeder' = [seeder EXCEPT ![s].phase = 1]
      /\ shaken' = shaken \/ (Quiet /\ shaken' = Barred)
  BY DEF Start
<1>2. seeder \in [Seeders -> Place]
  BY DEF SeedingInv, SeedingTypeOK, Place
<1>3. /\ seeder' \in [Seeders -> Place] /\ seeder'[s].phase = 1 /\ seeder'[s].next = 1
      /\ seeder'[s].missing = {}
      /\ \A t \in Seeders \ {s} : seeder'[t] = seeder[t]
  BY <1>1, <1>2 DEF Place, Idle
<1>4. \A p \in Phases : Complete(p)' <=> Complete(p)
  BY <1>1 DEF Complete, Exists
<1>5. (SeedingTypeOK /\ RolesFirst)'
  BY <1>1, <1>3, BarredFacts DEF SeedingInv, SeedingTypeOK, RolesFirst, Place
<1>6. OnScript'
  <2>1. ASSUME NEW t \in Seeders \ {s}
        PROVE  IF seeder'[t].phase = 0 THEN seeder'[t] = Idle
               ELSE /\ seeder'[t].next \in 1 .. Len(Script[seeder'[t].phase])
                    /\ seeder'[t].missing \subseteq Script[seeder'[t].phase][seeder'[t].next]
    BY <1>3 DEF SeedingInv, OnScript, Wanted
  <2>2. 1 \in 1 .. Len(Script[1])
    BY RolePlaces
  <2> QED
    BY <1>3, <2>1, <2>2 DEF OnScript, Wanted
\* A seeding other than s is where it was, and owes what it owed or rests.
<1>7. ASSUME NEW t \in Seeders, seeder'[t].phase # 0
      PROVE  t = s \/ (seeder'[t] = seeder[t] /\ shaken' = shaken)
  BY <1>1, <1>3, <1>7 DEF Quiet, Idle
<1>8. PassedIsThere'
  <2>1. ASSUME NEW t \in Seeders, NEW p \in Phases \ shaken', p = seeder'[t].phase,
               NEW i \in 1 .. seeder'[t].next - 1
        PROVE  Done(p, i)
    <3>1. p # 0
      BY FourPhases
    <3>2. t # s
      BY <1>3
    <3> QED
      BY <1>7, <2>1, <3>1, <3>2 DEF SeedingInv, PassedIsThere
  <2> QED
    BY <1>1, <2>1 DEF PassedIsThere, Done, Exists
<1>9. MissedIsAll'
  <2>1. ASSUME NEW t \in Seeders, seeder'[t].phase \in Phases \ shaken', seeder'[t].missing # {}
        PROVE  /\ \A x \in seeder'[t].missing : Present(x)
               /\ \A x \in Wanted(t)' \ seeder'[t].missing : Exists(x)
    <3>1. seeder'[t].phase # 0
      BY <2>1, FourPhases
    <3>2. seeder'[t] = seeder[t] /\ shaken' = shaken
      BY <1>3, <1>7, <2>1, <3>1
    <3>3. Wanted(t)' = Wanted(t)
      BY <3>2 DEF Wanted
    <3> QED
      BY <2>1, <3>2, <3>3 DEF SeedingInv, MissedIsAll
  <2> QED
    BY <1>1, <2>1 DEF MissedIsAll, Present, Exists
<1>10. RolesAreThere'
  <2>1. ASSUME NEW t \in Seeders, NEW p \in {1, 2} \ shaken', seeder'[t].phase > p
        PROVE  Complete(p)
    <3>1. seeder'[t].phase # 0 /\ t # s
      BY <1>3, <2>1
    <3> QED
      BY <1>7, <2>1, <3>1 DEF SeedingInv, RolesAreThere
  <2> QED
    BY <1>1, <2>1 DEF RolesAreThere, Complete, Exists
<1>11. SomeoneOwes'
  <2>1. ASSUME NEW p \in Phases PROVE seeder'[s].phase \in 1 .. p
    BY <1>3, FourPhases
  <2> QED
    BY <2>1 DEF SomeoneOwes
<1>12. LoserIsBehind'
  <2>1. ASSUME NEW t \in Seeders, NEW p \in {3, 4} \ shaken', p = seeder'[t].phase,
               NEW x \in seeder'[t].missing, Exists(x)
        PROVE  \/ Complete(p)
               \/ \E r \in Seeders : seeder'[r].phase = p /\ seeder'[r].next > seeder'[t].next
    <3>1. t # s /\ seeder'[t] = seeder[t] /\ shaken' = shaken
      BY <1>3, <1>7, <2>1
    <3>2. \/ Complete(p)
          \/ \E r \in Seeders : seeder[r].phase = p /\ seeder[r].next > seeder[t].next
      BY <2>1, <3>1 DEF SeedingInv, LoserIsBehind
    <3>3. \A r \in Seeders : seeder[r].phase = p => r # s
      BY <1>1 DEF Idle
    <3> QED
      BY <1>3, <3>1, <3>2, <3>3
  <2> QED
    BY <1>1, <2>1 DEF LoserIsBehind, Complete, Exists
<1> QED
  BY <1>5, <1>6, <1>8, <1>9, <1>10, <1>11, <1>12 DEF SeedingInv

\* The unseeding and the administrators make rows come and go, of phases that
\* are owed no longer.
LEMMA DisturbKeeps ==
  ASSUME SeedingInv, UNCHANGED seeder, unseeding' \in 0 .. 3,
         shaken \subseteq shaken', shaken' \subseteq Phases, RolesFirst',
         row' \in [Rows -> {"absent", "seeded", "chosen", "deleted"}],
         \A p \in Phases \ shaken' : \A x \in RowsOf(p) : Exists(x)' <=> Exists(x)
  PROVE  SeedingInv'
<1>1. \A p \in Phases \ shaken' : Complete(p)' <=> Complete(p)
  BY DEF Complete
<1>2. (SeedingTypeOK /\ OnScript)'
  BY DEF SeedingInv, SeedingTypeOK, OnScript, Wanted
<1>3. PassedIsThere'
  <2>1. ASSUME NEW t \in Seeders, NEW p \in Phases \ shaken', p = seeder[t].phase,
               NEW i \in 1 .. seeder[t].next - 1, NEW x \in Script[p][i]
        PROVE  Exists(x)'
    <3>1. Exists(x)
      BY <2>1 DEF SeedingInv, PassedIsThere, Done
    <3>2. i \in 1 .. Len(Script[p])
      <4>1. p \in Phases /\ seeder[t].phase # 0
        BY <2>1, FourPhases
      <4>2. seeder[t].next \in 1 .. Len(Script[p])
        BY <2>1, <4>1, AtPlace
      <4>3. Len(Script[p]) \in Nat
        BY <4>1, Places
      <4> QED
        BY <4>2, <4>3
    <3>3. x \in RowsOf(p)
      BY <3>2, Places
    <3> QED
      BY <3>1, <3>3
  <2> QED
    BY <2>1 DEF PassedIsThere, Done
<1>4. ASSUME NEW t \in Seeders, NEW p \in Phases \ shaken', p = seeder[t].phase,
             NEW x \in Wanted(t)
      PROVE  x \in RowsOf(p) /\ (Exists(x)' <=> Exists(x))
  BY <1>4, AtPlace, FourPhases
<1>5. MissedIsAll'
  <2>1. ASSUME NEW t \in Seeders, NEW p \in Phases \ shaken', p = seeder[t].phase,
               seeder[t].missing # {}
        PROVE  /\ \A x \in seeder[t].missing : Present(x)'
               /\ \A x \in Wanted(t) \ seeder[t].missing : Exists(x)'
    <3>1. seeder[t].missing \subseteq Wanted(t)
      BY <2>1, AtPlace, FourPhases
    <3>2. /\ \A x \in Wanted(t) \ seeder[t].missing : Exists(x)
          /\ \A x \in seeder[t].missing : Present(x)
      BY <2>1 DEF SeedingInv, MissedIsAll
    <3>3. ASSUME NEW x \in seeder[t].missing, x \in Grants
          PROVE  Exists(x[1])' /\ Exists(x[2])'
      <4>1. p = 3 /\ 1 \notin shaken' /\ 2 \notin shaken'
        BY <1>4, <2>1, <3>1, <3>3, FourPhases, Tables DEF RolesFirst
      <4>2. /\ x[1] \in RowsOf(1) \/ x[1] \in RowsOf(2)
            /\ x[2] \in RowsOf(3)
        BY <3>3, GrantEnds, RolePlaces, Tables DEF Roles
      <4>3. Exists(x[1]) /\ Exists(x[2])
        BY <3>2, <3>3 DEF Present
      <4>4. \A y \in RowsOf(1) \cup RowsOf(2) \cup RowsOf(3) : Exists(y) => Exists(y)'
        BY <2>1, <4>1, FourPhases
      <4> QED
        BY <4>2, <4>3, <4>4
    <3>4. \A x \in Wanted(t) \ seeder[t].missing : Exists(x)'
      BY <1>4, <2>1, <3>2
    <3> QED
      BY <3>3, <3>4 DEF Present
  <2>2. \A t \in Seeders : Wanted(t)' = Wanted(t)
    BY DEF Wanted
  <2> QED
    BY <2>1, <2>2 DEF MissedIsAll
<1>6. RolesAreThere'
  <2>1. ASSUME NEW t \in Seeders, NEW p \in {1, 2} \ shaken', seeder[t].phase > p
        PROVE  Complete(p)'
    <3>1. p \in Phases \ shaken' /\ p \in {1, 2} \ shaken
      BY FourPhases
    <3> QED
      BY <1>1, <2>1, <3>1 DEF SeedingInv, RolesAreThere
  <2> QED
    BY <2>1 DEF RolesAreThere
<1>7. SomeoneOwes'
  BY <1>1 DEF SeedingInv, SomeoneOwes
<1>8. LoserIsBehind'
  <2>1. ASSUME NEW t \in Seeders, NEW p \in {3, 4} \ shaken', p = seeder[t].phase,
               NEW x \in seeder[t].missing, Exists(x)'
        PROVE  \/ Complete(p)'
               \/ \E r \in Seeders : seeder[r].phase = p /\ seeder[r].next > seeder[t].next
    <3>1. p \in Phases \ shaken' /\ p \in {3, 4} \ shaken
      BY FourPhases
    <3>2. x \in Wanted(t)
      BY <2>1, AtPlace
    <3>3. Exists(x)
      BY <1>4, <2>1, <3>1, <3>2
    <3> QED
      BY <1>1, <2>1, <3>1, <3>3 DEF SeedingInv, LoserIsBehind
  <2> QED
    BY <2>1 DEF LoserIsBehind, Complete
<1> QED
  BY <1>2, <1>3, <1>5, <1>6, <1>7, <1>8 DEF SeedingInv

\* Keys of rows that are owed come to be used only by the creation of the row.
LEMMA KeysKeep ==
  ASSUME KeysAreFree, shaken \subseteq shaken',
         \A p \in Phases \ shaken' : \A x \in RowsOf(p) :
            (Exists(x) => Exists(x)') /\ (x \in held' => x \in held \/ Exists(x)'),
         4 \notin shaken' => /\ Exists(SystemRole)' => Exists(SystemRole) \/ SystemRole \in held'
                             /\ SystemRole \in held => SystemRole \in held'
  PROVE  KeysAreFree'
<1>1. ASSUME NEW p \in Phases \ shaken', NEW x \in RowsOf(p)
      PROVE  x \in held' => Exists(x)'
  BY <1>1 DEF KeysAreFree, Blocked
<1>2. 4 \notin shaken' /\ Exists(SystemRole)' => SystemRole \in held'
  BY DEF KeysAreFree
<1> QED
  BY <1>1, <1>2 DEF KeysAreFree, Blocked

LEMMA OutdatedKeeps ==
  ASSUME StaleIsShaken, UNCHANGED seeder, shaken \subseteq shaken',
         stale' = stale \/ (stale' = Outdated /\ 3 \in shaken')
  PROVE  StaleIsShaken'
<1>1. stale' \subseteq Seeders
  BY DEF StaleIsShaken, Outdated
<1>2. ASSUME NEW s \in stale' PROVE seeder[s].phase = 3 /\ 3 \in shaken'
  BY <1>2 DEF StaleIsShaken, Outdated
<1> QED
  BY <1>1, <1>2 DEF StaleIsShaken

LEMMA StillStaleKeeps ==
  ASSUME StaleIsShaken, shaken \subseteq shaken', stale' = StillStale
  PROVE  StaleIsShaken'
  BY DEF StaleIsShaken, StillStale

\* A removal leaves what it does not name.
LEMMA RemovedFacts ==
  ASSUME SeedingTypeOK, NEW X, NEW gone \in {"absent", "deleted"}, row' = Removed(X, gone)
  PROVE  /\ row' \in [Rows -> {"absent", "seeded", "chosen", "deleted"}]
         /\ \A x \in Rows : x \notin X \/ gone = "deleted" => (Exists(x)' <=> Exists(x))
<1>1. \A x \in Rows : row'[x] = IF x \in X /\ Exists(x) THEN gone ELSE row[x]
  BY DEF Removed
<1>2. \A x \in Rows : row[x] \in {"absent", "seeded", "chosen", "deleted"}
  BY DEF SeedingTypeOK
<1>3. row' \in [Rows -> {"absent", "seeded", "chosen", "deleted"}]
  BY <1>2 DEF Removed
<1> QED
  BY <1>1, <1>3 DEF Exists

LEMMA UnseedKeeps ==
  ASSUME SeedingIInv, Unseed
  PROVE  SeedingIInv'
<1>1. /\ UNCHANGED seeder /\ shaken' = shaken \cup {3} /\ unseeding' = (unseeding + 1) % 4
      /\ unseeding \in 0 .. 3 /\ stale' = Outdated
      /\ row \in [Rows -> {"absent", "seeded", "chosen", "deleted"}] /\ SeedingTypeOK
      /\ shaken \subseteq Phases /\ SeedingInv /\ KeysAreFree
  BY DEF Unseed, SeedingIInv, SeedingInv, SeedingTypeOK
<1>2. /\ unseeding' \in 0 .. 3 /\ shaken \subseteq shaken' /\ shaken' \subseteq Phases
      /\ 3 \in shaken' /\ RolesFirst'
  BY <1>1, FourPhases DEF SeedingInv, RolesFirst
<1>3. WithGrants(Menus) \subseteq Menus \cup Grants
  BY DEF WithGrants, GrantsOf
<1>4. \/ row' = row
      \/ row' = Removed(Grants, "absent") \/ row' = Removed(WithGrants(Menus), "absent")
      \/ row' = Removed(Users, "deleted") \/ row' = Removed(Roles, "deleted")
  <2>1. unseeding + 1 \in 1 .. 4
    BY <1>1
  <2> DEFINE c == << Removed(Grants, "absent"), Removed(WithGrants(Menus), "absent"),
                    Removed(Users, "deleted"), Removed(Roles, "deleted") >>
  <2>2. UNCHANGED row \/ row' = c[unseeding + 1]
    BY DEF Unseed
  <2>3. \A i \in 1 .. 4 : c[i] = c[1] \/ c[i] = c[2] \/ c[i] = c[3] \/ c[i] = c[4]
    OBVIOUS
  <2> QED
    BY <2>1, <2>2, <2>3
<1>5. /\ row' \in [Rows -> {"absent", "seeded", "chosen", "deleted"}]
      /\ \A x \in Rows \ (Menus \cup Grants) : Exists(x)' <=> Exists(x)
  <2>1. CASE row' = row
    BY <1>1, <2>1 DEF Exists
  <2>2. CASE row' = Removed(Grants, "absent") \/ row' = Removed(WithGrants(Menus), "absent")
    BY <1>1, <1>3, <2>2, RemovedFacts
  <2>3. CASE row' = Removed(Users, "deleted") \/ row' = Removed(Roles, "deleted")
    BY <1>1, <2>3, RemovedFacts
  <2> QED
    BY <1>4, <2>1, <2>2, <2>3
<1>6. \A p \in Phases \ shaken' : \A x \in RowsOf(p) : Exists(x)' <=> Exists(x)
  BY <1>2, <1>5, FourPhases, Tables
<1>7. /\ held' \subseteq held /\ (SystemRole \in held => SystemRole \in held')
      /\ Exists(SystemRole)' => Exists(SystemRole)
  <2>1. SystemRole \in Rows /\ SystemRole \notin Menus /\ SystemRole \notin Grants
    BY SeedingAssumption DEF Roles, Rows
  <2>2. held' = held \ Menus \/ held' = held
    BY DEF Unseed
  <2> QED
    BY <1>5, <2>1, <2>2
<1>8. SeedingInv'
  BY <1>1, <1>2, <1>5, <1>6, DisturbKeeps
<1>9. KeysAreFree'
  BY <1>1, <1>2, <1>6, <1>7, KeysKeep
<1>10. StaleIsShaken'
  BY <1>1, <1>2, OutdatedKeeps DEF SeedingIInv
<1> QED
  BY <1>8, <1>9, <1>10 DEF SeedingIInv

\* An administrator adds and removes a row and its permissions.
LEMMA NameFacts ==
  ASSUME SeedingTypeOK, NEW x \in Roles \cup Menus \cup Users,
         Rename(x) \/ TakeName(x) \/ DeleteMenu(x)
  PROVE  /\ row' \in [Rows -> {"absent", "seeded", "chosen", "deleted"}]
         /\ \A y \in Rows \ {x} : y \notin GrantsOf(x) => row'[y] = row[y]
         /\ \A y : y # x => (y \in held' <=> y \in held)
<1>1. row \in [Rows -> {"absent", "seeded", "chosen", "deleted"}]
  BY DEF SeedingTypeOK
<1>2. \A y : y \in WithGrants({x}) <=> y = x \/ y \in GrantsOf(x)
  BY DEF WithGrants
<1>3. ASSUME row' = Removed(WithGrants({x}), "absent")
      PROVE  /\ row' \in [Rows -> {"absent", "seeded", "chosen", "deleted"}]
             /\ \A y \in Rows \ {x} : y \notin GrantsOf(x) => row'[y] = row[y]
  BY <1>1, <1>2, <1>3 DEF Removed
<1>4. CASE Rename(x)
  BY <1>3, <1>4 DEF Rename
<1>5. CASE DeleteMenu(x)
  <2>1. row' = row \/ row' = Removed(WithGrants({x}), "absent")
    BY <1>5 DEF DeleteMenu
  <2>2. held' = held \/ held' = held \ {x}
    BY <1>5 DEF DeleteMenu
  <2> QED
    BY <1>1, <1>3, <2>1, <2>2
<1>6. CASE TakeName(x)
  <2>1. PICK origin \in {"chosen", "seeded"}, brought \in SUBSET GrantsOf(x) :
          row' = [y \in Rows |-> IF y = x THEN origin
                                 ELSE IF y \in brought THEN "chosen" ELSE row[y]]
    BY <1>6 DEF TakeName
  <2>2. held' = held \cup ({x} \cap Users)
    BY <1>6 DEF TakeName
  <2> QED
    BY <1>1, <2>1, <2>2
<1> QED
  BY <1>4, <1>5, <1>6

LEMMA AdministerKeeps ==
  ASSUME SeedingIInv, Administer
  PROVE  SeedingIInv'
<1>1. /\ UNCHANGED <<seeder, unseeding>> /\ unseeding \in 0 .. 3 /\ shaken \subseteq Phases
      /\ row \in [Rows -> {"absent", "seeded", "chosen", "deleted"}] /\ SeedingTypeOK
      /\ SeedingInv /\ KeysAreFree /\ StaleIsShaken
  BY DEF Administer, SeedingIInv, SeedingInv, SeedingTypeOK
\* It is enough that what changes belongs to phases that are owed no longer.
<1>2. ASSUME shaken \subseteq shaken', shaken' \subseteq Phases, RolesFirst',
             row' \in [Rows -> {"absent", "seeded", "chosen", "deleted"}],
             \A p \in Phases \ shaken' : \A x \in RowsOf(p) :
               (Exists(x)' <=> Exists(x)) /\ (x \in held' => x \in held),
             4 \notin shaken' => /\ Exists(SystemRole)' => Exists(SystemRole)
                                 /\ SystemRole \in held => SystemRole \in held',
             stale' = stale \/ (stale' = Outdated /\ 3 \in shaken')
      PROVE  SeedingIInv'
  <2>1. unseeding' \in 0 .. 3 /\ UNCHANGED seeder
    BY <1>1
  <2>2. SeedingInv'
    BY <1>1, <1>2, <2>1, DisturbKeeps
  <2>3. KeysAreFree'
    BY <1>1, <1>2, KeysKeep
  <2>4. StaleIsShaken'
    BY <1>1, <1>2, OutdatedKeeps DEF StaleIsShaken
  <2> QED
    BY <2>2, <2>3, <2>4 DEF SeedingIInv
<1>3. SystemRole \in Rows /\ SystemRole \in Roles /\ SystemRole \in RowsOf(1) /\ 1 \in Phases
  BY SeedingAssumption, RolePlaces, FourPhases DEF Roles, Rows
<1>4. /\ Roles \cap (Menus \cup Users \cup Grants) = {}
      /\ Menus \cap (Users \cup Grants) = {} /\ Users \cap Grants = {}
  BY SeedingAssumption
<1>5. CASE AdministerGrants
  <2>1. PICK g \in Grants : AssignMenuToRole(g) \/ RemoveMenuFromRole(g)
    BY <1>5 DEF AdministerGrants
  <2>2. shaken' = shaken \cup {3} /\ UNCHANGED <<held, stale>>
    BY <1>5, <2>1 DEF AdministerGrants, AssignMenuToRole, RemoveMenuFromRole
  <2>3. shaken \subseteq shaken' /\ shaken' \subseteq Phases /\ RolesFirst'
    BY <1>1, <2>2, FourPhases DEF SeedingInv, RolesFirst
  <2>4. /\ row' \in [Rows -> {"absent", "seeded", "chosen", "deleted"}]
        /\ \A x \in Rows \ {g} : Exists(x)' <=> Exists(x)
    <3>1. CASE AssignMenuToRole(g)
      BY <1>1, <3>1 DEF AssignMenuToRole, Exists
    <3>2. CASE RemoveMenuFromRole(g)
      <4>1. row' = Removed({g}, "absent")
        BY <3>2 DEF RemoveMenuFromRole
      <4> QED
        BY <1>1, <4>1, RemovedFacts
    <3> QED
      BY <2>1, <3>1, <3>2
  <2>5. \A p \in Phases \ shaken' : \A x \in RowsOf(p) : x \in Rows \ {g}
    BY <2>2, FourPhases, Tables
  <2>6. SystemRole \in Rows \ {g}
    BY <1>3, <1>4
  <2> QED
    BY <1>2, <2>2, <2>3, <2>4, <2>5, <2>6
<1>6. CASE AdministerUsers
  <2>1. PICK user \in Users : TakeName(user) \/ TakeUsername(user)
    BY <1>6 DEF AdministerUsers
  <2>2. shaken' = shaken \cup {4} /\ stale' = stale
    BY <1>6 DEF AdministerUsers
  <2>3. /\ shaken \subseteq shaken' /\ shaken' \subseteq Phases /\ RolesFirst' /\ 4 \in shaken'
    BY <1>1, <2>2, FourPhases DEF SeedingInv, RolesFirst
  <2>4. /\ row' \in [Rows -> {"absent", "seeded", "chosen", "deleted"}]
        /\ \A x \in Rows \ {user} : row'[x] = row[x]
        /\ \A x : x # user => (x \in held' <=> x \in held)
    <3>1. CASE TakeName(user)
      <4>1. GrantsOf(user) = {}
        BY <1>4, GrantEnds DEF GrantsOf
      <4> QED
        BY <1>1, <3>1, <4>1, NameFacts
    <3>2. CASE TakeUsername(user)
      BY <1>1, <3>2 DEF TakeUsername
    <3> QED
      BY <2>1, <3>1, <3>2
  <2>5. \A p \in Phases \ shaken' : \A x \in RowsOf(p) : x \in Rows \ {user}
    BY <2>3, FourPhases, Tables
  <2>6. \A p \in Phases \ shaken' : \A x \in RowsOf(p) :
          (Exists(x)' <=> Exists(x)) /\ (x \in held' => x \in held)
    BY <2>4, <2>5 DEF Exists
  <2> QED
    BY <1>2, <2>2, <2>3, <2>4, <2>6
<1>7. CASE AdministerNames
  <2>1. PICK x \in Roles \cup Menus :
          /\ Rename(x) \/ TakeName(x) \/ DeleteMenu(x)
          /\ shaken' = shaken \cup Touched(x)
    BY <1>7 DEF AdministerNames
  <2>2. stale' = Outdated
    BY <1>7 DEF AdministerNames
  <2>3. /\ Touched(x) \subseteq Phases /\ 3 \in Touched(x)
        /\ Touched(x) \cap {1, 2} # {} => {3, 4} \subseteq Touched(x)
        /\ \A p \in Phases : x \in RowsOf(p) => p \in Touched(x)
    BY TouchedFacts
  <2>4. /\ shaken \subseteq shaken' /\ shaken' \subseteq Phases /\ RolesFirst' /\ 3 \in shaken'
    BY <1>1, <2>1, <2>3 DEF SeedingInv, RolesFirst
  <2>5. /\ row' \in [Rows -> {"absent", "seeded", "chosen", "deleted"}]
        /\ \A y \in Rows \ {x} : y \notin GrantsOf(x) => row'[y] = row[y]
        /\ \A y : y # x => (y \in held' <=> y \in held)
    BY <1>1, <2>1, NameFacts
  <2>6. GrantsOf(x) \subseteq Grants
    BY DEF GrantsOf
  <2>7. ASSUME NEW p \in Phases \ shaken', NEW y \in RowsOf(p)
        PROVE  y \in Rows \ {x} /\ y \notin Grants
    BY <2>1, <2>3, <2>4, <2>7, FourPhases, Tables
  <2>8. \A p \in Phases \ shaken' : \A y \in RowsOf(p) :
          (Exists(y)' <=> Exists(y)) /\ (y \in held' => y \in held)
    BY <2>5, <2>6, <2>7 DEF Exists
  <2>9. 4 \notin shaken' => SystemRole # x
    BY <1>3, <2>1, <2>3
  <2>10. 4 \notin shaken' => /\ Exists(SystemRole)' => Exists(SystemRole)
                             /\ SystemRole \in held => SystemRole \in held'
    BY <1>3, <1>4, <2>5, <2>6, <2>9 DEF Exists
  <2> QED
    BY <1>2, <2>2, <2>4, <2>5, <2>8, <2>10
<1>8. ASSUME NEW role \in Roles, DeleteRole(role), UNCHANGED <<stale, shaken>>
      PROVE  SeedingIInv'
  <2>1. row' = Removed({role}, "deleted") /\ held' = held
    BY <1>8 DEF DeleteRole
  <2>2. /\ row' \in [Rows -> {"absent", "seeded", "chosen", "deleted"}]
        /\ \A x \in Rows : Exists(x)' <=> Exists(x)
    BY <1>1, <2>1, RemovedFacts
  <2>3. RolesFirst'
    BY <1>1, <1>8 DEF SeedingInv, RolesFirst
  <2>4. \A p \in Phases : \A x \in RowsOf(p) : x \in Rows
    BY Tables
  <2> QED
    BY <1>1, <1>2, <1>3, <1>8, <2>1, <2>2, <2>3, <2>4
<1> QED
  BY <1>5, <1>6, <1>7, <1>8 DEF Administer

\* Rows that nobody touches have grown by nothing.
LEMMA NoGrowth ==
  ASSUME SeedingInv, NEW s \in Seeders, UNCHANGED row
  PROVE  Grows(s)
  BY DEF SeedingInv, SeedingTypeOK, Grows, Exists

LEMMA LeaveMoves ==
  ASSUME SeedingInv, NEW s \in Seeders, seeder[s].phase # 0, Leave(s)
  PROVE  /\ MovesTo(s, [phase |-> Following(seeder[s].phase), next |-> 1, missing |-> {}])
         /\ Following(seeder[s].phase) \in 0 .. 4
         /\ IF seeder[s].phase = 4 THEN Following(seeder[s].phase) = 0
            ELSE Following(seeder[s].phase) = seeder[s].phase + 1
         /\ seeder[s].phase \in 1 .. 4
<1>1. seeder[s].phase \in 1 .. 4 /\ seeder \in [Seeders -> Place]
  BY AtPlace, FourPhases DEF SeedingInv, SeedingTypeOK, Place
<1> DEFINE q == Following(seeder[s].phase)
<1>2. /\ q \in 0 .. 4
      /\ IF seeder[s].phase = 4 THEN q = 0 ELSE q = seeder[s].phase + 1
  BY <1>1, FourPhases DEF Following
<1>3. seeder' = [seeder EXCEPT ![s] = [phase |-> q, next |-> 1, missing |-> {}]]
  <2>1. \A p : [Idle EXCEPT !.phase = p] = [phase |-> p, next |-> 1, missing |-> {}]
    BY DEF Idle
  <2> QED
    BY <2>1 DEF Leave
<1> HIDE DEF q
<1>4. MovesTo(s, [phase |-> q, next |-> 1, missing |-> {}])
  BY <1>1, <1>2, <1>3 DEF MovesTo, Place
<1> QED
  BY <1>1, <1>2, <1>4 DEF q

\* A seeding that has found or created what it looks up goes on.
LEMMA AdvanceKeeps ==
  ASSUME SeedingInv, NEW s \in Seeders, seeder[s].phase # 0, Grows(s),
         UNCHANGED <<unseeding, shaken>>, Advance(s),
         seeder[s].phase \notin shaken => \A x \in Wanted(s) : Exists(x)'
  PROVE  SeedingInv'
<1>1. CASE seeder[s].next # Len(Script[seeder[s].phase])
  <2>1. seeder \in [Seeders -> Place] /\ seeder[s].phase \in 0 .. 4
    BY DEF SeedingInv, SeedingTypeOK, Place
  <2>2. /\ seeder[s].next + 1 \in Nat
        /\ seeder' = [seeder EXCEPT ![s].next = seeder[s].next + 1, ![s].missing = {}]
    BY <1>1, <2>1 DEF Advance, Place
  <2>3. MovesTo(s, [phase |-> seeder[s].phase, next |-> seeder[s].next + 1, missing |-> {}])
    BY <2>1, <2>2 DEF MovesTo, Place
  <2> QED
    BY <1>1, <2>3, ForwardKeeps
<1>2. CASE seeder[s].next = Len(Script[seeder[s].phase])
  <2>1. Leave(s)
    BY <1>2 DEF Advance
  <2> DEFINE q == Following(seeder[s].phase)
  <2>2. /\ MovesTo(s, [phase |-> q, next |-> 1, missing |-> {}]) /\ q \in 0 .. 4
        /\ IF seeder[s].phase = 4 THEN q = 0 ELSE q = seeder[s].phase + 1
        /\ seeder[s].phase \in 1 .. 4 /\ RolesFirst' /\ shaken \subseteq Phases
    BY <2>1, LeaveMoves DEF SeedingInv, RolesFirst, SeedingTypeOK
  <2> HIDE DEF q
  <2>3. ASSUME NEW p \in Phases \ shaken, p = seeder[s].phase PROVE Complete(p)'
    <3>1. ASSUME NEW x \in RowsOf(p) PROVE Exists(x)'
      <4>1. PICK i \in 1 .. Len(Script[p]) : x \in Script[p][i]
        BY <2>2, Places
      <4>2. CASE i = seeder[s].next
        BY <2>3, <4>1, <4>2 DEF Wanted
      <4>3. CASE i # seeder[s].next
        <5>1. i \in 1 .. seeder[s].next - 1
          BY <1>2, <2>2, <2>3, <4>3, Places
        <5>2. Exists(x)
          BY <2>3, <4>1, <5>1 DEF SeedingInv, PassedIsThere, Done
        <5> QED
          BY <2>2, <5>2, GrowthKeeps
      <4> QED
        BY <4>2, <4>3
    <3> QED
      BY <3>1 DEF Complete
  <2>4. ASSUME NEW p \in Phases \ shaken, p >= seeder[s].phase
        PROVE  q \in 1 .. p \/ (p = seeder[s].phase /\ Complete(p)')
    BY <2>2, <2>3, <2>4, FourPhases
  <2> QED
    BY <2>2, <2>4, EndKeeps
<1> QED
  BY <1>1, <1>2

\* A step of a seeding that creates nothing.
LEMMA RestKeeps ==
  ASSUME SeedingIInv, SeedingInv', UNCHANGED <<row, held>>, shaken \subseteq shaken',
         stale' = StillStale
  PROVE  SeedingIInv'
<1>1. KeysAreFree'
  BY DEF SeedingIInv, KeysAreFree, Blocked, Exists
<1>2. StaleIsShaken'
  BY StillStaleKeeps DEF SeedingIInv
<1> QED
  BY <1>1, <1>2 DEF SeedingIInv

\* A start owes only what can be created.
LEMMA StartKeepsAll ==
  ASSUME SeedingIInv, NEW s \in Seeders, Start(s)
  PROVE  SeedingIInv'
<1>1. /\ seeder[s] = Idle /\ UNCHANGED <<row, held, stale>>
      /\ seeder' = [seeder EXCEPT ![s].phase = 1]
      /\ shaken' = shaken \/ (Quiet /\ shaken' = Barred)
      /\ SeedingInv /\ KeysAreFree /\ StaleIsShaken /\ seeder \in [Seeders -> Place]
  BY DEF Start, SeedingIInv, SeedingInv, SeedingTypeOK
<1>2. SeedingInv'
  BY <1>1, StartKeeps
<1>3. KeysAreFree'
  <2>1. /\ \A x : Exists(x)' <=> Exists(x)
        /\ \A x : Blocked(x)' <=> Blocked(x)
    BY <1>1 DEF Exists, Blocked
  <2>2. CASE shaken' = shaken
    BY <1>1, <2>1, <2>2 DEF KeysAreFree
  <2>3. CASE shaken' = Barred
    BY <1>1, <2>1, <2>3, BarredFacts DEF KeysAreFree
  <2> QED
    BY <1>1, <2>2, <2>3
<1>4. StaleIsShaken'
  <2>1. ASSUME NEW t \in stale PROVE seeder'[t].phase = 3 /\ 3 \in shaken'
    <3>1. t \in Seeders /\ seeder[t].phase = 3 /\ 3 \in shaken
      BY <1>1 DEF StaleIsShaken
    <3>2. t # s /\ ~Quiet
      BY <1>1, <3>1 DEF Idle, Quiet
    <3> QED
      BY <1>1, <3>1, <3>2
  <2> QED
    BY <1>1, <2>1 DEF StaleIsShaken
<1> QED
  BY <1>2, <1>3, <1>4 DEF SeedingIInv

LEMMA LookKeeps ==
  ASSUME SeedingIInv, NEW s \in Seeders, Look(s)
  PROVE  SeedingIInv'
<1> DEFINE missing == {x \in Wanted(s) : ~Exists(x) /\ Present(x)}
<1>1. /\ seeder[s].phase # 0 /\ UNCHANGED <<row, held, unseeding, shaken>>
      /\ stale' = StillStale /\ SeedingInv
  BY DEF Look, SeedingIInv
<1>2. CASE missing = {}
  <2>1. Advance(s)
    BY <1>2 DEF Look, OnFound
  <2>2. ASSUME seeder[s].phase \notin shaken, NEW x \in Wanted(s) PROVE Exists(x)'
    <3>1. Present(x)
      BY <1>1, <2>2, AtPlace, WantedIsPresent
    <3> QED
      BY <1>1, <1>2, <3>1 DEF Exists
  <2>3. SeedingInv'
    BY <1>1, <2>1, <2>2, NoGrowth, AdvanceKeeps
  <2> QED
    BY <1>1, <2>3, RestKeeps
<1>3. CASE seeder' = [seeder EXCEPT ![s].missing = missing]
  <2>1. SeedingInv'
    BY <1>1, <1>3, MissKeeps
  <2> QED
    BY <1>1, <2>1, RestKeeps
\* What it skips is owed no longer.
<1>4. CASE s \in stale /\ Advance(s)
  <2>1. seeder[s].phase \in shaken
    BY <1>4 DEF SeedingIInv, StaleIsShaken
  <2>2. SeedingInv'
    BY <1>1, <1>4, <2>1, NoGrowth, AdvanceKeeps
  <2> QED
    BY <1>1, <2>2, RestKeeps
<1> QED
  BY <1>2, <1>3, <1>4 DEF Look

\* A seeding creates what its place lacks.
LEMMA CreatedKeeps ==
  ASSUME SeedingIInv, NEW s \in Seeders, seeder[s].phase # 0, UNCHANGED <<unseeding, shaken>>,
         NEW new, new \subseteq seeder[s].missing,
         \A x \in new : ~Exists(x),
         row' = [x \in Rows |-> IF x \in new THEN "seeded" ELSE row[x]],
         held' = held \cup (new \ Grants), Advance(s),
         seeder[s].phase \notin shaken => \A x \in Wanted(s) : Exists(x) \/ x \in new
  PROVE  /\ SeedingInv'
         /\ KeysAreFree'
<1>1. /\ seeder[s].phase \in Phases /\ seeder[s].missing \subseteq Wanted(s)
      /\ Wanted(s) \subseteq Rows /\ SeedingInv /\ KeysAreFree
      /\ row \in [Rows -> {"absent", "seeded", "chosen", "deleted"}]
  BY AtPlace DEF SeedingIInv, SeedingInv, SeedingTypeOK
<1>2. \A x \in Rows : row'[x] = IF x \in new THEN "seeded" ELSE row[x]
  OBVIOUS
<1>3. \A x \in Rows : Exists(x)' <=> Exists(x) \/ x \in new
  BY <1>2 DEF Exists
<1>4. Grows(s)
  BY <1>1, <1>3 DEF Grows
<1>5. seeder[s].phase \notin shaken => \A x \in Wanted(s) : Exists(x)'
  BY <1>1, <1>3
<1>6. SeedingInv'
  BY <1>1, <1>4, <1>5, AdvanceKeeps
<1>7. SystemRole \in Rows /\ SystemRole \notin Grants
  BY SeedingAssumption DEF Roles, Rows
<1>8. \A p \in Phases \ shaken' : \A x \in RowsOf(p) :
         (Exists(x) => Exists(x)') /\ (x \in held' => x \in held \/ Exists(x)')
  BY <1>3, Tables
<1>9. /\ Exists(SystemRole)' => Exists(SystemRole) \/ SystemRole \in held'
      /\ SystemRole \in held => SystemRole \in held'
  BY <1>3, <1>7
<1>10. KeysAreFree'
  BY <1>1, <1>8, <1>9, KeysKeep
<1> QED
  BY <1>6, <1>10

LEMMA CreateKeeps ==
  ASSUME SeedingIInv, NEW s \in Seeders, Create(s)
  PROVE  SeedingIInv'
<1>1. /\ seeder[s].missing # {} /\ UNCHANGED <<unseeding, shaken>>
      /\ SeedingInv /\ KeysAreFree /\ StaleIsShaken
  BY DEF Create, SeedingIInv
<1>2. seeder[s].phase # 0
  BY <1>1 DEF SeedingInv, OnScript, Idle
<1>3. /\ seeder[s].phase \in Phases /\ seeder[s].missing \subseteq Wanted(s)
      /\ Wanted(s) \subseteq RowsOf(seeder[s].phase) /\ Wanted(s) \subseteq Rows
  BY <1>1, <1>2, AtPlace
<1>4. seeder[s].phase \notin shaken => /\ \A x \in seeder[s].missing : Present(x)
                                       /\ \A x \in Wanted(s) \ seeder[s].missing : Exists(x)
  BY <1>1, <1>3 DEF SeedingInv, MissedIsAll
<1>5. seeder[s].phase \notin shaken => \A x \in seeder[s].missing : x \in held => Exists(x)
  BY <1>1, <1>3 DEF KeysAreFree, Blocked
<1>6. CASE seeder[s].missing \subseteq Roles /\ CreateRoles(s)
  <2> DEFINE new == {x \in seeder[s].missing : ~Exists(x) /\ x \notin held}
  <2>1. /\ row' = [x \in Rows |-> IF x \in new THEN "seeded" ELSE row[x]]
        /\ held' = held \cup new /\ Advance(s)
        /\ stale' = IF new = {} THEN StillStale ELSE Outdated \ {s}
    BY <1>6 DEF CreateRoles
  <2>2. new \ Grants = new
    BY <1>6, SeedingAssumption
  <2>3. seeder[s].phase \notin shaken => \A x \in Wanted(s) : Exists(x) \/ x \in new
    BY <1>4, <1>5
  <2>4. SeedingInv' /\ KeysAreFree'
    <3>1. new \subseteq seeder[s].missing /\ \A x \in new : ~Exists(x)
      OBVIOUS
    <3> HIDE DEF new
    <3> QED
      BY <1>1, <1>2, <2>1, <2>2, <2>3, <3>1, CreatedKeeps
  <2>5. StaleIsShaken'
    <3>1. CASE new = {}
      BY <1>1, <2>1, <3>1, StillStaleKeeps
\* A role that is new to a seeding in the third phase was not owed.
    <3>2. ASSUME new # {}, NEW t \in Seeders, seeder[t].phase = 3 PROVE 3 \in shaken
      <4>1. PICK x \in Roles : ~Exists(x)
        BY <1>6, <3>2
      <4>2. x \in RowsOf(1) \/ x \in RowsOf(2)
        BY RolePlaces DEF Roles
      <4>3. ASSUME 1 \notin shaken, 2 \notin shaken PROVE FALSE
        BY <1>1, <3>2, <4>1, <4>2, <4>3 DEF SeedingInv, RolesAreThere, Complete
      <4> QED
        BY <1>1, <4>3 DEF SeedingInv, RolesFirst
    <3>3. \A t \in Seeders \ {s} : seeder'[t] = seeder[t]
      BY <1>1, <2>1 DEF Advance, Leave, SeedingInv, SeedingTypeOK
    <3>4. CASE new # {}
      <4>1. stale' = Outdated \ {s}
        BY <2>1, <3>4
      <4>2. ASSUME NEW t \in stale'
            PROVE  t \in Seeders /\ seeder'[t].phase = 3 /\ 3 \in shaken'
        <5>1. t \in Seeders \ {s} /\ seeder[t].phase = 3
          BY <1>1, <4>1, <4>2 DEF Outdated, StaleIsShaken
        <5> QED
          BY <1>1, <3>2, <3>3, <3>4, <5>1
      <4> QED
        BY <4>2 DEF StaleIsShaken
    <3> QED
      BY <3>1, <3>4
  <2> QED
    BY <2>4, <2>5 DEF SeedingIInv
<1>7. CASE /\ ~(seeder[s].missing \subseteq Roles) /\ CreateOther(s)
           /\ \E x \in seeder[s].missing : Rejected(x)
  <2>1. Leave(s) /\ UNCHANGED <<row, held>> /\ stale' = StillStale
    BY <1>7 DEF CreateOther
  <2> DEFINE q == Following(seeder[s].phase)
  <2>2. /\ MovesTo(s, [phase |-> q, next |-> 1, missing |-> {}]) /\ q \in 0 .. 4
        /\ IF seeder[s].phase = 4 THEN q = 0 ELSE q = seeder[s].phase + 1
        /\ seeder[s].phase \in 1 .. 4 /\ RolesFirst' /\ shaken \subseteq Phases
    BY <1>1, <1>2, <2>1, LeaveMoves DEF SeedingInv, RolesFirst, SeedingTypeOK
  <2> HIDE DEF q
  <2>3. seeder[s].phase \in {3, 4}
    BY <1>3, <1>7, <2>2, Tables
  <2>4. PICK x \in seeder[s].missing : Rejected(x)
    BY <1>7
  <2>5. ASSUME seeder[s].phase \notin shaken PROVE Exists(x)
    <3>1. Present(x) /\ (x \in held => Exists(x))
      BY <1>4, <1>5, <2>5
    <3>2. x \in Users => seeder[s].phase = 4
      BY <1>3, <2>2, <2>3, FourPhases, Tables
    <3>3. x \in Users => SystemRole \in held
      <4>1. ASSUME x \in Users PROVE 1 \notin shaken /\ 4 \notin shaken /\ seeder[s].phase > 1
        BY <1>1, <2>5, <3>2, <4>1 DEF SeedingInv, RolesFirst
      <4>2. ASSUME x \in Users PROVE Complete(1)
        BY <1>1, <4>1, <4>2 DEF SeedingInv, RolesAreThere
      <4>3. ASSUME x \in Users PROVE Exists(SystemRole)
        BY <4>2, <4>3, RolePlaces, SeedingAssumption DEF Complete
      <4> QED
        BY <1>1, <4>1, <4>3 DEF KeysAreFree
    <3> QED
      BY <2>4, <3>1, <3>3 DEF Rejected
  <2>6. ASSUME NEW p \in Phases \ shaken, p >= seeder[s].phase
        PROVE  \/ q \in 1 .. p
               \/ /\ p = seeder[s].phase /\ p \in {3, 4}
                  /\ \E y \in seeder[s].missing : Exists(y)
    BY <2>2, <2>3, <2>4, <2>5, <2>6, FourPhases
  <2>7. SeedingInv'
    BY <1>1, <1>2, <2>1, <2>2, <2>6, NoGrowth, EndKeeps
  <2> QED
    BY <1>1, <2>1, <2>7, RestKeeps
<1>8. CASE /\ ~(seeder[s].missing \subseteq Roles) /\ CreateOther(s)
           /\ ~\E x \in seeder[s].missing : Rejected(x)
  <2>1. /\ row' = [x \in Rows |-> IF x \in seeder[s].missing THEN "seeded" ELSE row[x]]
        /\ held' = held \cup (seeder[s].missing \ Grants) /\ Advance(s) /\ stale' = StillStale
    BY <1>8 DEF CreateOther
  <2>2. \A x \in seeder[s].missing : ~Exists(x)
    BY <1>8 DEF Rejected
  <2>3. SeedingInv' /\ KeysAreFree'
    BY <1>1, <1>2, <1>4, <2>1, <2>2, CreatedKeeps
  <2>4. StaleIsShaken'
    BY <1>1, <2>1, StillStaleKeeps
  <2> QED
    BY <2>3, <2>4 DEF SeedingIInv
<1>9. CASE CreateElsewhere(s)
  <2>1. /\ UNCHANGED <<row, held>> /\ stale' = StillStale
        /\ seeder[s].phase = 3 /\ 3 \in shaken
    BY <1>1, <1>9 DEF CreateElsewhere, StaleIsShaken
  <2>2. CASE Advance(s)
    <3>1. SeedingInv'
      BY <1>1, <1>2, <2>1, <2>2, NoGrowth, AdvanceKeeps
    <3> QED
      BY <1>1, <2>1, <3>1, RestKeeps
  <2>3. CASE Leave(s)
    <3>1. MovesTo(s, [phase |-> 4, next |-> 1, missing |-> {}])
      <4>1. /\ MovesTo(s, [phase |-> Following(3), next |-> 1, missing |-> {}])
            /\ Following(3) = 3 + 1
        BY <1>1, <1>2, <2>1, <2>3, LeaveMoves
      <4> QED
        BY <4>1
    <3>2. RolesFirst' /\ shaken \subseteq Phases
      BY <1>1 DEF SeedingInv, RolesFirst, SeedingTypeOK
    <3>3. \A p \in Phases \ shaken : p >= 3 => 4 \in 1 .. p
      BY <2>1, FourPhases
    <3>4. SeedingInv'
      BY <1>1, <1>2, <2>1, <3>1, <3>2, <3>3, NoGrowth, EndKeeps
    <3> QED
      BY <1>1, <2>1, <3>4, RestKeeps
  <2> QED
    BY <1>9, <2>2, <2>3 DEF CreateElsewhere
<1> QED
  BY <1>6, <1>7, <1>8, <1>9 DEF Create

LEMMA FailKeeps ==
  ASSUME SeedingIInv, NEW s \in Seeders, Fail(s)
  PROVE  SeedingIInv'
<1>1. /\ seeder[s].phase # 0 /\ Leave(s) /\ UNCHANGED <<row, held, unseeding>>
      /\ shaken' = shaken \cup Owed(seeder[s].phase) /\ stale' = StillStale /\ SeedingInv
  BY DEF Fail, SeedingIInv
<1> DEFINE q == Following(seeder[s].phase)
<1>2. /\ MovesTo(s, [phase |-> q, next |-> 1, missing |-> {}]) /\ q \in 0 .. 4
      /\ IF seeder[s].phase = 4 THEN q = 0 ELSE q = seeder[s].phase + 1
      /\ seeder[s].phase \in Phases /\ seeder[s].phase \in 1 .. 4 /\ shaken \subseteq Phases
  BY <1>1, LeaveMoves, FourPhases DEF SeedingInv, SeedingTypeOK
<1> HIDE DEF q
<1>3. shaken' \subseteq Phases /\ RolesFirst' /\ shaken \subseteq shaken'
  BY <1>1, <1>2, OwedFacts DEF SeedingInv, RolesFirst
<1>4. ASSUME NEW p \in Phases \ shaken', p >= seeder[s].phase
      PROVE  q \in 1 .. p
  BY <1>1, <1>2, <1>4, FourPhases, OwedFacts
<1>5. SeedingInv'
  BY <1>1, <1>2, <1>3, <1>4, NoGrowth, EndKeeps
<1> QED
  BY <1>1, <1>3, <1>5, RestKeeps

LEMMA CrashKeeps ==
  ASSUME SeedingIInv, NEW s \in Seeders, Crash(s)
  PROVE  SeedingIInv'
<1>1. /\ seeder[s].phase # 0 /\ UNCHANGED <<row, held, unseeding>>
      /\ seeder' = [seeder EXCEPT ![s] = Idle] /\ stale' = StillStale /\ SeedingInv
  BY DEF Crash, SeedingIInv
<1>2. /\ seeder[s].phase \in 1 .. 4 /\ seeder \in [Seeders -> Place] /\ shaken \subseteq 1 .. 4
  BY <1>1, AtPlace, FourPhases DEF SeedingInv, SeedingTypeOK, Place
<1>3. MovesTo(s, [phase |-> 0, next |-> 1, missing |-> {}])
  BY <1>1, <1>2 DEF MovesTo, Idle, Place
<1> DEFINE dead == seeder[s].phase .. 4
<1>4. shaken' = shaken \cup dead
  BY FourPhases DEF Crash
<1>5. dead \subseteq 1 .. 4 /\ (dead \cap {1, 2} # {} => {3, 4} \subseteq dead)
  BY <1>2
<1> HIDE DEF dead
<1>6. shaken' \subseteq Phases /\ RolesFirst' /\ shaken \subseteq shaken'
  BY <1>1, <1>2, <1>4, <1>5, FourPhases DEF SeedingInv, RolesFirst
<1>7. ASSUME NEW p \in Phases \ shaken', p >= seeder[s].phase
      PROVE  FALSE
  BY <1>2, <1>4, <1>7, FourPhases DEF dead
<1>8. SeedingInv'
  BY <1>1, <1>3, <1>6, <1>7, NoGrowth, EndKeeps
<1> QED
  BY <1>1, <1>6, <1>8, RestKeeps

-----------------------------------------------------------------------------
LEMMA InitSeeding == SeedingInit => SeedingIInv
<1> SUFFICES ASSUME SeedingInit PROVE SeedingIInv
  OBVIOUS
<1>1. SeedingTypeOK
  BY DEF SeedingInit, SeedingTypeOK, Place, Idle
<1>2. OnScript
  BY DEF SeedingInit, OnScript, Idle
<1>3. RolesFirst
  BY FourPhases DEF SeedingInit, RolesFirst
<1>4. SeedingInv
  BY <1>1, <1>2, <1>3
     DEF SeedingInit, SeedingInv, PassedIsThere, MissedIsAll, RolesAreThere, SomeoneOwes,
         LoserIsBehind, Idle
<1>5. KeysAreFree /\ StaleIsShaken
  BY FourPhases DEF SeedingInit, KeysAreFree, StaleIsShaken
<1> QED
  BY <1>4, <1>5 DEF SeedingIInv

LEMMA NextSeeding == SeedingIInv /\ [SeedingNext]_seedingVars => SeedingIInv'
<1> SUFFICES ASSUME SeedingIInv, [SeedingNext]_seedingVars PROVE SeedingIInv'
  OBVIOUS
<1>1. CASE UNCHANGED seedingVars
  <2>1. SeedingInv'
    BY <1>1 DEF SeedingIInv, seedingVars, SeedingInv, SeedingTypeOK, OnScript, RolesFirst,
                PassedIsThere, MissedIsAll, RolesAreThere, SomeoneOwes, LoserIsBehind, Wanted,
                Exists, Present, Done, Complete
  <2> QED
    BY <1>1, <2>1 DEF SeedingIInv, seedingVars, KeysAreFree, StaleIsShaken, Blocked, Exists
<1>2. ASSUME NEW s \in Seeders, Start(s) \/ Look(s) \/ Create(s) \/ Fail(s) \/ Crash(s)
      PROVE  SeedingIInv'
  BY <1>2, StartKeepsAll, LookKeeps, CreateKeeps, FailKeeps, CrashKeeps
<1> QED
  BY <1>1, <1>2, UnseedKeeps, AdministerKeeps DEF SeedingNext

LEMMA SeedingHolds == SeedingSpec => []SeedingIInv
  BY InitSeeding, NextSeeding, PTL DEF SeedingSpec

\* Instances that seed side by side, however their look-ups and inserts overlap
\* and whichever of them gives up at a unique index, leave every row of every
\* function of seedAll that no failing statement, crash, unseeding or
\* administrator disturbed, and whose ids and user names nobody else had when
\* they began: for any number of instances and any lists of roles, menus,
\* permissions and users.
THEOREM RestIsCompleteHolds == SeedingSpec => []RestIsComplete
<1>1. SeedingIInv => RestIsComplete
  <2> SUFFICES ASSUME SeedingInv, Quiet, NEW p \in Phases \ shaken PROVE Complete(p)
    BY DEF SeedingIInv, RestIsComplete, Complete
  <2>1. p \in 1 .. 4
    BY FourPhases
  <2>2. \A s \in Seeders : seeder[s].phase = 0
    BY DEF Quiet, Idle
  <2> QED
    BY <2>1, <2>2 DEF SeedingInv, SomeoneOwes
<1> QED
  BY <1>1, SeedingHolds, PTL

\* No statement of any seeding takes back the permission that an administrator
\* chose in assignMenuToRole, however stale the look-up behind it is.
THEOREM ChoicesStayHolds == SeedingSpec => ChoicesStay
<1>1. ASSUME SeedingNext, NEW g \in Grants, row[g] = "chosen", row'[g] # "chosen"
      PROVE  UNCHANGED seeder
  <2>1. g \in Rows /\ Exists(g)
    BY <1>1 DEF Rows, Exists
  <2>2. ASSUME NEW s \in Seeders, Create(s) PROVE row'[g] = row[g]
    <3>1. CASE CreateRoles(s)
      BY <2>1, <3>1 DEF CreateRoles
    <3>2. CASE CreateOther(s) /\ \E x \in seeder[s].missing : Rejected(x)
      BY <3>2 DEF CreateOther
    <3>3. CASE CreateOther(s) /\ ~\E x \in seeder[s].missing : Rejected(x)
      <4>1. g \notin seeder[s].missing
        BY <2>1, <3>3 DEF Rejected
      <4> QED
        BY <2>1, <3>3, <4>1 DEF CreateOther
    <3>4. CASE CreateElsewhere(s)
      BY <3>4 DEF CreateElsewhere
    <3> QED
      BY <2>2, <3>1, <3>2, <3>3, <3>4 DEF Create
  <2>3. ASSUME NEW s \in Seeders, Start(s) \/ Look(s) \/ Fail(s) \/ Crash(s)
        PROVE  row' = row
    BY <2>3 DEF Start, Look, Fail, Crash
  <2>4. Unseed \/ Administer
    BY <1>1, <2>2, <2>3 DEF SeedingNext
  <2> QED
    BY <2>4 DEF Unseed, Administer
<1>2. [SeedingNext]_seedingVars =>
        [\A g \in Grants : row[g] = "chosen" /\ row'[g] # "chosen" => UNCHANGED seeder]_seedingVars
  BY <1>1 DEF seedingVars
<1> QED
  BY <1>2, PTL DEF SeedingSpec, ChoicesStay

-----------------------------------------------------------------------------
(* The life of the process: the inductive invariant                        *)

\* The pool is closed before anybody waits for it to drain, and stays closed;
\* drained it stays drained.
PoolDrains ==
    /\ \A h \in Handlers : handler[h] \in {"config", "database", "redis", "rabbitmq"}
                              => pool = "closed"
    /\ \A h \in Handlers : handler[h] \in {"redis", "rabbitmq"} => Drained

\* A shutdown() that found a server goes on when the server is closed, and a
\* closed server has no client.
ServerDrains ==
    /\ http = "closed" => Answered
    /\ \A h \in Handlers : handler[h] \in {"database", "redis", "rabbitmq"}
                              => early \/ http = "closed"
    /\ \A h \in Handlers : handler[h] = "config" => signalled
    /\ http # "none" => boot = "listening"

LifecycleInv == /\ TypeOK /\ PoolDrains /\ ServerDrains
        /\ TransactionsFinish /\ ClientsAreAnswered

\* Before the first step nobody runs.
LEMMA InitLifecycle == Init => LifecycleInv
<1> SUFFICES ASSUME Init PROVE LifecycleInv
    OBVIOUS
<1>1. TypeOK
  <2>1. 1 \in 1 .. MaxAttempts /\ 0 \in 0 .. MaxReady
    BY LifecycleAssumption
  <2> QED BY <2>1 DEF Init, TypeOK, None
<1>2. PoolDrains /\ ServerDrains /\ TransactionsFinish /\ ClientsAreAnswered
  BY DEF Init, PoolDrains, ServerDrains, TransactionsFinish, ClientsAreAnswered
<1> QED BY <1>1, <1>2 DEF LifecycleInv

\* A step of the start leaves requests and handlers alone, and never ends the
\* process with success.
LEMMA BootKeeps == LifecycleInv /\ (BootStep \/ Listen) => LifecycleInv'
<1> SUFFICES ASSUME LifecycleInv, BootStep \/ Listen PROVE LifecycleInv'
    OBVIOUS
<1> USE DEF LifecycleInv
<1>1. CASE BootStep
  <2>1. attempt' \in 1 .. MaxAttempts /\ ready' \in 0 .. MaxReady
    BY <1>1, LifecycleAssumption
       DEF BootStep, Connected, ConnectFails, Sync, Prepare, QueueFails, bootVars, TypeOK,
           GivesUp, Counts
  <2>2. /\ boot' \in {"connect", "sync", "redis", "seed", "queue", "listening"}
        /\ exit' \in {"running", "failure"}
        /\ boot = "listening" => boot' = boot
    BY <1>1
       DEF BootStep, Connected, ConnectFails, Sync, Prepare, QueueFails, bootVars, TypeOK, Running
  <2>3. UNCHANGED <<http, pool, request, handler, signalled, early>>
    BY <1>1 DEF BootStep
  <2>4. TypeOK'
    BY <2>1, <2>2, <2>3 DEF TypeOK, Codes
  <2>5. (PoolDrains /\ ServerDrains)'
    BY <2>2, <2>3 DEF PoolDrains, ServerDrains, Drained, Answered
  <2> QED BY <2>2, <2>4, <2>5 DEF TransactionsFinish, ClientsAreAnswered
<1>2. CASE Listen
  <2>1. /\ boot = "queue" /\ http = "none"
        /\ boot' = "listening" /\ http' = "open"
        /\ exit = "running"
        /\ UNCHANGED <<attempt, ready, pool, request, handler, exit, signalled, early>>
    BY <1>2 DEF Listen, Running, ServerDrains
  <2>2. TypeOK'
    BY <2>1 DEF TypeOK
  <2>3. (PoolDrains /\ ServerDrains)'
    BY <2>1 DEF PoolDrains, ServerDrains, Drained, Answered
  <2> QED BY <2>1, <2>2, <2>3 DEF TransactionsFinish, ClientsAreAnswered
<1> QED BY <1>1, <1>2

\* A closed server takes no request and a closed pool gives no connection.
LEMMA RequestKeeps ==
    ASSUME NEW r \in Requests, LifecycleInv, RequestStep(r)
    PROVE  LifecycleInv'
<1> USE DEF LifecycleInv
<1>1. /\ exit = "running"
      /\ UNCHANGED <<boot, attempt, ready, http, pool, handler, exit, signalled, early>>
  BY DEF RequestStep, Running, bootVars
<1> DEFINE States == [at     : {"none", "handler", "database"},
                      client : {"gone", "sends", "waits", "reads"}]
           Fits(to) ==
               /\ request' = [request EXCEPT ![r] = to]
               /\ to.client # "gone" => request[r].client # "gone" \/ http # "closed"
               /\ to.at = "database" => request[r].at = "database" \/ pool = "open"
<1>2. \E to \in States : Fits(to)
  <2>1. request[r] \in States
    BY DEF TypeOK
  <2>2. CASE Accept(r)
    <3>1. Fits([request[r] EXCEPT !.client = "sends"])
      BY <2>1, <2>2 DEF Accept, None
    <3> QED BY <2>1, <3>1
  <2>3. CASE Receive(r)
    <3>1. Fits([at |-> "handler", client |-> "waits"])
      BY <2>3 DEF Receive
    <3> QED BY <3>1
  <2>4. CASE Acquire(r)
    <3>1. Fits([request[r] EXCEPT !.at = "database"])
      BY <2>1, <2>4 DEF Acquire
    <3> QED BY <2>1, <3>1
  <2>5. CASE Release(r)
    <3>1. Fits([request[r] EXCEPT !.at = "handler"])
      BY <2>1, <2>5 DEF Release
    <3> QED BY <2>1, <3>1
  <2>6. CASE Answer(r)
    <3>1. Fits(None) \/ Fits([at |-> "none", client |-> "reads"])
      BY <2>6 DEF Answer, None
    <3> QED BY <3>1 DEF None
  <2>7. CASE Timeout(r) \/ Disconnect(r)
    <3>1. Fits([request[r] EXCEPT !.client = "gone"])
      BY <2>1, <2>7 DEF Timeout, Disconnect
    <3> QED BY <2>1, <3>1
  <2> QED BY <2>2, <2>3, <2>4, <2>5, <2>6, <2>7 DEF RequestStep
<1>3. PICK to \in States : Fits(to)
  BY <1>2
<1>4. TypeOK'
  BY <1>1, <1>3 DEF TypeOK
<1>5. (http = "closed" /\ Answered => Answered') /\ (pool = "closed" /\ Drained => Drained')
  BY <1>3 DEF TypeOK, Answered, Drained
<1>6. (PoolDrains /\ ServerDrains)'
  BY <1>1, <1>5 DEF PoolDrains, ServerDrains
<1> QED BY <1>1, <1>4, <1>6 DEF TransactionsFinish, ClientsAreAnswered

\* shutdown() as far as its first await: it waits for the server, or goes on to
\* the pool when there is no server.
LEMMA CloseServerTypes ==
    ASSUME TypeOK
    PROVE  /\ CloseServer.at \in {"server", "database", "refused"}
           /\ CloseServer.at = "database" => CloseServer.early
           /\ CloseServer.http \in {"none", "open", "closing", "closed"}
           /\ CloseServer.http = "closed" <=> http = "closed"
           /\ CloseServer.http # "none" <=> http # "none"
           /\ CloseServer.early \in BOOLEAN /\ (early => CloseServer.early)
<1>1. CASE http = "open"
  BY <1>1 DEF TypeOK, CloseServer
<1>2. CASE http = "none"
  BY <1>2 DEF TypeOK, CloseServer
<1>3. CASE http \notin {"open", "none"}
  BY <1>3 DEF TypeOK, CloseServer
<1> QED BY <1>1, <1>2, <1>3

LEMMA ExceptionKeeps ==
    ASSUME NEW h \in Handlers, LifecycleInv, Exception(h)
    PROVE  LifecycleInv'
<1> USE DEF LifecycleInv
<1> DEFINE at == CloseServer.at
<1>1. /\ exit = "running" /\ handler[h] = "none"
      /\ handler' = [handler EXCEPT ![h] = at]
      /\ http' = CloseServer.http /\ early' = CloseServer.early
      /\ pool' = IF at = "database" THEN "closed" ELSE pool
      /\ UNCHANGED <<boot, attempt, ready, request, exit, signalled>>
  BY DEF Exception, Running, bootVars
<1>2. /\ at \in {"server", "database", "refused"}
      /\ at = "database" => early'
      /\ http' \in {"none", "open", "closing", "closed"}
      /\ http' = "closed" <=> http = "closed"
      /\ http' # "none" <=> http # "none"
      /\ early' \in BOOLEAN /\ (early => early')
  BY <1>1, CloseServerTypes
<1> HIDE DEF at
<1>3. TypeOK'
  BY <1>1, <1>2 DEF TypeOK
<1>4. PoolDrains'
  BY <1>1, <1>2 DEF PoolDrains, Drained, TypeOK
<1>5. ServerDrains'
  BY <1>1, <1>2 DEF ServerDrains, Answered, TypeOK
<1> QED BY <1>1, <1>3, <1>4, <1>5 DEF TransactionsFinish, ClientsAreAnswered

LEMMA SignalKeeps ==
    ASSUME NEW h \in Handlers, NEW g \in Handlers, LifecycleInv, Signal(h, g)
    PROVE  LifecycleInv'
<1> USE DEF LifecycleInv
<1> DEFINE at == CloseServer.at
<1>1. /\ exit = "running" /\ handler[h] = "none" /\ handler[g] = "none" /\ h # g
      /\ handler' = [handler EXCEPT ![h] = "config", ![g] = at]
      /\ http' = CloseServer.http /\ early' = CloseServer.early
      /\ pool' = "closed" /\ signalled' = TRUE
      /\ UNCHANGED <<boot, attempt, ready, request, exit>>
  BY DEF Signal, Running, bootVars
<1>2. /\ at \in {"server", "database", "refused"}
      /\ at = "database" => early'
      /\ http' \in {"none", "open", "closing", "closed"}
      /\ http' = "closed" <=> http = "closed"
      /\ http' # "none" <=> http # "none"
      /\ early' \in BOOLEAN /\ (early => early')
  BY <1>1, CloseServerTypes
<1> HIDE DEF at
<1>3. TypeOK'
  BY <1>1, <1>2 DEF TypeOK
<1>4. PoolDrains'
  BY <1>1, <1>2 DEF PoolDrains, Drained, TypeOK
<1>5. ServerDrains'
  BY <1>1, <1>2 DEF ServerDrains, Answered, TypeOK
<1> QED BY <1>1, <1>3, <1>4, <1>5 DEF TransactionsFinish, ClientsAreAnswered

\* The server closes when no client is connected.
LEMMA ServerClosesKeeps == LifecycleInv /\ ServerCloses => LifecycleInv'
<1> SUFFICES ASSUME LifecycleInv, ServerCloses PROVE LifecycleInv'
    OBVIOUS
<1> USE DEF LifecycleInv
<1>1. /\ exit = "running" /\ http = "closing" /\ Answered /\ http' = "closed"
      /\ UNCHANGED <<boot, attempt, ready, pool, request, handler, exit, signalled, early>>
  BY DEF ServerCloses, Running, bootVars
<1>2. TypeOK'
  BY <1>1 DEF TypeOK
<1>3. (PoolDrains /\ ServerDrains)'
  BY <1>1 DEF PoolDrains, ServerDrains, Drained, Answered
<1> QED BY <1>1, <1>2, <1>3 DEF TransactionsFinish, ClientsAreAnswered

\* A handler that ends the process with success has seen the pool drained; if
\* it is shutdown() that found a server, the server is closed.
LEMMA HandlerKeeps ==
    ASSUME NEW h \in Handlers, LifecycleInv, HandlerStep(h)
    PROVE  LifecycleInv'
<1> USE DEF LifecycleInv
<1>1. exit = "running" /\ UNCHANGED <<boot, attempt, ready, http, request, signalled, early>>
  BY DEF HandlerStep, Running, bootVars
<1>2. Drained' = Drained /\ Answered' = Answered
  BY <1>1 DEF Drained, Answered
<1>3. CASE ServerClosed(h)
  <2>1. /\ http = "closed" /\ pool' = "closed" /\ UNCHANGED exit
        /\ handler' = [handler EXCEPT ![h] = "database"]
    BY <1>3 DEF ServerClosed
  <2> QED BY <1>1, <1>2, <2>1
          DEF TypeOK, PoolDrains, ServerDrains, TransactionsFinish, ClientsAreAnswered
<1>4. CASE Refused(h)
  <2>1. exit' = "failure" /\ UNCHANGED <<handler, pool>>
    BY <1>4 DEF Refused
  <2> QED BY <1>1, <1>2, <2>1
          DEF TypeOK, Codes, PoolDrains, ServerDrains, TransactionsFinish, ClientsAreAnswered
<1>5. CASE ConfigExits(h)
  <2>1. /\ handler[h] = "config" /\ UNCHANGED <<handler, pool>>
        /\ (Drained /\ exit' = "success") \/ exit' = "failure"
    BY <1>5 DEF ConfigExits
  <2>2. signalled
    BY <2>1 DEF ServerDrains
  <2>3. TypeOK' /\ PoolDrains' /\ ServerDrains'
    BY <1>1, <1>2, <2>1 DEF TypeOK, Codes, PoolDrains, ServerDrains
  <2> QED BY <1>1, <2>1, <2>2, <2>3 DEF TransactionsFinish, ClientsAreAnswered, Drained
<1>6. CASE DatabaseCloses(h)
  <2>1. /\ handler[h] = "database" /\ UNCHANGED pool
        /\ \/ Drained /\ handler' = [handler EXCEPT ![h] = "redis"] /\ UNCHANGED exit
           \/ exit' = "failure" /\ UNCHANGED handler
    BY <1>6 DEF DatabaseCloses
  <2>2. TypeOK'
    BY <1>1, <2>1 DEF TypeOK, Codes
  <2>3. PoolDrains' /\ ServerDrains'
    BY <1>1, <1>2, <2>1 DEF TypeOK, PoolDrains, ServerDrains
  <2> QED BY <1>1, <2>1, <2>2, <2>3 DEF TransactionsFinish, ClientsAreAnswered
<1>7. CASE BrokersClose(h)
  <2>1. /\ UNCHANGED pool
        /\ \/ /\ handler[h] = "redis" /\ UNCHANGED exit
              /\ handler' = [handler EXCEPT ![h] = "rabbitmq"]
           \/ handler[h] = "rabbitmq" /\ exit' = "success" /\ UNCHANGED handler
    BY <1>7 DEF BrokersClose
  <2>2. Drained /\ (early \/ (http = "closed" /\ Answered))
    BY <2>1 DEF PoolDrains, ServerDrains
  <2>3. TypeOK'
    BY <1>1, <2>1 DEF TypeOK, Codes
  <2>4. PoolDrains' /\ ServerDrains'
    BY <1>1, <1>2, <2>1, <2>2 DEF TypeOK, PoolDrains, ServerDrains
  <2> QED BY <1>1, <2>1, <2>2, <2>3, <2>4
          DEF TransactionsFinish, ClientsAreAnswered, Drained, Answered
<1> QED BY <1>3, <1>4, <1>5, <1>6, <1>7 DEF HandlerStep

LEMMA NextLifecycle == LifecycleInv /\ [Next]_vars => LifecycleInv'
<1> SUFFICES ASSUME LifecycleInv, [Next]_vars PROVE LifecycleInv'
    OBVIOUS
<1>1. CASE UNCHANGED vars
  BY <1>1 DEF vars, bootVars, LifecycleInv, TypeOK, PoolDrains, ServerDrains, TransactionsFinish,
              ClientsAreAnswered, Drained, Answered
<1>2. CASE Next
  BY <1>2, BootKeeps, RequestKeeps, ExceptionKeeps, SignalKeeps, ServerClosesKeeps,
     HandlerKeeps DEF Next
<1> QED BY <1>1, <1>2

LEMMA LifecycleHolds == Spec => []LifecycleInv
BY InitLifecycle, NextLifecycle, PTL DEF Spec

\* The variables of the life cycle keep their types, for any bounds of the
\* attempts that Connection() and waitForDbReady() make.
THEOREM TypeCorrect == Spec => []TypeOK
BY LifecycleHolds, PTL DEF LifecycleInv

\* Exit code 0 means that no request was cut off in a query or a transaction,
\* for any number of requests and of overlapping signals and exceptions.
THEOREM TransactionsFinishHolds == Spec => []TransactionsFinish
BY LifecycleHolds, PTL DEF LifecycleInv

\* Without a signal, exit code 0 also means that every client has its answer,
\* unless shutdown() ran before the server listened.
THEOREM ClientsAreAnsweredHolds == Spec => []ClientsAreAnswered
BY LifecycleHolds, PTL DEF LifecycleInv
=============================================================================
