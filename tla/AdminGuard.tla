----------------------------- MODULE AdminGuard -----------------------------
(***************************************************************************)
(* Administrators patch accounts (SqlAlchemyAuthService.patch_user).       *)
(*                                                                         *)
(* A patch loads the row, passes _guard_last_admin and writes the columns  *)
(* that differ from what it loaded. The guard returns early on a row that  *)
(* it loaded as something else than an active administrator; otherwise it  *)
(* locks all active administrators FOR UPDATE and counts the others. The   *)
(* locks are taken in one step, once nobody holds any of them.             *)
(***************************************************************************)
EXTENDS FiniteSets, FiniteSetsExt

CONSTANTS
    Users,
    Patches,       \* patch requests in flight, each of which may be repeated
    StalePatches   \* whether a row may be patched while another patch has loaded it

ASSUME AdminConstants ==
    /\ IsFiniteSet(Users) /\ Users # {}
    /\ StalePatches \in BOOLEAN

VARIABLES
    account,   \* role and status of the users' rows
    patch      \* the requests: what each loaded and is about to change

adminVars == <<account, patch>>

Account == [role : {"admin", "viewer"}, status : {"active", "disabled"}]
ActiveAdmin == [role |-> "admin", status |-> "active"]
NoPatch == [stage |-> "idle"]

(* rows: what the patch has locked FOR UPDATE until it commits.            *)
PatchType ==
    {NoPatch} \cup
    [stage : {"loaded", "locked"}, user : Users, was : Account, becomes : Account,
     rows : SUBSET Users]

AdminTypeOK ==
    /\ account \in [Users -> Account]
    /\ patch \in [Patches -> PatchType]

AdminInit ==
    /\ account \in [Users -> Account]
    /\ \E u \in Users : account[u] = ActiveAdmin
    /\ patch = [p \in Patches |-> NoPatch]

-----------------------------------------------------------------------------
Admins == {u \in Users : account[u] = ActiveAdmin}

OpenPatches(u) == {p \in Patches : patch[p].stage # "idle" /\ patch[p].user = u}

RowLocked(u) == \E p \in Patches : patch[p].stage = "locked" /\ u \in patch[p].rows

LoadAccount(p, u) ==
    /\ patch[p] = NoPatch
    /\ StalePatches \/ OpenPatches(u) = {}
    /\ \E becomes \in Account :
          patch' = [patch EXCEPT ![p] =
              [stage |-> "loaded", user |-> u, was |-> account[u], becomes |-> becomes,
               rows |-> {}]]
    /\ UNCHANGED account

(* The early returns of _guard_last_admin.                                 *)
NeedsGuard(p) == patch[p].was = ActiveAdmin /\ patch[p].becomes # ActiveAdmin

GuardLastAdminUnlocked(p) ==   \* mutant: no FOR UPDATE
    /\ patch[p].stage = "loaded" /\ NeedsGuard(p)
    /\ patch' = [patch EXCEPT ![p] =
          IF Admins \subseteq {patch[p].user} THEN NoPatch
          ELSE [@ EXCEPT !.stage = "locked", !.rows = Admins]]
    /\ UNCHANGED account

(* All guards lock every active administrator, and wait for each other. A  *)
(* guard that finds no other one raises and gives its locks back.          *)
GuardLastAdmin(p) ==
    /\ patch[p].stage = "loaded" /\ NeedsGuard(p)
    /\ \A u \in Admins : ~RowLocked(u)
    /\ patch' = [patch EXCEPT ![p] =
          IF Admins \subseteq {patch[p].user} THEN NoPatch
          ELSE [@ EXCEPT !.stage = "locked", !.rows = Admins]]
    /\ UNCHANGED account

(* Only columns that differ from the loaded row are part of the UPDATE.    *)
Patched(p) ==
    LET now == account[patch[p].user] was == patch[p].was becomes == patch[p].becomes
    IN  [role |-> IF becomes.role = was.role THEN now.role ELSE becomes.role,
         status |-> IF becomes.status = was.status THEN now.status ELSE becomes.status]

(* The UPDATE of a row waits for the lock of another patch on it.          *)
WritePatch(p) ==
    /\ \/ patch[p].stage = "locked"
       \/ /\ patch[p].stage = "loaded" /\ ~NeedsGuard(p)
          /\ ~RowLocked(patch[p].user)
    /\ account' = [account EXCEPT ![patch[p].user] = Patched(p)]
    /\ patch' = [patch EXCEPT ![p] = NoPatch]

AdminNext ==
    \E p \in Patches :
        \/ \E u \in Users : LoadAccount(p, u)
        \/ GuardLastAdmin(p)
        \/ WritePatch(p)

AdminSpec == AdminInit /\ [][AdminNext]_adminVars

-----------------------------------------------------------------------------
(* "Block a patch that would leave zero active admins", also "two          *)
(* concurrent demote/disable patches against DIFFERENT admins"             *)
(* (sqlalchemy_service.py 183, 190-194): somebody can always administrate. *)
AnAdminRemains == Admins # {}
=============================================================================
