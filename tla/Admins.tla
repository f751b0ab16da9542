------------------------------- MODULE Admins -------------------------------
(***************************************************************************)
(* The administrators (admin.rs): the primary administrator, the others    *)
(* and their roles, and the actions that several of them approve.  One of  *)
(* the four roles without the Emergency permission stands for all four.    *)
(* Handing over the primary administrator, deactivating, reactivating and  *)
(* everything about approvals have no entry point in lib.rs.               *)
(***************************************************************************)
EXTENDS Clock, Sequences, FiniteSets

CONSTANTS
  Addresses,     \* addresses that are or may become administrators
  FirstAdmin,    \* the one who initialized the contract
  NoRecord,      \* no record is stored
  RotationDelay, \* THRESHOLD_ROTATION_DELAY
  ActionLife,    \* time an action may be approved for
  MaxActions,    \* bound on the actions
  MaxMigrations, \* bound on the migrations to several administrators
  MaxRosterChanges, \* bound on the changes of administrators
  MaxProposals   \* bound on the proposed thresholds

ASSUME AdminsAssumption ==
  /\ IsFiniteSet(Addresses)
  /\ FirstAdmin \in Addresses
  /\ RotationDelay \in Nat \ {0}
  /\ ActionLife \in Nat
  /\ MaxActions \in Nat
  /\ MaxMigrations \in Nat
  /\ MaxRosterChanges \in Nat
  /\ MaxProposals \in Nat

VARIABLES
  primary,     \* "Admin"
  firstRole,   \* "admin_role", the only role before the migration
  roles,       \* the assignment stored under each address
  roster,      \* AdminList
  rosterCount, \* AdminCount, or NoRecord
  migrations,  \* how often the migration ran; MultiAdminMigrated is set by
               \* the first
  orphaned,    \* history: a migration dropped an administrator off the list
  changes,     \* how often the administrators changed
  threshold,   \* of MultisigConfig
  proposal,    \* PendingThreshold
  proposals,   \* how many thresholds were proposed
  pending,     \* the actions to approve
  rotations,   \* history: each new threshold, when proposed, when it applied
  executions   \* history: each execution, with the threshold it met

rosterVars == <<primary, firstRole, roles, roster, rosterCount, migrations,
                orphaned, changes>>

approvalVars == <<threshold, proposal, proposals, pending, rotations,
                  executions>>

adminsVars == <<rosterVars, approvalVars>>

AdminRoles == {"SuperAdmin", "MarketAdmin"}

Actions == 1..MaxActions

Assignments == [role : AdminRoles, active : BOOLEAN]

Proposals == [to : Nat \ {0}, at : Nat]

PendingActions ==
  [approvals : Seq(Addresses), expires : Nat, executed : BOOLEAN]

ASSUME NoRecordAssumption ==
  NoRecord \notin Nat \cup Assignments \cup Proposals \cup PendingActions

AdminsTypeOK ==
  /\ now \in StartTime..MaxTime
  /\ primary \in Addresses
  /\ firstRole \in [admin : Addresses, role : AdminRoles, active : BOOLEAN]
  /\ roles \in [Addresses -> Assignments \cup {NoRecord}]
  /\ roster \subseteq Addresses
  /\ rosterCount \in Nat \cup {NoRecord}
  /\ migrations \in 0..MaxMigrations
  /\ orphaned \in BOOLEAN
  /\ changes \in 0..MaxRosterChanges
  /\ threshold \in Nat \ {0}
  /\ proposal \in Proposals \cup {NoRecord}
  /\ proposals \in 0..MaxProposals
  /\ pending \in [Actions -> PendingActions \cup {NoRecord}]
  /\ rotations \in Seq([to : Nat \ {0}, at : Nat, applied : Nat])
  /\ executions \in Seq([action : Actions, of : Nat \ {0}])

(* AdminInitializer::initialize ran: one administrator, one role.          *)
AdminsInit ==
  /\ now = StartTime
  /\ primary = FirstAdmin
  /\ firstRole = [admin |-> FirstAdmin, role |-> "SuperAdmin", active |-> TRUE]
  /\ roles = [a \in Addresses |-> NoRecord]
  /\ roster = {}
  /\ rosterCount = NoRecord
  /\ migrations = 0
  /\ orphaned = FALSE
  /\ changes = 0
  /\ threshold = 1
  /\ proposal = NoRecord
  /\ proposals = 0
  /\ pending = [x \in Actions |-> NoRecord]
  /\ rotations = <<>>
  /\ executions = <<>>

-----------------------------------------------------------------------------
(* Permissions.                                                            *)

(* validate_admin_permission, after the migration.                         *)
EmergencyByRole(a) ==
  \/ a = primary
  \/ roles[a] # NoRecord /\ roles[a].active /\ roles[a].role = "SuperAdmin"

(* validate_permission for Emergency.                                      *)
HasEmergency(a) ==
  IF migrations > 0 THEN EmergencyByRole(a)
  ELSE firstRole.admin = a /\ firstRole.active /\ firstRole.role = "SuperAdmin"

Holders == {a \in Addresses : roles[a] # NoRecord}

IsAdmin(a) == a = primary \/ roles[a] # NoRecord

(* count_admins_with_role(SuperAdmin) counts the primary administrator     *)
(* alone, so the last one is always the last.                              *)
CountedSuperAdmins == 1

Stored(count) == IF count = NoRecord THEN 0 ELSE count

-----------------------------------------------------------------------------
(* The administrators.                                                     *)
RosterChange == changes < MaxRosterChanges /\ changes' = changes + 1

(* migrate_to_multi_admin, which may be repeated: the roster starts again, *)
(* the assignments of the others stay.                                     *)
MigrateToMultiAdmin ==
  /\ migrations < MaxMigrations
  /\ migrations' = migrations + 1
  /\ orphaned' = (orphaned \/ ~(Holders \subseteq {primary}))
  /\ roles' = [roles EXCEPT ![primary] = [role |-> "SuperAdmin",
                                          active |-> TRUE]]
  /\ roster' = {primary}
  /\ rosterCount' = 1
  /\ UNCHANGED <<now, primary, firstRole, changes, approvalVars>>

(* assign_role, once a role is stored.                                     *)
AssignRole(by, a, r) ==
  /\ HasEmergency(by)
  /\ RosterChange
  /\ firstRole' = [admin |-> a, role |-> r, active |-> TRUE]
  /\ UNCHANGED <<now, primary, roles, roster, rosterCount, migrations,
                 orphaned, approvalVars>>

(* deactivate_role, whoever the role belongs to.                           *)
DeactivateRole(by) ==
  /\ HasEmergency(by)
  /\ RosterChange
  /\ firstRole' = [firstRole EXCEPT !.active = FALSE]
  /\ UNCHANGED <<now, primary, roles, roster, rosterCount, migrations,
                 orphaned, approvalVars>>

(* Seeded fault: an administrator may be added twice.                      *)
AddAdminTwice(by, a, r) ==
  /\ HasEmergency(by)
  /\ RosterChange
  /\ roles' = [roles EXCEPT ![a] = [role |-> r, active |-> TRUE]]
  /\ roster' = roster \cup {a}
  /\ rosterCount' = Stored(rosterCount) + 1
  /\ UNCHANGED <<now, primary, firstRole, migrations, orphaned,
                 approvalVars>>

AddAdmin(by, a, r) ==
  /\ HasEmergency(by)
  /\ ~IsAdmin(a)
  /\ RosterChange
  /\ roles' = [roles EXCEPT ![a] = [role |-> r, active |-> TRUE]]
  /\ roster' = roster \cup {a}
  /\ rosterCount' = Stored(rosterCount) + 1
  /\ UNCHANGED <<now, primary, firstRole, migrations, orphaned,
                 approvalVars>>

RemoveAdmin(by, a) ==
  /\ HasEmergency(by)
  /\ by = a => CountedSuperAdmins > 1
  /\ roles[a] # NoRecord
  /\ RosterChange
  /\ roles' = [roles EXCEPT ![a] = NoRecord]
  /\ roster' = roster \ {a}
  /\ rosterCount' = IF Stored(rosterCount) > 0 THEN rosterCount - 1
                    ELSE rosterCount
  /\ UNCHANGED <<now, primary, firstRole, migrations, orphaned,
                 approvalVars>>

UpdateAdminRole(by, a, r) ==
  /\ HasEmergency(by)
  /\ roles[a] # NoRecord
  /\ roles[a].role = "SuperAdmin" /\ r # "SuperAdmin" => CountedSuperAdmins > 1
  /\ RosterChange
  /\ roles' = [roles EXCEPT ![a].role = r]
  /\ UNCHANGED <<now, primary, firstRole, roster, rosterCount, migrations,
                 orphaned, approvalVars>>

(* deactivate_admin and reactivate_admin: no count changes.                *)
SetActive(by, a, active) ==
  /\ HasEmergency(by)
  /\ roles[a] # NoRecord
  /\ RosterChange
  /\ roles' = [roles EXCEPT ![a].active = active]
  /\ UNCHANGED <<now, primary, firstRole, roster, rosterCount, migrations,
                 orphaned, approvalVars>>

(* transfer_admin: neither role nor roster follows.                        *)
TransferAdmin(a) ==
  /\ a # primary
  /\ RosterChange
  /\ primary' = a
  /\ UNCHANGED <<now, firstRole, roles, roster, rosterCount, migrations,
                 orphaned, approvalVars>>

-----------------------------------------------------------------------------
(* Actions that several administrators approve.                            *)

(* count_active_admins: all that were added, active or not.                *)
ActiveAdmins == IF rosterCount = NoRecord THEN 1 ELSE rosterCount

(* propose_threshold: in place of any other proposal.                      *)
ProposeThreshold(by, n) ==
  /\ HasEmergency(by)
  /\ n \in 1..ActiveAdmins
  /\ proposals < MaxProposals
  /\ proposals' = proposals + 1
  /\ proposal' = [to |-> n, at |-> now]
  /\ UNCHANGED <<now, rosterVars, threshold, pending, rotations, executions>>

(* confirm_threshold, by anyone.  When the threshold has become too high   *)
(* the call fails, which undoes the removal of the proposal.               *)
ConfirmThreshold ==
  /\ proposal # NoRecord
  /\ now >= proposal.at + RotationDelay
  /\ proposal.to <= ActiveAdmins
  /\ threshold' = proposal.to
  /\ rotations' = Append(rotations, [to |-> proposal.to, at |-> proposal.at,
                                     applied |-> now])
  /\ proposal' = NoRecord
  /\ UNCHANGED <<now, rosterVars, proposals, pending, executions>>

CancelThresholdProposal(by) ==
  /\ HasEmergency(by)
  /\ proposal # NoRecord
  /\ proposal' = NoRecord
  /\ UNCHANGED <<now, rosterVars, threshold, proposals, pending, rotations,
                 executions>>

(* create_pending_action: its initiator approves it.                       *)
CreatePendingAction(by, x) ==
  /\ HasEmergency(by)
  /\ pending[x] = NoRecord
  /\ \A y \in 1..(x - 1) : pending[y] # NoRecord
  /\ pending' = [pending EXCEPT ![x] = [approvals |-> <<by>>,
                                        expires |-> now + ActionLife,
                                        executed |-> FALSE]]
  /\ UNCHANGED <<now, rosterVars, threshold, proposal, proposals, rotations,
                 executions>>

(* Seeded fault: an administrator may approve again.                       *)
ApproveActionAgain(by, x) ==
  /\ HasEmergency(by)
  /\ pending[x] # NoRecord
  /\ ~pending[x].executed
  /\ now <= pending[x].expires
  /\ Len(pending[x].approvals) < Cardinality(Addresses)
  /\ pending' = [pending EXCEPT ![x].approvals = Append(@, by)]
  /\ UNCHANGED <<now, rosterVars, threshold, proposal, proposals, rotations,
                 executions>>

Approvers(x) == {pending[x].approvals[i] : i \in 1..Len(pending[x].approvals)}

ApproveAction(by, x) ==
  /\ HasEmergency(by)
  /\ pending[x] # NoRecord
  /\ ~pending[x].executed
  /\ now <= pending[x].expires
  /\ by \notin Approvers(x)
  /\ pending' = [pending EXCEPT ![x].approvals = Append(@, by)]
  /\ UNCHANGED <<now, rosterVars, threshold, proposal, proposals, rotations,
                 executions>>

(* execute_action, by anyone, also after it expired, with the threshold of *)
(* now and whoever its approvers have become.                              *)
ExecuteAction(x) ==
  /\ pending[x] # NoRecord
  /\ ~pending[x].executed
  /\ Len(pending[x].approvals) >= threshold
  /\ pending' = [pending EXCEPT ![x].executed = TRUE]
  /\ executions' = Append(executions, [action |-> x, of |-> threshold])
  /\ UNCHANGED <<now, rosterVars, threshold, proposal, proposals, rotations>>

-----------------------------------------------------------------------------
RosterStep ==
  \/ MigrateToMultiAdmin
  \/ \E by, a \in Addresses :
       \/ RemoveAdmin(by, a)
       \/ \E r \in AdminRoles :
            AssignRole(by, a, r) \/ AddAdmin(by, a, r) \/ UpdateAdminRole(by, a, r)
       \/ \E active \in BOOLEAN : SetActive(by, a, active)
  \/ \E by \in Addresses : DeactivateRole(by)
  \/ \E a \in Addresses : TransferAdmin(a)

ApprovalStep ==
  \/ \E by \in Addresses, n \in 1..Cardinality(Addresses) :
       ProposeThreshold(by, n)
  \/ ConfirmThreshold
  \/ \E by \in Addresses : CancelThresholdProposal(by)
  \/ \E by \in Addresses, x \in Actions :
       CreatePendingAction(by, x) \/ ApproveAction(by, x)
  \/ \E x \in Actions : ExecuteAction(x)

AdminsNext == RosterStep \/ ApprovalStep \/ (Tick /\ UNCHANGED adminsVars)

AdminsSpec == AdminsInit /\ [][AdminsNext]_<<now, adminsVars>>

-----------------------------------------------------------------------------
(* What is executed has the approval of as many different addresses as the *)
(* threshold in force asked for, and is executed once, however the         *)
(* administrators and the threshold changed since it was created           *)
(* (approve_action, execute_action).                                       *)
ExecutedOnApproval ==
  /\ \A i \in 1..Len(executions) :
       Cardinality(Approvers(executions[i].action)) >= executions[i].of
  /\ \A i, j \in 1..Len(executions) :
       executions[i].action = executions[j].action => i = j

(* A threshold applies no earlier than the full delay after the proposal   *)
(* that named it, though the proposal may have been replaced, cancelled    *)
(* and made again meanwhile (propose_threshold, confirm_threshold), and    *)
(* the threshold is what was last applied.                                 *)
ThresholdWaited ==
  /\ \A i \in 1..Len(rotations) :
       rotations[i].applied >= rotations[i].at + RotationDelay
  /\ threshold = IF rotations = <<>> THEN 1 ELSE rotations[Len(rotations)].to

(* Whatever is added, removed, handed over and migrated again, the list    *)
(* names administrators with an assignment, and the count, which bounds    *)
(* the threshold that may be proposed, is never more than the list names.  *)
(* The three agree until a migration is repeated over assignments that it  *)
(* drops off the list but keeps: removing one of those lowers the count    *)
(* for nobody (add_admin, remove_admin, migrate_to_multi_admin).           *)
RosterCounted ==
  /\ roster \subseteq Holders
  /\ Stored(rosterCount) <= Cardinality(roster)
  /\ ~orphaned => roster = Holders /\ Stored(rosterCount) = Cardinality(roster)

=============================================================================
