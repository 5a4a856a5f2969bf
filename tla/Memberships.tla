---------------------------- MODULE Memberships ----------------------------
(***************************************************************************)
(* The members of organizations: requests pass the guards (membership,     *)
(* role) and then read before they write, so a request may act on a role   *)
(* that another has changed since (organizations/, common/guards/,         *)
(* web settings/members page).                                             *)
(***************************************************************************)
EXTENDS Naturals, Absent

CONSTANTS People, Orgs,
          MemberCalls  \* requests in progress at once (bound)

ASSUME MembershipsAssumption == Nobody \notin People

VARIABLES
  registered,  \* people with a users row
  founder,     \* who created the organization, for the properties
  role,        \* memberships: the role of a person in an organization, "" without a row
  call         \* the requests in progress

memberVars == <<registered, founder, role, call>>

Roles == {"OWNER", "ADMIN", "MEMBER", "VIEWER"}
ROLE_HIERARCHY == [OWNER |-> 4, ADMIN |-> 3, MEMBER |-> 2, VIEWER |-> 1]
\* What the routes ask for, and the least role they ask for.
Required == [invite |-> "ADMIN", updateRole |-> "OWNER", remove |-> "ADMIN"]

\* `seen` is the role the handler read, `gone` that the row it read was deleted since.
NoCall == [pc |-> "idle", op |-> "invite", org |-> Nobody, target |-> Nobody,
           role |-> "VIEWER", seen |-> "", gone |-> FALSE]
Calls == [pc : {"idle", "handler", "user", "seat", "write"}, op : DOMAIN Required,
          org : Orgs \cup {Nobody}, target : People \cup {Nobody}, role : Roles,
          seen : Roles \cup {""}, gone : BOOLEAN]

MemberTypeOK ==
  /\ registered \subseteq People /\ founder \in [Orgs -> People \cup {Nobody}]
  /\ role \in [Orgs -> [People -> Roles \cup {""}]]
  /\ call \in [MemberCalls -> Calls]

\* Somebody has registered; others may be known by their address only.
MemberInit ==
  /\ \E p \in People : registered = {p}
  /\ founder = [o \in Orgs |-> Nobody]
  /\ role = [o \in Orgs |-> [p \in People |-> ""]]
  /\ call = [r \in MemberCalls |-> NoCall]

Done(r) == call' = [call EXCEPT ![r] = NoCall]

\* One nested create: the organization and its OWNER.  A slug that is taken conflicts.
CreateOrg(p, o) ==
  /\ p \in registered /\ founder[o] = Nobody
  /\ founder' = [founder EXCEPT ![o] = p]
  /\ role' = [role EXCEPT ![o][p] = "OWNER"]
  /\ UNCHANGED <<registered, call>>

\* OrgMemberGuard and RolesGuard, on the roles of this moment.
MayCall(p, o, op) == role[o][p] # "" /\ ROLE_HIERARCHY[role[o][p]] >= ROLE_HIERARCHY[Required[op]]

\* What the members page offers its user is decided by the role the auth store got at
\* login; the guards decide again, so any request may arrive.
Guarded(r, p, o) ==
  /\ call[r].pc = "idle"
  /\ \E op \in DOMAIN Required, target \in People, new \in Roles :
       /\ MayCall(p, o, op)
       /\ op = "remove" => new = "VIEWER"
       /\ call' = [call EXCEPT ![r] = [pc |-> "handler", op |-> op, org |-> o, target |-> target,
                                        role |-> new, seen |-> "", gone |-> FALSE]]
  /\ UNCHANGED <<registered, founder, role>>

\* inviteMember: nobody is invited as OWNER; a new address needs a password.
Invite(r) ==
  /\ call[r].pc = "handler" /\ call[r].op = "invite"
  /\ IF call[r].role = "OWNER" THEN Done(r)
     ELSE IF call[r].target \in registered THEN call' = [call EXCEPT ![r].pc = "seat"]
     ELSE \/ call' = [call EXCEPT ![r].pc = "user"]
          \/ Done(r)
  /\ UNCHANGED <<registered, founder, role>>

\* The account is created; when another invitation was faster its address is taken.
CreateUser(r) ==
  /\ call[r].pc = "user"
  /\ IF call[r].target \in registered THEN Done(r) /\ UNCHANGED registered
     ELSE /\ registered' = registered \cup {call[r].target}
          /\ call' = [call EXCEPT ![r].pc = "seat"]
  /\ UNCHANGED <<founder, role>>

FindMembership(r) ==
  /\ call[r].pc = "seat"
  /\ IF role[call[r].org][call[r].target] # "" THEN Done(r) ELSE call' = [call EXCEPT ![r].pc = "write"]
  /\ UNCHANGED <<registered, founder, role>>

ReadTargetAny(r) ==  \* mutant: the owner's row may be removed
  /\ call[r].pc = "handler" /\ call[r].op # "invite"
  /\ LET seen == role[call[r].org][call[r].target] IN
     IF seen = "" \/ (seen = "OWNER" /\ call[r].op = "updateRole") THEN Done(r)
     ELSE call' = [call EXCEPT ![r].pc = "write", ![r].seen = seen]
  /\ UNCHANGED <<registered, founder, role>>

\* updateMemberRole and removeMember: there must be a row, and not an OWNER's.
ReadTarget(r) ==
  /\ call[r].pc = "handler" /\ call[r].op # "invite"
  /\ LET seen == role[call[r].org][call[r].target] IN
     IF seen \in {"", "OWNER"} THEN Done(r)
     ELSE call' = [call EXCEPT ![r].pc = "write", ![r].seen = seen]
  /\ UNCHANGED <<registered, founder, role>>

\* The row is created, unless one is there by now.
Seat(r) ==
  /\ call[r].pc = "write" /\ call[r].op = "invite"
  /\ role' = IF role[call[r].org][call[r].target] # "" THEN role
             ELSE [role EXCEPT ![call[r].org][call[r].target] = call[r].role]
  /\ Done(r)
  /\ UNCHANGED <<registered, founder>>

\* The row that was read gets the new role, whatever it says by now.
WriteRole(r) ==
  /\ call[r].pc = "write" /\ call[r].op = "updateRole"
  /\ role' = IF call[r].gone THEN role ELSE [role EXCEPT ![call[r].org][call[r].target] = call[r].role]
  /\ Done(r)
  /\ UNCHANGED <<registered, founder>>

DeleteMember(r) ==
  /\ call[r].pc = "write" /\ call[r].op = "remove"
  /\ role' = IF call[r].gone THEN role ELSE [role EXCEPT ![call[r].org][call[r].target] = ""]
  /\ call' = [q \in MemberCalls |->
                IF q = r THEN NoCall
                ELSE [call[q] EXCEPT !.gone = call[q].gone \/ (call[q].seen # "" /\ call[q].org = call[r].org
                                                             /\ call[q].target = call[r].target)]]
  /\ UNCHANGED <<registered, founder>>

\* A query throws or the process dies; what was written stays.
CallDies(r) ==
  /\ call[r].pc # "idle" /\ Done(r)
  /\ UNCHANGED <<registered, founder, role>>

MemberNext ==
  \/ \E p \in People, o \in Orgs : CreateOrg(p, o)
  \/ \E r \in MemberCalls :
       \/ Invite(r) \/ CreateUser(r) \/ FindMembership(r) \/ ReadTarget(r)
       \/ Seat(r) \/ WriteRole(r) \/ DeleteMember(r) \/ CallDies(r)
       \/ \E p \in People, o \in Orgs : Guarded(r, p, o)

MemberSpec == MemberInit /\ [][MemberNext]_memberVars

-----------------------------------------------------------------------------
\* An organization keeps the OWNER who founded it, whatever the requests in progress
\* read and write; and any OWNER keeps the role unless a request read the row before
\* the promotion (organizations.service.ts 134, 157: "Cannot change owner role").
OwnersRemain ==
  [][\A o \in Orgs, p \in People :
       role[o][p] = "OWNER" /\ role'[o][p] # "OWNER" =>
         /\ p # founder[o]
         /\ \E r \in MemberCalls : /\ call[r].pc = "write" /\ call[r].org = o /\ call[r].target = p
                                   /\ call[r].seen \in Roles \ {"OWNER"}]_memberVars
=============================================================================
