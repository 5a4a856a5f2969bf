-------------------------- MODULE Services_proofs --------------------------
(***************************************************************************)
(* What holds of the services around plans and optimizer for any number of *)
(* people, organizations, requests, tabs and runs; at the end, that their  *)
(* variables are in their domains.                                         *)
(***************************************************************************)
EXTENDS Memberships, Sessions, Wizard, Learning, Alerts, Consents, Providers, TLAPS

-----------------------------------------------------------------------------
(* Memberships: the founder keeps the role *)

\* A request in progress is about an organization that was founded, and what it read of
\* the row it is about to write was not an OWNER's: the founder's row is not among them.
Founded ==
  /\ \A o \in Orgs, p \in People : founder[o] = Nobody => role[o][p] = ""
  /\ \A o \in Orgs : founder[o] # Nobody => role[o][founder[o]] = "OWNER"
Requested(x) ==
  x.pc # "idle" => x.org \in Orgs /\ x.target \in People /\ founder[x.org] # Nobody
Invites(x) == x.pc \in {"user", "seat"} => x.op = "invite"
ReadNoOwner(x) ==
  x.pc = "write" /\ x.op # "invite" => x.target # founder[x.org] /\ x.seen \in Roles \ {"OWNER"}
InOrder(x) == x \in Calls /\ Requested(x) /\ Invites(x) /\ ReadNoOwner(x)

MemberInv ==
  /\ founder \in [Orgs -> People \cup {Nobody}]
  /\ role \in [Orgs -> [People -> Roles \cup {""}]]
  /\ call \in [MemberCalls -> Calls]
  /\ Founded
  /\ \A r \in MemberCalls : InOrder(call[r])

LEMMA NoCallIsACall == NoCall \in Calls /\ NoCall.pc = "idle"
  BY DEF NoCall, Calls, Required, Roles

\* A request that ends.
LEMMA DoneKeeps ==
  ASSUME MemberInv, NEW r \in MemberCalls, Done(r), UNCHANGED founder
  PROVE  call' \in [MemberCalls -> Calls] /\ \A q \in MemberCalls : InOrder(call[q])'
<1>1. call' = [call EXCEPT ![r] = NoCall]
  BY DEF Done
<1>2. call' \in [MemberCalls -> Calls] /\ call'[r] = NoCall /\ \A q \in MemberCalls : q # r => call'[q] = call[q]
  BY <1>1, NoCallIsACall DEF MemberInv
<1> QED
  BY <1>2, NoCallIsACall DEF MemberInv, InOrder, Requested, Invites, ReadNoOwner

\* One role of an organization is written, and it is not the founder's.
LEMMA RoleWritten ==
  ASSUME MemberInv, NEW o \in Orgs, NEW p \in People, founder[o] # Nobody, NEW v \in Roles \cup {""},
         p = founder[o] => v = "OWNER",
         role' = [role EXCEPT ![o][p] = v], UNCHANGED founder
  PROVE  role' \in [Orgs -> [People -> Roles \cup {""}]] /\ Founded'
         /\ role'[o][p] = v
         /\ \A e \in Orgs, q \in People : <<e, q>> # <<o, p>> => role'[e][q] = role[e][q]
<1>1. /\ role' \in [Orgs -> [People -> Roles \cup {""}]] /\ role'[o][p] = v
      /\ \A e \in Orgs, q \in People : <<e, q>> # <<o, p>> => role'[e][q] = role[e][q]
  BY DEF MemberInv
<1>2. Founded'
  <2>1. ASSUME NEW e \in Orgs, NEW q \in People, founder[e] = Nobody PROVE role'[e][q] = ""
    <3>1. e # o /\ role[e][q] = ""
      BY <2>1 DEF MemberInv, Founded
    <3> QED
      BY <1>1, <3>1
  <2>2. ASSUME NEW e \in Orgs, founder[e] # Nobody PROVE role'[e][founder[e]] = "OWNER"
    <3>1. founder[e] \in People /\ role[e][founder[e]] = "OWNER"
      <4>1. founder[e] \in People \cup {Nobody}
        BY DEF MemberInv
      <4> QED
        BY <2>2, <4>1 DEF MemberInv, Founded
    <3>2. CASE <<e, founder[e]>> = <<o, p>>
      BY <1>1, <3>2
    <3>3. CASE <<e, founder[e]>> # <<o, p>>
      BY <1>1, <3>1, <3>3
    <3> QED
      BY <3>2, <3>3
  <2> QED
    BY <2>1, <2>2 DEF Founded
<1> QED
  BY <1>1, <1>2

LEMMA MemberInitInv == MemberInit => MemberInv
<1> SUFFICES ASSUME MemberInit PROVE MemberInv
  OBVIOUS
<1> QED
  BY NoCallIsACall DEF MemberInit, MemberInv, Founded, InOrder, Requested, Invites, ReadNoOwner

LEMMA CreateOrgKeeps ==
  ASSUME MemberInv, NEW p \in People, NEW o \in Orgs, CreateOrg(p, o)
  PROVE  MemberInv'
<1>1. p # Nobody
  BY MembershipsAssumption
<1>2. /\ founder' \in [Orgs -> People \cup {Nobody}] /\ founder'[o] = p
      /\ \A e \in Orgs : e # o => founder'[e] = founder[e]
      /\ founder[o] = Nobody
  BY DEF CreateOrg, MemberInv
<1>3. /\ role' \in [Orgs -> [People -> Roles \cup {""}]] /\ role'[o][p] = "OWNER"
      /\ \A e \in Orgs, q \in People : e # o => role'[e][q] = role[e][q]
  BY DEF CreateOrg, MemberInv, Roles
<1>4. Founded'
  <2>1. ASSUME NEW e \in Orgs, NEW q \in People, founder'[e] = Nobody PROVE role'[e][q] = ""
    <3>1. e # o /\ founder[e] = Nobody
      BY <1>1, <1>2, <2>1
    <3>2. role[e][q] = ""
      BY <3>1 DEF MemberInv, Founded
    <3> QED
      BY <1>3, <3>1, <3>2
  <2>2. ASSUME NEW e \in Orgs, founder'[e] # Nobody PROVE role'[e][founder'[e]] = "OWNER"
    <3>1. CASE e = o
      BY <1>2, <1>3, <3>1
    <3>2. CASE e # o
      <4>1. founder[e] \in People /\ founder'[e] = founder[e] /\ role[e][founder[e]] = "OWNER"
        <5>1. founder[e] \in People \cup {Nobody} /\ founder'[e] = founder[e]
          BY <1>2, <3>2 DEF MemberInv
        <5> QED
          BY <2>2, <5>1 DEF MemberInv, Founded
      <4> QED
        BY <1>3, <3>2, <4>1
    <3> QED
      BY <3>1, <3>2
  <2> QED
    BY <2>1, <2>2 DEF Founded
<1>5. \A r \in MemberCalls : InOrder(call[r])'
  <2> SUFFICES ASSUME NEW r \in MemberCalls PROVE InOrder(call[r])'
    OBVIOUS
  <2>1. UNCHANGED call /\ InOrder(call[r])
    BY DEF CreateOrg, MemberInv
  <2>2. CASE call[r].pc = "idle"
    BY <2>1, <2>2 DEF InOrder, Requested, Invites, ReadNoOwner
  <2>3. CASE call[r].pc # "idle"
    <3>1. call[r].org \in Orgs /\ founder'[call[r].org] = founder[call[r].org] /\ founder[call[r].org] # Nobody
      BY <1>2, <2>1, <2>3 DEF InOrder, Requested
    <3> QED
      BY <2>1, <3>1 DEF InOrder, Requested, Invites, ReadNoOwner
  <2> QED
    BY <2>2, <2>3
<1> QED
  BY <1>2, <1>3, <1>4, <1>5 DEF MemberInv, CreateOrg

\* A request that is let past the guards: its caller is a member, so the organization
\* was founded.
LEMMA GuardedKeeps ==
  ASSUME MemberInv, NEW r \in MemberCalls, NEW p \in People, NEW o \in Orgs, Guarded(r, p, o)
  PROVE  MemberInv'
<1>1. PICK op \in DOMAIN Required, target \in People, new \in Roles :
        /\ MayCall(p, o, op)
        /\ call' = [call EXCEPT ![r] = [pc |-> "handler", op |-> op, org |-> o, target |-> target,
                                        role |-> new, seen |-> "", gone |-> FALSE]]
  BY DEF Guarded
<1> DEFINE x == [pc |-> "handler", op |-> op, org |-> o, target |-> target,
                 role |-> new, seen |-> "", gone |-> FALSE]
<1>2. call' = [call EXCEPT ![r] = x]
  BY <1>1
<1>3. founder[o] # Nobody
  BY <1>1 DEF MayCall, MemberInv, Founded
<1>4. x \in Calls /\ x.pc = "handler" /\ x.org = o /\ x.target \in People
  BY DEF Calls
<1> HIDE DEF x
<1>5. call' \in [MemberCalls -> Calls] /\ call'[r] = x /\ \A q \in MemberCalls : q # r => call'[q] = call[q]
  BY <1>2, <1>4 DEF MemberInv
<1>6. UNCHANGED <<founder, role>>
  BY DEF Guarded
<1>7. InOrder(x)
  BY <1>3, <1>4 DEF InOrder, Requested, Invites, ReadNoOwner
<1>8. \A q \in MemberCalls : InOrder(call[q])'
  BY <1>5, <1>6, <1>7 DEF MemberInv, InOrder, Requested, Invites, ReadNoOwner
<1> QED
  BY <1>5, <1>6, <1>8 DEF MemberInv, Founded

\* A request that goes on as x, the table of roles as it was.
LEMMA RequestMoves ==
  ASSUME MemberInv, NEW r \in MemberCalls, UNCHANGED <<founder, role>>,
         NEW x, call' = [call EXCEPT ![r] = x], InOrder(x)
  PROVE  MemberInv'
<1>1. call' \in [MemberCalls -> Calls] /\ call'[r] = x /\ \A q \in MemberCalls : q # r => call'[q] = call[q]
  BY DEF MemberInv, InOrder
<1>2. \A q \in MemberCalls : InOrder(call[q])'
  BY <1>1 DEF MemberInv, InOrder, Requested, Invites, ReadNoOwner
<1> QED
  BY <1>1, <1>2 DEF MemberInv, Founded

LEMMA RequestEnds ==
  ASSUME MemberInv, NEW r \in MemberCalls, UNCHANGED <<founder, role>>, Done(r)
  PROVE  MemberInv'
  BY DoneKeeps DEF MemberInv, Founded

\* A step of the request to the next one.
LEMMA NextPc ==
  ASSUME MemberInv, NEW r \in MemberCalls, NEW p \in {"user", "seat", "write"},
         call[r].pc # "idle", call[r].op = "invite"
  PROVE  InOrder([call[r] EXCEPT !.pc = p])
<1>1. call[r] \in Calls /\ InOrder(call[r])
  BY DEF MemberInv
<1> DEFINE x == [call[r] EXCEPT !.pc = p]
<1>2. x \in Calls /\ x.pc = p /\ x.op = call[r].op /\ x.org = call[r].org /\ x.target = call[r].target
  BY <1>1 DEF Calls
<1> QED
  BY <1>1, <1>2 DEF InOrder, Requested, Invites, ReadNoOwner

LEMMA InvitationKeeps ==
  ASSUME MemberInv, NEW r \in MemberCalls, Invite(r) \/ CreateUser(r) \/ FindMembership(r)
  PROVE  MemberInv'
<1>1. call[r].pc # "idle" /\ call[r].op = "invite" /\ UNCHANGED <<founder, role>>
  BY DEF Invite, CreateUser, FindMembership, MemberInv, InOrder, Invites
<1>2. Done(r) \/ \E p \in {"user", "seat", "write"} : call' = [call EXCEPT ![r].pc = p]
  BY DEF Invite, CreateUser, FindMembership
<1>3. CASE Done(r)
  BY <1>1, <1>3, RequestEnds
<1>4. ASSUME NEW p \in {"user", "seat", "write"}, call' = [call EXCEPT ![r].pc = p] PROVE MemberInv'
  <2>1. call' = [call EXCEPT ![r] = [call[r] EXCEPT !.pc = p]]
    BY <1>4
  <2>2. InOrder([call[r] EXCEPT !.pc = p])
    BY <1>1, <1>4, NextPc
  <2> QED
    BY <1>1, <2>1, <2>2, RequestMoves
<1> QED
  BY <1>2, <1>3, <1>4

LEMMA ReadTargetKeeps ==
  ASSUME MemberInv, NEW r \in MemberCalls, ReadTarget(r)
  PROVE  MemberInv'
<1> DEFINE seen == role[call[r].org][call[r].target]
<1>1. call[r].pc = "handler" /\ call[r].op # "invite" /\ UNCHANGED <<founder, role>>
  BY DEF ReadTarget
<1>2. CASE Done(r)
  BY <1>1, <1>2, RequestEnds
<1>3. CASE seen \notin {"", "OWNER"} /\ call' = [call EXCEPT ![r].pc = "write", ![r].seen = seen]
  <2>1. call[r] \in Calls /\ InOrder(call[r]) /\ call[r].org \in Orgs /\ call[r].target \in People
        /\ founder[call[r].org] # Nobody
    BY <1>1 DEF MemberInv, InOrder, Requested
  <2>2. seen \in Roles \ {"OWNER"}
    <3>1. role[call[r].org] \in [People -> Roles \cup {""}]
      BY <2>1 DEF MemberInv
    <3>2. seen \in Roles \cup {""}
      BY <2>1, <3>1
    <3> QED
      BY <1>3, <3>2
  <2>3. call[r].target # founder[call[r].org]
    BY <1>3, <2>1 DEF MemberInv, Founded
  <2> HIDE DEF seen
  <2> DEFINE y == [call[r] EXCEPT !.pc = "write"]
             x == [y EXCEPT !.seen = seen]
  <2>4. call' = [call EXCEPT ![r] = x]
    BY <1>3
  <2>5. y \in Calls /\ y.pc = "write" /\ y.op = call[r].op /\ y.org = call[r].org /\ y.target = call[r].target
    BY <2>1 DEF Calls
  <2> HIDE DEF y
  <2>6. x \in Calls /\ x.pc = "write" /\ x.op = y.op /\ x.org = y.org /\ x.target = y.target /\ x.seen = seen
    BY <2>2, <2>5 DEF Calls
  <2> HIDE DEF x
  <2>7. InOrder(x)
    BY <2>1, <2>2, <2>3, <2>5, <2>6 DEF InOrder, Requested, Invites, ReadNoOwner
  <2> QED
    BY <1>1, <2>4, <2>7, RequestMoves
<1> QED
  BY <1>2, <1>3 DEF ReadTarget

\* A request about to write: whose row it is, and that it is not the founder's unless
\* there is none.
LEMMA AboutToWrite ==
  ASSUME MemberInv, NEW r \in MemberCalls, call[r].pc = "write"
  PROVE  /\ call[r].org \in Orgs /\ call[r].target \in People /\ call[r].role \in Roles
         /\ founder[call[r].org] # Nobody
         /\ call[r].op # "invite" => call[r].target # founder[call[r].org] /\ call[r].seen \in Roles \ {"OWNER"}
         /\ role[call[r].org][call[r].target] = "" => call[r].target # founder[call[r].org]
<1>1. /\ call[r].org \in Orgs /\ call[r].target \in People /\ call[r].role \in Roles
      /\ founder[call[r].org] # Nobody
  BY DEF MemberInv, InOrder, Requested, Calls
<1>2. call[r].op # "invite" => call[r].target # founder[call[r].org] /\ call[r].seen \in Roles \ {"OWNER"}
  BY DEF MemberInv, InOrder, ReadNoOwner
<1>3. role[call[r].org][founder[call[r].org]] = "OWNER"
  BY <1>1 DEF MemberInv, Founded
<1> QED
  BY <1>1, <1>2, <1>3

LEMMA SeatKeeps ==
  ASSUME MemberInv, NEW r \in MemberCalls, Seat(r) \/ WriteRole(r)
  PROVE  MemberInv'
<1>1. call[r].pc = "write" /\ Done(r) /\ UNCHANGED founder
  BY DEF Seat, WriteRole
<1>2. call' \in [MemberCalls -> Calls] /\ \A q \in MemberCalls : InOrder(call[q])'
  BY <1>1, DoneKeeps
<1> DEFINE o == call[r].org
           p == call[r].target
           v == call[r].role
<1>3. /\ o \in Orgs /\ p \in People /\ founder[o] # Nobody /\ v \in Roles \cup {""}
      /\ call[r].op # "invite" => p # founder[o]
      /\ role[o][p] = "" => p # founder[o]
  BY <1>1, AboutToWrite
<1>4. UNCHANGED role \/ (role' = [role EXCEPT ![o][p] = v] /\ p # founder[o])
  BY <1>3 DEF Seat, WriteRole
<1> HIDE DEF o, p, v
<1>5. role' \in [Orgs -> [People -> Roles \cup {""}]] /\ Founded'
  <2>1. CASE UNCHANGED role
    BY <1>1, <2>1 DEF MemberInv, Founded
  <2>2. CASE role' = [role EXCEPT ![o][p] = v] /\ p # founder[o]
    BY <1>1, <1>3, <2>2, RoleWritten
  <2> QED
    BY <1>4, <2>1, <2>2
<1> QED
  BY <1>1, <1>2, <1>5 DEF MemberInv

LEMMA DeleteKeeps ==
  ASSUME MemberInv, NEW r \in MemberCalls, DeleteMember(r)
  PROVE  MemberInv'
<1>1. call[r].pc = "write" /\ call[r].op = "remove" /\ UNCHANGED founder
  BY DEF DeleteMember
<1> DEFINE gone(q) == call[q].gone \/ (call[q].seen # "" /\ call[q].org = call[r].org
                                       /\ call[q].target = call[r].target)
           marked(q) == [call[q] EXCEPT !.gone = gone(q)]
<1>2. call' = [q \in MemberCalls |-> IF q = r THEN NoCall ELSE marked(q)]
  BY DEF DeleteMember
<1>3. ASSUME NEW q \in MemberCalls PROVE InOrder(marked(q))
  <2>1. call[q] \in Calls /\ InOrder(call[q])
    BY DEF MemberInv
  <2>2. gone(q) \in BOOLEAN
    BY <2>1 DEF Calls
  <2> HIDE DEF gone
  <2>3. /\ marked(q) \in Calls /\ marked(q).pc = call[q].pc /\ marked(q).op = call[q].op
        /\ marked(q).org = call[q].org /\ marked(q).target = call[q].target /\ marked(q).seen = call[q].seen
    BY <2>1, <2>2 DEF Calls
  <2> HIDE DEF marked
  <2> QED
    BY <2>1, <2>3 DEF InOrder, Requested, Invites, ReadNoOwner
<1> HIDE DEF marked
<1>4. call' \in [MemberCalls -> Calls] /\ \A q \in MemberCalls : InOrder(call'[q])
  <2>1. \A q \in MemberCalls : call'[q] = NoCall \/ call'[q] = marked(q)
    BY <1>2
  <2>2. InOrder(NoCall)
    BY NoCallIsACall DEF InOrder, Requested, Invites, ReadNoOwner
  <2>3. \A q \in MemberCalls : InOrder(call'[q])
    BY <1>3, <2>1, <2>2
  <2> QED
    BY <1>2, <2>3 DEF InOrder
<1>5. \A q \in MemberCalls : InOrder(call[q])'
  BY <1>1, <1>4 DEF InOrder, Requested, Invites, ReadNoOwner
<1> DEFINE o == call[r].org
           p == call[r].target
<1>6. /\ o \in Orgs /\ p \in People /\ founder[o] # Nobody /\ p # founder[o]
  BY <1>1, AboutToWrite
<1>7. UNCHANGED role \/ role' = [role EXCEPT ![o][p] = ""]
  BY DEF DeleteMember
<1> HIDE DEF o, p
<1>8. role' \in [Orgs -> [People -> Roles \cup {""}]] /\ Founded'
  <2>1. CASE UNCHANGED role
    BY <1>1, <2>1 DEF MemberInv, Founded
  <2>2. CASE role' = [role EXCEPT ![o][p] = ""]
    BY <1>1, <1>6, <2>2, RoleWritten
  <2> QED
    BY <1>7, <2>1, <2>2
<1> QED
  BY <1>1, <1>4, <1>5, <1>8 DEF MemberInv

LEMMA MemberNextInv == MemberInv /\ [MemberNext]_memberVars => MemberInv'
<1> SUFFICES ASSUME MemberInv, [MemberNext]_memberVars PROVE MemberInv'
  OBVIOUS
<1>1. ASSUME NEW p \in People, NEW o \in Orgs, CreateOrg(p, o) PROVE MemberInv'
  BY <1>1, CreateOrgKeeps
<1>2. ASSUME NEW r \in MemberCalls, NEW p \in People, NEW o \in Orgs, Guarded(r, p, o) PROVE MemberInv'
  BY <1>2, GuardedKeeps
<1>3. ASSUME NEW r \in MemberCalls,
             \/ Invite(r) \/ CreateUser(r) \/ FindMembership(r) \/ ReadTarget(r)
             \/ Seat(r) \/ WriteRole(r) \/ DeleteMember(r) \/ CallDies(r)
      PROVE  MemberInv'
  BY <1>3, InvitationKeeps, ReadTargetKeeps, SeatKeeps, DeleteKeeps, RequestEnds DEF CallDies
<1>4. CASE UNCHANGED memberVars
  BY <1>4 DEF memberVars, MemberInv, Founded, InOrder, Requested, Invites, ReadNoOwner
<1> QED
  BY <1>1, <1>2, <1>3, <1>4 DEF MemberNext

LEMMA OtherRoles ==
  ASSUME NEW f \in [Orgs -> [People -> Roles \cup {""}]], NEW e \in Orgs, NEW q \in People, NEW v,
         NEW g, g = [f EXCEPT ![e][q] = v], NEW o \in Orgs, NEW p \in People, o # e \/ p # q
  PROVE  g[o][p] = f[o][p]
<1>1. CASE o # e
  BY <1>1
<1>2. CASE o = e /\ p # q
  BY <1>2
<1> QED
  BY <1>1, <1>2

\* What one step may do to an OWNER's row.
OwnerStep ==
  \A o \in Orgs, p \in People :
    role[o][p] = "OWNER" /\ role'[o][p] # "OWNER" =>
      /\ p # founder[o]
      /\ \E r \in MemberCalls : /\ call[r].pc = "write" /\ call[r].org = o /\ call[r].target = p
                                /\ call[r].seen \in Roles \ {"OWNER"}

LEMMA OwnerStepHolds == MemberInv /\ [MemberNext]_memberVars => OwnerStep
<1> SUFFICES ASSUME MemberInv, [MemberNext]_memberVars, NEW o \in Orgs, NEW p \in People,
                    role[o][p] = "OWNER", role'[o][p] # "OWNER"
             PROVE  /\ p # founder[o]
                    /\ \E r \in MemberCalls : /\ call[r].pc = "write" /\ call[r].org = o /\ call[r].target = p
                                              /\ call[r].seen \in Roles \ {"OWNER"}
  BY DEF OwnerStep
<1>1. role \in [Orgs -> [People -> Roles \cup {""}]]
  BY DEF MemberInv
<1>2. ASSUME NEW e \in Orgs, NEW q \in People, CreateOrg(q, e) PROVE FALSE
  <2>1. role' = [role EXCEPT ![e][q] = "OWNER"]
    BY <1>2 DEF CreateOrg
  <2> QED
    BY <1>1, <2>1
<1>3. ASSUME NEW r \in MemberCalls, Seat(r) PROVE FALSE
  <2>1. \/ UNCHANGED role
        \/ role[call[r].org][call[r].target] = "" /\ role' = [role EXCEPT ![call[r].org][call[r].target] = call[r].role]
    BY <1>3 DEF Seat
  <2>2. call[r].org \in Orgs /\ call[r].target \in People
    BY <1>3, AboutToWrite DEF Seat
  <2> DEFINE e == call[r].org
             q == call[r].target
             v == call[r].role
  <2>3. e \in Orgs /\ q \in People /\ role[e][q] = "" /\ role' = [role EXCEPT ![e][q] = v]
    BY <2>1, <2>2
  <2> HIDE DEF e, q, v
  <2>4. o # e \/ p # q
    BY <2>3
  <2>5. role'[o][p] = role[o][p]
    BY <1>1, <2>3, <2>4, OtherRoles
  <2> QED
    BY <2>5
<1>4. ASSUME NEW r \in MemberCalls, WriteRole(r) \/ DeleteMember(r)
      PROVE  /\ p # founder[o]
             /\ call[r].pc = "write" /\ call[r].org = o /\ call[r].target = p
             /\ call[r].seen \in Roles \ {"OWNER"}
  <2>1. call[r].pc = "write" /\ call[r].op # "invite"
    BY <1>4 DEF WriteRole, DeleteMember
  <2>2. \/ UNCHANGED role
        \/ \E v \in Roles \cup {""} : role' = [role EXCEPT ![call[r].org][call[r].target] = v]
    BY <1>4, <2>1, AboutToWrite DEF WriteRole, DeleteMember
  <2>3. /\ call[r].org \in Orgs /\ call[r].target \in People
        /\ call[r].target # founder[call[r].org] /\ call[r].seen \in Roles \ {"OWNER"}
    BY <2>1, AboutToWrite
  <2>4. call[r].org = o /\ call[r].target = p
    <3> DEFINE e == call[r].org
               q == call[r].target
    <3> SUFFICES ASSUME o # e \/ p # q PROVE FALSE
      OBVIOUS
    <3>1. PICK v : role' = [role EXCEPT ![e][q] = v]
      BY <2>2
    <3>2. e \in Orgs /\ q \in People
      BY <2>3
    <3> HIDE DEF e, q
    <3>3. role'[o][p] = role[o][p]
      BY <1>1, <3>1, <3>2, OtherRoles
    <3> QED
      BY <3>3
  <2> QED
    BY <2>1, <2>3, <2>4
<1>5. \/ \E e \in Orgs, q \in People : CreateOrg(q, e)
      \/ \E r \in MemberCalls : Seat(r) \/ WriteRole(r) \/ DeleteMember(r)
      \/ UNCHANGED role
  BY DEF MemberNext, memberVars, Guarded, Invite, CreateUser, FindMembership, ReadTarget, CallDies
<1> QED
  BY <1>2, <1>3, <1>4, <1>5

\* The founder of an organization stays its OWNER, and any other OWNER's row is changed
\* only by a request that had read it before the promotion (organizations.service.ts
\* 121-175): for any number of people, organizations and requests in progress.
THEOREM OwnersCorrect == MemberSpec => OwnersRemain
<1>1. MemberInv /\ [MemberNext]_memberVars => [OwnerStep]_memberVars
  BY OwnerStepHolds
<1> QED
  BY <1>1, MemberInitInv, MemberNextInv, PTL DEF MemberSpec, OwnersRemain, OwnerStep

-----------------------------------------------------------------------------
(* Sessions: nobody is signed in again but by a login *)

\* Every stored hash is of a random string, so no presented refresh token finds its row,
\* and no tab is ever granted a pair by a refresh.
TabShape(r)  == r = [pc |-> r.pc, user |-> r.user, sent |-> r.sent, me |-> r.me]
StorageShape(s)      == s = [access |-> s.access, refresh |-> s.refresh, user |-> s.user]
HashedRaw(r) == r.tokenHash[1] = "rawRefreshToken"
SessionInv ==
  /\ tab = [t \in Tabs |-> tab[t]]
  /\ \A t \in Tabs : TabShape(tab[t]) /\ tab[t].pc # "granted"
  /\ StorageShape(storage)
  /\ \A row \in refreshToken : HashedRaw(row)

\* What one step may do to the tokens of the browser.
OutStep ==
  storage.access = Nobody /\ storage'.access # Nobody =>
    \E t \in Tabs : tab[t].pc = "login" /\ tab'[t].pc = "idle"

\* One tab goes on as r.
LEMMA TabMoves ==
  ASSUME SessionInv, NEW t \in Tabs, NEW r, tab' = [tab EXCEPT ![t] = r], TabShape(r), r.pc # "granted",
         StorageShape(storage'), \A row \in refreshToken' : HashedRaw(row)
  PROVE  SessionInv' /\ tab'[t] = r
<1>1. tab' = [u \in Tabs |-> tab'[u]] /\ tab'[t] = r /\ \A u \in Tabs : u # t => tab'[u] = tab[u]
  BY DEF SessionInv
<1> QED
  BY <1>1 DEF SessionInv, TabShape, StorageShape, HashedRaw

LEMMA TabPc ==
  ASSUME SessionInv, NEW t \in Tabs, NEW p, NEW r, r = [tab[t] EXCEPT !.pc = p]
  PROVE  TabShape(r) /\ r.pc = p
<1> PICK a, b, c, d : tab[t] = [pc |-> a, user |-> b, sent |-> c, me |-> d]
  BY DEF SessionInv, TabShape
<1> QED
  BY DEF TabShape

PcSent(r, p, n) == [r EXCEPT !.pc = p, !.sent = n]

LEMMA TabPcSent ==
  ASSUME SessionInv, NEW t \in Tabs, NEW p, NEW n
  PROVE  TabShape(PcSent(tab[t], p, n)) /\ PcSent(tab[t], p, n).pc = p
<1> PICK a, b, c, d : tab[t] = [pc |-> a, user |-> b, sent |-> c, me |-> d]
  BY DEF SessionInv, TabShape
<1> DEFINE x == [tab[t] EXCEPT !.pc = p]
<1>1. PcSent(tab[t], p, n) = [x EXCEPT !.sent = n]
  BY DEF PcSent
<1>2. x = [pc |-> p, user |-> b, sent |-> c, me |-> d]
  OBVIOUS
<1> HIDE DEF x
<1>3. PcSent(tab[t], p, n) = [pc |-> p, user |-> b, sent |-> n, me |-> d]
  BY <1>1, <1>2
<1> QED
  BY <1>3 DEF TabShape

LEMMA TabUser ==
  ASSUME SessionInv, NEW t \in Tabs, NEW u, NEW r, r = [tab[t] EXCEPT !.user = u]
  PROVE  TabShape(r) /\ r.pc = tab[t].pc
<1> PICK a, b, c, d : tab[t] = [pc |-> a, user |-> b, sent |-> c, me |-> d]
  BY DEF SessionInv, TabShape
<1> QED
  BY DEF TabShape

Writes(t, p, n) == [tab EXCEPT ![t].pc = p, ![t].sent = n]

LEMMA TwoTabFields ==
  ASSUME SessionInv, NEW t \in Tabs, NEW p, NEW n
  PROVE  Writes(t, p, n) = [tab EXCEPT ![t] = PcSent(tab[t], p, n)]
<1> DEFINE x == [tab[t] EXCEPT !.pc = p]
           f == [tab EXCEPT ![t] = x]
<1>1. Writes(t, p, n) = [f EXCEPT ![t] = [f[t] EXCEPT !.sent = n]]
  BY DEF Writes
<1>2. f[t] = x /\ f = [u \in Tabs |-> f[u]] /\ \A u \in Tabs : u # t => f[u] = tab[u]
  BY DEF SessionInv
<1>3. PcSent(tab[t], p, n) = [x EXCEPT !.sent = n]
  BY DEF PcSent
<1> HIDE DEF x, f
<1> DEFINE y == [x EXCEPT !.sent = n]
<1> HIDE DEF y
<1>4. [f EXCEPT ![t] = y] = [tab EXCEPT ![t] = y]
  BY <1>2 DEF SessionInv
<1> QED
  BY <1>1, <1>2, <1>3, <1>4 DEF y

LEMMA ServiceSteps ==
  ASSUME SessionInv, UserRowChanges \/ TokenLapses \/ \E u \in Users : Register(u)
  PROVE  SessionInv' /\ OutStep
  BY DEF UserRowChanges, TokenLapses, Register, SessionInv, OutStep, TabShape, StorageShape, HashedRaw

LEMMA LoginStep ==
  ASSUME SessionInv, NEW t \in Tabs, NEW u \in Users, Login(t, u)
  PROVE  SessionInv' /\ OutStep
<1>1. PICK n \in Pairs : /\ GenerateTokenPair(n, u, refreshToken)
                         /\ tab' = [tab EXCEPT ![t].pc = "login", ![t].sent = n]
  BY DEF Login
<1>2. \A row \in refreshToken' : HashedRaw(row)
  BY <1>1 DEF SessionInv, GenerateTokenPair, StoredHash, HashedRaw
<1>3. tab' = [tab EXCEPT ![t] = PcSent(tab[t], "login", n)]
  <2>1. tab' = Writes(t, "login", n)
    BY <1>1 DEF Writes
  <2> QED
    BY <2>1, TwoTabFields
<1>4. UNCHANGED storage /\ StorageShape(storage')
  BY DEF Login, SessionInv, StorageShape
<1> DEFINE r == PcSent(tab[t], "login", n)
<1>5. TabShape(r) /\ r.pc = "login"
  BY TabPcSent
<1> HIDE DEF r
<1> QED
  BY <1>2, <1>3, <1>4, <1>5, TabMoves DEF OutStep, r

\* The steps of a tab that leave storage and the rows alone.
LEMMA QuietTabStep ==
  ASSUME SessionInv, NEW t \in Tabs, LoginLost(t) \/ Load(t) \/ Call(t) \/ TryRefresh(t) \/ RefreshLost(t)
  PROVE  SessionInv' /\ OutStep
<1>1. UNCHANGED <<storage, refreshToken>> /\ StorageShape(storage') /\ \A row \in refreshToken' : HashedRaw(row)
  BY DEF LoginLost, Load, Call, TryRefresh, RefreshLost, SessionInv, StorageShape, HashedRaw
<1>2. TabShape(Quiet) /\ Quiet.pc = "idle"
  BY DEF Quiet, TabShape
<1>3. PICK r : tab' = [tab EXCEPT ![t] = r] /\ TabShape(r) /\ r.pc # "granted"
  <2>1. CASE LoginLost(t)
    <3> DEFINE r == PcSent(tab[t], "idle", Nobody)
    <3>1. tab' = [tab EXCEPT ![t] = r]
      <4>1. tab' = Writes(t, "idle", Nobody)
        BY <2>1 DEF LoginLost, Writes
      <4> QED
        BY <4>1, TwoTabFields
    <3>2. TabShape(r) /\ r.pc = "idle"
      BY TabPcSent
    <3> HIDE DEF r
    <3> QED
      BY <3>1, <3>2
  <2>2. CASE Load(t)
    <3> DEFINE r == [pc |-> "sent", user |-> storage.user, sent |-> storage.access, me |-> storage.user]
    <3>1. tab' = [tab EXCEPT ![t] = Quiet] \/ tab' = [tab EXCEPT ![t] = r]
      BY <2>2 DEF Load
    <3>2. TabShape(r) /\ r.pc = "sent"
      BY DEF TabShape
    <3> HIDE DEF r
    <3> QED
      BY <1>2, <3>1, <3>2
  <2>3. CASE Call(t)
    <3> DEFINE r == PcSent(tab[t], "sent", storage.access)
    <3>1. tab' = [tab EXCEPT ![t] = r]
      <4>1. tab' = Writes(t, "sent", storage.access)
        BY <2>3 DEF Call, Writes
      <4> QED
        BY <4>1, TwoTabFields
    <3>2. TabShape(r) /\ r.pc = "sent"
      BY TabPcSent
    <3> HIDE DEF r
    <3> QED
      BY <3>1, <3>2
  <2>4. CASE TryRefresh(t)
    <3> DEFINE r == PcSent(tab[t], "refreshing", storage.refresh)
    <3>1. tab' = [tab EXCEPT ![t] = Quiet] \/ tab' = [tab EXCEPT ![t] = r]
      BY <2>4 DEF TryRefresh, PcSent
    <3>2. TabShape(r) /\ r.pc = "refreshing"
      BY TabPcSent
    <3> HIDE DEF r
    <3> QED
      BY <1>2, <3>1, <3>2
  <2>5. CASE RefreshLost(t)
    <3> DEFINE r == [tab[t] EXCEPT !.pc = "denied"]
    <3>1. tab' = [tab EXCEPT ![t] = r]
      BY <2>5 DEF RefreshLost
    <3>2. TabShape(r) /\ r.pc = "denied"
      BY TabPc
    <3> HIDE DEF r
    <3> QED
      BY <3>1, <3>2
  <2> QED
    BY <2>1, <2>2, <2>3, <2>4, <2>5
<1> QED
  BY <1>1, <1>3, TabMoves DEF OutStep

LEMMA StoreLoginStep ==
  ASSUME SessionInv, NEW t \in Tabs, StoreLogin(t)
  PROVE  SessionInv' /\ OutStep
<1>1. PICK user, n :
        /\ tab' = [tab EXCEPT ![t] = [Quiet EXCEPT !.user = user]]
        /\ storage' = [access |-> n, refresh |-> n, user |-> user]
  BY DEF StoreLogin
<1> DEFINE r == [Quiet EXCEPT !.user = user]
<1>2. TabShape(r) /\ r.pc = "idle"
  BY DEF Quiet, TabShape
<1>3. StorageShape(storage') /\ \A row \in refreshToken' : HashedRaw(row)
  BY <1>1 DEF StorageShape, StoreLogin, SessionInv, HashedRaw
<1>4. tab[t].pc = "login"
  BY DEF StoreLogin
<1> HIDE DEF r
<1> QED
  BY <1>1, <1>2, <1>3, <1>4, TabMoves DEF OutStep, r

\* No row is the presented token's.
LEMMA RefreshStep ==
  ASSUME SessionInv, NEW t \in Tabs, Refresh(t)
  PROVE  SessionInv' /\ OutStep
<1>1. \A n : RowOf(n) = {}
  BY DEF RowOf, SessionInv, HashedRaw
<1>2. tab' = [tab EXCEPT ![t].pc = "denied"] /\ UNCHANGED <<refreshToken, storage>>
  BY <1>1 DEF Refresh
<1>3. tab' = [tab EXCEPT ![t] = [tab[t] EXCEPT !.pc = "denied"]]
  BY <1>2
<1>4. StorageShape(storage') /\ \A row \in refreshToken' : HashedRaw(row)
  BY <1>2 DEF SessionInv, StorageShape, HashedRaw
<1> DEFINE r == [tab[t] EXCEPT !.pc = "denied"]
<1>5. TabShape(r) /\ r.pc = "denied"
  BY TabPc
<1> HIDE DEF r
<1> QED
  BY <1>2, <1>3, <1>4, <1>5, TabMoves DEF OutStep, r

\* An answer may write the user into storage, never a token.
LEMMA AnswerStep ==
  ASSUME SessionInv, NEW t \in Tabs, Answer(t)
  PROVE  SessionInv' /\ OutStep
<1>1. \A row \in refreshToken' : HashedRaw(row)
  BY DEF Answer, SessionInv, HashedRaw
<1>2. ASSUME NEW user PROVE TabShape([Quiet EXCEPT !.user = user]) /\ [Quiet EXCEPT !.user = user].pc = "idle"
  BY DEF Quiet, TabShape
<1>3. /\ \/ tab' = [tab EXCEPT ![t] = [tab[t] EXCEPT !.pc = "refused"]]
         \/ \E user : tab' = [tab EXCEPT ![t] = [Quiet EXCEPT !.user = user]]
      /\ UNCHANGED storage \/ \E user : storage' = [storage EXCEPT !.user = user]
  BY DEF Answer
<1>4. StorageShape(storage') /\ storage'.access = storage.access
  BY <1>3 DEF SessionInv, StorageShape
<1>5. PICK r : tab' = [tab EXCEPT ![t] = r] /\ TabShape(r) /\ r.pc # "granted"
  <2>1. CASE tab' = [tab EXCEPT ![t] = [tab[t] EXCEPT !.pc = "refused"]]
    <3> DEFINE r == [tab[t] EXCEPT !.pc = "refused"]
    <3>1. tab' = [tab EXCEPT ![t] = r] /\ TabShape(r) /\ r.pc = "refused"
      BY <2>1, TabPc
    <3> HIDE DEF r
    <3> QED
      BY <3>1
  <2>2. ASSUME NEW user, tab' = [tab EXCEPT ![t] = [Quiet EXCEPT !.user = user]]
        PROVE  \E r : tab' = [tab EXCEPT ![t] = r] /\ TabShape(r) /\ r.pc # "granted"
    <3> DEFINE r == [Quiet EXCEPT !.user = user]
    <3>1. tab' = [tab EXCEPT ![t] = r] /\ TabShape(r) /\ r.pc = "idle"
      BY <1>2, <2>2
    <3> HIDE DEF r
    <3> QED
      BY <3>1
  <2> QED
    BY <1>3, <2>1, <2>2
<1> QED
  BY <1>1, <1>4, <1>5, TabMoves DEF OutStep

LEMMA RefreshedStep ==
  ASSUME SessionInv, NEW t \in Tabs, Refreshed(t)
  PROVE  SessionInv' /\ OutStep
<1>1. tab[t].pc = "denied"
  BY DEF Refreshed, SessionInv
<1>2. /\ storage' = [storage EXCEPT !.access = Nobody, !.refresh = Nobody]
      /\ tab' = [tab EXCEPT ![t] = Quiet] /\ UNCHANGED refreshToken
  BY <1>1 DEF Refreshed
<1>3. StorageShape(storage') /\ storage'.access = Nobody
  <2> PICK a, b, c : storage = [access |-> a, refresh |-> b, user |-> c]
    BY DEF SessionInv, StorageShape
  <2> DEFINE x == [storage EXCEPT !.access = Nobody]
  <2>1. storage' = [x EXCEPT !.refresh = Nobody]
    BY <1>2
  <2>2. x = [access |-> Nobody, refresh |-> b, user |-> c]
    OBVIOUS
  <2> HIDE DEF x
  <2>3. storage' = [access |-> Nobody, refresh |-> Nobody, user |-> c]
    BY <2>1, <2>2
  <2> QED
    BY <2>3 DEF StorageShape
<1>4. TabShape(Quiet) /\ Quiet.pc = "idle"
  BY DEF Quiet, TabShape
<1>5. \A row \in refreshToken' : HashedRaw(row)
  BY <1>2 DEF SessionInv, HashedRaw
<1> QED
  BY <1>2, <1>3, <1>4, <1>5, TabMoves DEF OutStep

LEMMA SignOutStep ==
  ASSUME SessionInv, NEW t \in Tabs, SignOut(t)
  PROVE  SessionInv' /\ OutStep
<1>1. storage' = [access |-> Nobody, refresh |-> Nobody, user |-> Nobody]
  BY DEF SignOut
<1>2. StorageShape(storage') /\ storage'.access = Nobody
  BY <1>1 DEF StorageShape
<1>3. tab' = [tab EXCEPT ![t] = [tab[t] EXCEPT !.user = Nobody]]
  BY DEF SignOut
<1>4. tab[t].pc # "granted" /\ \A row \in refreshToken' : HashedRaw(row)
  BY DEF SignOut, SessionInv, HashedRaw
<1> DEFINE r == [tab[t] EXCEPT !.user = Nobody]
<1>5. TabShape(r) /\ r.pc = tab[t].pc
  BY TabUser
<1> HIDE DEF r
<1> QED
  BY <1>2, <1>3, <1>4, <1>5, TabMoves DEF OutStep, r

LEMMA SessionInitInv == SessionInit => SessionInv
  BY DEF SessionInit, SessionInv, TabShape, StorageShape, Quiet

LEMMA SessionStepHolds == SessionInv /\ [SessionNext]_sessionVars => SessionInv' /\ OutStep
<1> SUFFICES ASSUME SessionInv, [SessionNext]_sessionVars PROVE SessionInv' /\ OutStep
  OBVIOUS
<1>1. CASE UNCHANGED sessionVars
  BY <1>1 DEF sessionVars, SessionInv, OutStep, TabShape, StorageShape, HashedRaw
<1> QED
  BY <1>1, ServiceSteps, LoginStep, QuietTabStep, StoreLoginStep, RefreshStep, AnswerStep, RefreshedStep,
     SignOutStep DEF SessionNext

\* Tokens come back to a browser only with a login's answer (client.ts 37-58): for any
\* number of users and tabs.  The reason is the invariant: the row of a pair holds the
\* hash of a string nobody is given (auth.service.ts 112-137), so no refresh is granted.
THEOREM SignedOutCorrect == SessionSpec => SignedOutStaysOut
<1>1. SessionInv /\ [SessionNext]_sessionVars => SessionInv' /\ [OutStep]_sessionVars
  BY SessionStepHolds
<1> QED
  BY <1>1, SessionInitInv, PTL DEF SessionSpec, SignedOutStaysOut, OutStep

-----------------------------------------------------------------------------
(* The wizard: what is behind a draft's step has passed its gate *)

Behind(d) == \A i \in 1..Final - 1 : i < d.step => d.draft[WIZARD_STEPS[i]] # "open"
Position(d) == d.step \in 1..Final /\ d.draft \in Content
WizardShape(r) == r = [pc |-> r.pc, step |-> r.step, draft |-> r.draft, acknowledged |-> r.acknowledged]
InWizard(r) == WizardShape(r) /\ Position(r) /\ Behind(r)
WizardInv ==
  /\ wizard = [t \in WizardTabs |-> wizard[t]]
  /\ \A t \in WizardTabs : InWizard(wizard[t])
  /\ Position(kept) /\ Behind(kept)

LEMMA StepsAreNumbered ==
  /\ Final \in Nat /\ 1 \in 1..Final
  /\ \A i \in 1..Final : i \in 1..Final - 1 \/ i = Final
  BY WizardAssumption DEF Final

\* The first step has nothing behind it.
LEMMA FreshIsFine ==
  /\ Position(Fresh) /\ Behind(Fresh)
  /\ InWizard(ClosedTab)
<1>1. INITIAL_DRAFT \in Content
  BY DEF INITIAL_DRAFT, Content
<1>2. Fresh.step = 1 /\ Fresh.draft = INITIAL_DRAFT /\ ClosedTab.step = 1 /\ ClosedTab.draft = INITIAL_DRAFT
  BY DEF Fresh, ClosedTab
<1>3. WizardShape(ClosedTab)
  BY DEF ClosedTab, WizardShape
<1> QED
  BY <1>1, <1>2, <1>3, StepsAreNumbered DEF Position, Behind, InWizard

\* One tab goes on as r.
LEMMA WizardMoves ==
  ASSUME WizardInv, NEW t \in WizardTabs, NEW r, wizard' = [wizard EXCEPT ![t] = r], InWizard(r),
         Position(kept'), Behind(kept')
  PROVE  WizardInv'
<1>1. /\ wizard' = [u \in WizardTabs |-> wizard'[u]] /\ wizard'[t] = r
      /\ \A u \in WizardTabs : u # t => wizard'[u] = wizard[u]
  BY DEF WizardInv
<1>2. \A u \in WizardTabs : InWizard(wizard'[u])
  BY <1>1 DEF WizardInv
<1> QED
  BY <1>1, <1>2 DEF WizardInv, InWizard, WizardShape, Position, Behind

\* The store is changed, in the tab and in storage.
LEMMA StoredKeeps ==
  ASSUME WizardInv, NEW t \in WizardTabs, NEW n \in 1..Final, NEW d \in Content, NEW a, Stored(t, n, d, a),
         \A i \in 1..Final - 1 : i < n => d[WIZARD_STEPS[i]] # "open"
  PROVE  WizardInv'
<1> DEFINE r == [pc |-> "open", step |-> n, draft |-> d, acknowledged |-> a]
<1>1. wizard' = [wizard EXCEPT ![t] = r] /\ kept' = [step |-> n, draft |-> d]
  BY DEF Stored
<1>2. InWizard(r)
  BY DEF InWizard, WizardShape, Position, Behind
<1>3. Position(kept') /\ Behind(kept')
  BY <1>1 DEF Position, Behind
<1> HIDE DEF r
<1> QED
  BY <1>1, <1>2, <1>3, WizardMoves

LEMMA OpenWizardKeeps ==
  ASSUME WizardInv, NEW t \in WizardTabs, OpenWizard(t)
  PROVE  WizardInv'
<1> DEFINE r == [pc |-> "open", step |-> kept.step, draft |-> kept.draft, acknowledged |-> FALSE]
<1>1. wizard' = [wizard EXCEPT ![t] = r] /\ UNCHANGED kept
  BY DEF OpenWizard
<1>2. InWizard(r)
  BY DEF InWizard, WizardShape, Position, Behind, WizardInv
<1>3. Position(kept') /\ Behind(kept')
  BY <1>1 DEF Position, Behind, WizardInv
<1> HIDE DEF r
<1> QED
  BY <1>1, <1>2, <1>3, WizardMoves

\* An edit touches the form of the step the tab is at, which is not behind it.
LEMMA PatchKeeps ==
  ASSUME WizardInv, NEW t \in WizardTabs, NEW value \in {"open", "fine", "odd"}, PatchForm(t, value)
  PROVE  WizardInv'
<1> DEFINE n == wizard[t].step
           d == wizard[t].draft
           e == [d EXCEPT ![WIZARD_STEPS[n]] = value]
<1>1. n \in 1..Final /\ n < Final /\ d \in Content /\ Behind(wizard[t])
  BY DEF WizardInv, InWizard, Position, PatchForm
<1>2. Stored(t, n, e, wizard[t].acknowledged)
  BY DEF PatchForm
<1>3. e \in Content
  BY <1>1 DEF Content
<1>4. ASSUME NEW i \in 1..Final - 1, i < n PROVE e[WIZARD_STEPS[i]] # "open"
  <2>1. WIZARD_STEPS[i] # WIZARD_STEPS[n]
    BY <1>1, <1>4, WizardAssumption, StepsAreNumbered
  <2>2. d[WIZARD_STEPS[i]] # "open"
    BY <1>1, <1>4 DEF Behind
  <2>3. WIZARD_STEPS[i] \in StepForms
    BY <1>4 DEF StepForms
  <2> QED
    BY <1>1, <2>1, <2>2, <2>3 DEF Content
<1> HIDE DEF e, n, d
<1> QED
  BY <1>1, <1>2, <1>3, <1>4, StoredKeeps

LEMMA GoKeeps ==
  ASSUME WizardInv, NEW t \in WizardTabs, GoNext(t) \/ GoBack(t)
  PROVE  WizardInv'
<1> DEFINE n == wizard[t].step
           d == wizard[t].draft
           a == wizard[t].acknowledged
<1>1. n \in 1..Final /\ d \in Content /\ \A i \in 1..Final - 1 : i < n => d[WIZARD_STEPS[i]] # "open"
  BY DEF WizardInv, InWizard, Position, Behind
<1>2. CASE GoNext(t)
  <2>1. n < Final /\ d[WIZARD_STEPS[n]] # "open" /\ Stored(t, n + 1, d, a)
    BY <1>1, <1>2, StepsAreNumbered DEF GoNext, StepValid
  <2> HIDE DEF n, d, a
  <2>2. n + 1 \in 1..Final /\ \A i \in 1..Final - 1 : i < n + 1 => i < n \/ i = n
    BY <1>1, <2>1, StepsAreNumbered
  <2>3. \A i \in 1..Final - 1 : i < n + 1 => d[WIZARD_STEPS[i]] # "open"
    BY <1>1, <2>1, <2>2
  <2> QED
    BY <1>1, <2>1, <2>2, <2>3, StoredKeeps
<1>3. CASE GoBack(t)
  <2>1. n > 1 /\ Stored(t, n - 1, d, a)
    BY <1>3 DEF GoBack
  <2> HIDE DEF n, d, a
  <2>2. n - 1 \in 1..Final /\ \A i \in 1..Final - 1 : i < n - 1 => i < n
    BY <1>1, <2>1, StepsAreNumbered
  <2>3. \A i \in 1..Final - 1 : i < n - 1 => d[WIZARD_STEPS[i]] # "open"
    BY <1>1, <2>2
  <2> QED
    BY <1>1, <2>1, <2>2, <2>3, StoredKeeps
<1> QED
  BY <1>2, <1>3

\* The request, and the acknowledgement: the draft stays as it is.
LEMMA RequestKeeps ==
  ASSUME WizardInv, NEW t \in WizardTabs, Acknowledge(t) \/ SubmitWizard(t) \/ WizardDone(t) \/ WizardFails(t)
  PROVE  WizardInv'
<1> DEFINE x(p) == [wizard[t] EXCEPT !.pc = p]
           y    == [wizard[t] EXCEPT !.acknowledged = ~wizard[t].acknowledged]
<1>1. InWizard(wizard[t])
  BY DEF WizardInv
<1>2. (\A p : InWizard(x(p))) /\ InWizard(y)
  <2> PICK a, b, c, d : wizard[t] = [pc |-> a, step |-> b, draft |-> c, acknowledged |-> d]
    BY <1>1 DEF InWizard, WizardShape
  <2>1. ASSUME NEW p PROVE x(p) = [pc |-> p, step |-> b, draft |-> c, acknowledged |-> d]
    OBVIOUS
  <2>2. y = [pc |-> a, step |-> b, draft |-> c, acknowledged |-> ~d]
    OBVIOUS
  <2> HIDE DEF x, y
  <2> QED
    BY <1>1, <2>1, <2>2 DEF InWizard, WizardShape, Position, Behind
<1>3. \/ wizard' = [wizard EXCEPT ![t] = x("pending")] /\ UNCHANGED kept
      \/ wizard' = [wizard EXCEPT ![t] = x("open")] /\ UNCHANGED kept
      \/ wizard' = [wizard EXCEPT ![t] = y] /\ UNCHANGED kept
      \/ wizard' = [wizard EXCEPT ![t] = ClosedTab] /\ kept' = Fresh
  BY DEF Acknowledge, SubmitWizard, WizardDone, WizardFails
<1> HIDE DEF x, y
<1>4. Position(kept') /\ Behind(kept')
  BY <1>3, FreshIsFine DEF WizardInv, Position, Behind
<1> QED
  BY <1>2, <1>3, <1>4, FreshIsFine, WizardMoves

LEMMA WizardInitInv == WizardInit => WizardInv
<1> SUFFICES ASSUME WizardInit PROVE WizardInv
  OBVIOUS
<1>1. kept = Fresh /\ wizard = [t \in WizardTabs |-> ClosedTab]
  BY DEF WizardInit
<1> QED
  BY <1>1, FreshIsFine DEF WizardInv

LEMMA WizardNextInv == WizardInv /\ [WizardNext]_wizardVars => WizardInv'
<1> SUFFICES ASSUME WizardInv, [WizardNext]_wizardVars PROVE WizardInv'
  OBVIOUS
<1>1. CASE UNCHANGED wizardVars
  BY <1>1 DEF wizardVars, WizardInv, InWizard, WizardShape, Position, Behind
<1> QED
  BY <1>1, OpenWizardKeeps, PatchKeeps, GoKeeps, RequestKeeps DEF WizardNext

\* Behind the step a draft is at every form has passed its gate, in all tabs and in
\* storage (wizard.store.ts 65-100): for any steps, and any number of tabs.
THEOREM WizardCorrect == WizardSpec => []WhatIsBehindIsValid
<1>1. WizardInv => WhatIsBehindIsValid
  BY DEF WizardInv, InWizard, Behind, WhatIsBehindIsValid
<1> QED
  BY <1>1, WizardInitInv, WizardNextInv, PTL DEF WizardSpec

-----------------------------------------------------------------------------
(* Learning: one outcome a campaign, and rows that rest on the window *)

RunShape(r) == r = [pc |-> r.pc, by |-> r.by, todo |-> r.todo, at |-> r.at, basis |-> r.basis]
\* What a run has read is an age within the window, or was before the day ended.
ReadFits(r) ==
  /\ r.basis \in Nat
  /\ r.pc = "write" => r.basis <= WindowDays
  /\ r.pc = "late" => r.basis <= WindowDays + 1
RunFits(r) == RunShape(r) /\ ReadFits(r) /\ r.todo \subseteq Finishers /\ r.at \subseteq Finishers
Sealing(r) == r.pc \in {"seal", "create"}
RowFits(r) ==
  /\ r = [age |-> r.age, basis |-> r.basis, isStale |-> r.isStale]
  /\ r.age \in Nat /\ r.basis \in Nat
  /\ r.basis <= Ancient /\ r.basis <= r.age + WindowDays + 1

Recorded ==
  /\ finisher \in [Finishers -> [status : {"ACTIVE", "PAUSED", "ARCHIVED"}, quiet : 0..1, last : Nat]]
  /\ sealed \in [Finishers -> Seq(Nat)]
RunsFit ==
  /\ pipeline = [w \in Pipelines |-> pipeline[w]]
  /\ \A w \in Pipelines : RunFits(pipeline[w])
RowsFit == \A r \in featureRow : RowFits(r)
\* While no two runs have sealed at once there is one sealer, and what it is about to
\* create is not there.
OneSealer == \A v, w \in Pipelines : Sealing(pipeline[v]) /\ Sealing(pipeline[w]) => v = w
Unsealed(r) == r.pc = "create" => \A c \in r.at : Len(sealed[c]) = 0
Alone == OneSealer /\ SealedOnce /\ \A w \in Pipelines : Unsealed(pipeline[w])
LearningInv == Recorded /\ RunsFit /\ RowsFit /\ (~overlapped => Alone)

LEMMA AncientIsFar == Ancient \in Nat /\ WindowDays \in Nat /\ FreshDays \in Nat /\ StaleDays \in Nat
                      /\ WindowDays + 1 <= Ancient /\ NoSnapshot \in Nat
  BY LearningAssumption DEF Ancient, NoSnapshot

LEMMA OlderByOne ==
  ASSUME NEW a \in Nat
  PROVE  Older(a) \in Nat /\ Older(a) <= a + 1 /\ (a < Ancient => Older(a) = a + 1) /\ (a >= Ancient => Older(a) = a)
  BY AncientIsFar DEF Older

LEMMA RestingFits == RunFits(Resting) /\ ~Sealing(Resting) /\ Resting.pc = "idle"
  BY DEF Resting, RunFits, RunShape, ReadFits, Sealing

LEMMA LearningInitInv == LearningInit => LearningInv
<1> SUFFICES ASSUME LearningInit PROVE LearningInv
  OBVIOUS
<1>1. Recorded
  BY AncientIsFar DEF LearningInit, Recorded
<1>2. RunsFit
  BY RestingFits DEF LearningInit, RunsFit
<1>3. RowsFit
  BY DEF LearningInit, RowsFit
<1>4. Alone
  <2>1. \A c \in Finishers : Len(sealed[c]) = 0
    BY DEF LearningInit
  <2> QED
    BY <2>1, RestingFits DEF LearningInit, Alone, OneSealer, SealedOnce, Unsealed
<1> QED
  BY <1>1, <1>2, <1>3, <1>4 DEF LearningInv

\* One run goes on as r; what is sealed stays as it is.
LEMMA RunMoves ==
  ASSUME LearningInv, NEW w \in Pipelines, NEW r, pipeline' = [pipeline EXCEPT ![w] = r], RunFits(r),
         Sealing(r) => Sealing(pipeline[w]), ~overlapped => Unsealed(r),
         UNCHANGED <<finisher, sealed, overlapped>>, RowsFit'
  PROVE  LearningInv'
<1>1. /\ pipeline' = [v \in Pipelines |-> pipeline'[v]] /\ pipeline'[w] = r
      /\ \A v \in Pipelines : v # w => pipeline'[v] = pipeline[v]
  BY DEF LearningInv, RunsFit
<1>2. Recorded'
  BY DEF LearningInv, Recorded
<1>3. RunsFit'
  <2>1. \A v \in Pipelines : RunFits(pipeline'[v])
    BY <1>1 DEF LearningInv, RunsFit
  <2> QED
    BY <1>1, <2>1 DEF RunsFit, RunFits, RunShape, ReadFits
<1>4. ASSUME ~overlapped' PROVE Alone'
  <2>1. ~overlapped /\ Alone
    BY <1>4 DEF LearningInv
  <2>2. OneSealer'
    BY <1>1, <2>1 DEF Alone, OneSealer, Sealing
  <2>3. SealedOnce'
    BY <2>1 DEF Alone, SealedOnce
  <2>4. \A v \in Pipelines : Unsealed(pipeline[v])'
    BY <1>1, <2>1 DEF Alone, Unsealed
  <2> QED
    BY <2>2, <2>3, <2>4 DEF Alone
<1> QED
  BY <1>2, <1>3, <1>4 DEF LearningInv

LEMMA RunGoesOn ==
  ASSUME LearningInv, NEW w \in Pipelines, NEW p, NEW t \in SUBSET Finishers, NEW a \in SUBSET Finishers, NEW b \in Nat,
         Continues(w, p, t, a, b),
         p = "write" => b <= WindowDays, p # "late",
         p \in {"seal", "create"} => Sealing(pipeline[w]),
         p = "create" /\ ~overlapped => \A c \in a : Len(sealed[c]) = 0,
         UNCHANGED <<finisher, sealed, overlapped>>, RowsFit'
  PROVE  LearningInv'
<1> DEFINE r == [pc |-> p, by |-> pipeline[w].by, todo |-> t, at |-> a, basis |-> b]
<1>1. pipeline' = [pipeline EXCEPT ![w] = r]
  BY DEF Continues
<1>2. RunFits(r)
  BY DEF RunFits, RunShape, ReadFits
<1>3. (Sealing(r) => Sealing(pipeline[w])) /\ (~overlapped => Unsealed(r))
  BY DEF Sealing, Unsealed
<1> HIDE DEF r
<1> QED
  BY <1>1, <1>2, <1>3, RunMoves

LEMMA StartRunKeeps ==
  ASSUME LearningInv, NEW w \in Pipelines, NEW by, StartRun(w, by)
  PROVE  LearningInv'
<1> DEFINE r == [pc |-> "seal", by |-> by, todo |-> {c \in Finishers : Completed(c)}, at |-> {}, basis |-> 0]
<1>1. /\ pipeline' = [v \in Pipelines |-> pipeline'[v]] /\ pipeline'[w] = r
      /\ \A v \in Pipelines : v # w => pipeline'[v] = pipeline[v]
      /\ UNCHANGED <<finisher, sealed, featureRow>>
  BY DEF StartRun, LearningInv, RunsFit
<1>2. RunFits(r) /\ r.pc = "seal"
  BY DEF RunFits, RunShape, ReadFits
<1> HIDE DEF r
<1>3. Recorded' /\ RowsFit'
  BY <1>1 DEF LearningInv, Recorded, RowsFit, RowFits
<1>4. RunsFit'
  <2>1. \A v \in Pipelines : RunFits(pipeline'[v])
    BY <1>1, <1>2 DEF LearningInv, RunsFit
  <2> QED
    BY <1>1, <2>1 DEF RunsFit, RunFits, RunShape, ReadFits
<1>5. ASSUME ~overlapped' PROVE Alone'
  <2>1. ~overlapped /\ \A v \in Pipelines : ~Sealing(pipeline[v])
    BY <1>5 DEF StartRun, Sealing
  <2>2. Alone
    BY <2>1 DEF LearningInv
  <2>3. OneSealer'
    BY <1>1, <2>1 DEF OneSealer, Sealing
  <2>4. SealedOnce' /\ \A v \in Pipelines : Unsealed(pipeline[v])'
    BY <1>1, <1>2, <2>1, <2>2 DEF Alone, SealedOnce, Unsealed
  <2> QED
    BY <2>3, <2>4 DEF Alone
<1> QED
  BY <1>3, <1>4, <1>5 DEF LearningInv

LEMMA RowsStay == ASSUME LearningInv, UNCHANGED featureRow PROVE RowsFit'
  BY DEF LearningInv, RowsFit, RowFits

\* The lists of a run.
LEMMA RunLists ==
  ASSUME LearningInv, NEW w \in Pipelines
  PROVE  /\ pipeline[w].todo \in SUBSET Finishers /\ pipeline[w].at \in SUBSET Finishers /\ ReadFits(pipeline[w])
         /\ NextStage(w) \in {"stale", "idle"}
  BY DEF LearningInv, RunsFit, RunFits, NextStage

LEMMA SealCheckKeeps ==
  ASSUME LearningInv, NEW w \in Pipelines, NEW c \in Finishers, SealCheck(w, c)
  PROVE  LearningInv'
<1> DEFINE t == pipeline[w].todo \ {c}
<1>1. /\ UNCHANGED <<finisher, sealed, featureRow, overlapped>> /\ Sealing(pipeline[w]) /\ RowsFit'
      /\ \/ Continues(w, "seal", t, {}, 0)
         \/ sealed[c] = <<>> /\ Continues(w, "create", t, {c}, 0)
  BY RowsStay DEF SealCheck, Sealing
<1>2. t \in SUBSET Finishers /\ {c} \in SUBSET Finishers /\ {} \in SUBSET Finishers /\ 0 \in Nat
  BY RunLists
<1> HIDE DEF t
<1>3. CASE Continues(w, "seal", t, {}, 0)
  BY <1>1, <1>2, <1>3, RunGoesOn
<1>4. CASE sealed[c] = <<>> /\ Continues(w, "create", t, {c}, 0)
  <2>1. \A d \in {c} : Len(sealed[d]) = 0
    BY <1>4
  <2> QED
    BY <1>1, <1>2, <1>4, <2>1, RunGoesOn
<1> QED
  BY <1>1, <1>3, <1>4

LEMMA SealEndsKeeps ==
  ASSUME LearningInv, NEW w \in Pipelines, SealDone(w) \/ SealFails(w)
  PROVE  LearningInv'
<1>1. /\ UNCHANGED <<finisher, sealed, featureRow, overlapped>> /\ RowsFit'
      /\ Continues(w, "compute", {}, {}, 0)
  BY RowsStay DEF SealDone, SealFails
<1>2. {} \in SUBSET Finishers /\ 0 \in Nat
  OBVIOUS
<1> QED
  BY <1>1, <1>2, RunGoesOn

LEMMA ReadOutcomesKeeps ==
  ASSUME LearningInv, NEW w \in Pipelines, ReadOutcomes(w)
  PROVE  LearningInv'
<1>1. UNCHANGED <<finisher, sealed, featureRow, overlapped>> /\ RowsFit'
  BY RowsStay DEF ReadOutcomes
<1>2. {} \in SUBSET Finishers /\ 0 \in Nat
  OBVIOUS
<1>3. \/ \E a \in Nat : a <= WindowDays /\ Continues(w, "write", {}, {}, a)
      \/ Continues(w, NextStage(w), {}, {}, 0)
  <2> DEFINE ages == UNION {{sealed[c][i] : i \in 1..Len(sealed[c])} : c \in Finishers}
  <2>1. \A a \in ages : a \in Nat
    <3> SUFFICES ASSUME NEW c \in Finishers, NEW i \in 1..Len(sealed[c]) PROVE sealed[c][i] \in Nat
      OBVIOUS
    <3>1. sealed[c] \in Seq(Nat)
      BY DEF LearningInv, Recorded
    <3> QED
      BY <3>1
  <2>2. \/ \E a \in {a \in ages : a <= WindowDays} : Continues(w, "write", {}, {}, a)
        \/ Continues(w, NextStage(w), {}, {}, 0)
    BY DEF ReadOutcomes
  <2> HIDE DEF ages
  <2> QED
    BY <2>1, <2>2
<1>4. CASE \E a \in Nat : a <= WindowDays /\ Continues(w, "write", {}, {}, a)
  BY <1>1, <1>2, <1>4, RunGoesOn
<1>5. CASE Continues(w, NextStage(w), {}, {}, 0)
  BY <1>1, <1>2, <1>5, RunLists, RunGoesOn
<1> QED
  BY <1>3, <1>4, <1>5

\* A new row is of today and rests on what the run had read.
LEMMA WriteFeatureKeeps ==
  ASSUME LearningInv, NEW w \in Pipelines, WriteFeature(w)
  PROVE  LearningInv'
<1> DEFINE b == pipeline[w].basis
           x == [age |-> 0, basis |-> b, isStale |-> FALSE]
<1>1. /\ UNCHANGED <<finisher, sealed, overlapped>> /\ Continues(w, NextStage(w), {}, {}, 0)
      /\ featureRow' \in {{x}, featureRow} /\ pipeline[w].pc \in {"write", "late"}
  BY DEF WriteFeature
<1>2. b \in Nat /\ b <= WindowDays + 1
  BY <1>1, RunLists, AncientIsFar DEF ReadFits
<1>3. RowFits(x)
  BY <1>2, AncientIsFar DEF RowFits
<1> HIDE DEF x, b
<1>4. RowsFit'
  <2>1. \A r \in featureRow' : RowFits(r)
    BY <1>1, <1>3 DEF LearningInv, RowsFit
  <2> QED
    BY <2>1 DEF RowsFit, RowFits
<1>5. {} \in SUBSET Finishers /\ 0 \in Nat
  OBVIOUS
<1> QED
  BY <1>1, <1>4, <1>5, RunLists, RunGoesOn

LEMMA MarkStaleKeeps ==
  ASSUME LearningInv, NEW w \in Pipelines, MarkStale(w)
  PROVE  LearningInv'
<1> DEFINE m(r) == [age |-> r.age, basis |-> r.basis, isStale |-> r.isStale \/ r.age > StaleDays]
<1>1. /\ UNCHANGED <<finisher, sealed, overlapped>> /\ pipeline' = [pipeline EXCEPT ![w] = Resting]
      /\ featureRow' \in {{m(r) : r \in featureRow}, featureRow}
  BY DEF MarkStale
<1>2. ASSUME NEW r \in featureRow PROVE RowFits(r) /\ RowFits(m(r))
  BY DEF LearningInv, RowsFit, RowFits
<1>3. RowsFit'
  <2>1. \A r \in featureRow' : RowFits(r)
    BY <1>1, <1>2
  <2> QED
    BY <2>1 DEF RowsFit, RowFits
<1>4. ~overlapped => Unsealed(Resting)
  BY RestingFits DEF Unsealed
<1> QED
  BY <1>1, <1>3, <1>4, RestingFits, RunMoves

LEMMA RunDiesKeeps ==
  ASSUME LearningInv, NEW w \in Pipelines, RunDies(w)
  PROVE  LearningInv'
<1>1. /\ UNCHANGED <<finisher, sealed, featureRow, overlapped>> /\ pipeline' = [pipeline EXCEPT ![w] = Resting] /\ RowsFit'
  BY RowsStay DEF RunDies
<1>2. ~overlapped => Unsealed(Resting)
  BY RestingFits DEF Unsealed
<1> QED
  BY <1>1, <1>2, RestingFits, RunMoves

\* The outcome is created where there was none, and its run creates no other.
LEMMA SealCreateKeeps ==
  ASSUME LearningInv, NEW w \in Pipelines, SealCreate(w)
  PROVE  LearningInv'
<1> DEFINE r == [pc |-> "seal", by |-> pipeline[w].by, todo |-> pipeline[w].todo, at |-> {}, basis |-> 0]
<1>1. /\ pipeline' = [v \in Pipelines |-> pipeline'[v]] /\ pipeline'[w] = r
      /\ \A v \in Pipelines : v # w => pipeline'[v] = pipeline[v]
      /\ pipeline[w].pc = "create" /\ UNCHANGED <<finisher, featureRow, overlapped>>
  BY DEF SealCreate, Continues, LearningInv, RunsFit
<1>2. RunFits(r) /\ r.pc = "seal"
  BY RunLists DEF RunFits, RunShape, ReadFits
<1> HIDE DEF r
<1>3. PICK c \in pipeline[w].at : sealed' \in {sealed, [sealed EXCEPT ![c] = Append(sealed[c], finisher[c].last)]}
  BY DEF SealCreate
<1>4. c \in Finishers
  BY RunLists
<1>5. sealed[c] \in Seq(Nat) /\ finisher[c].last \in Nat /\ sealed \in [Finishers -> Seq(Nat)]
  BY <1>4 DEF LearningInv, Recorded
<1> DEFINE s == Append(sealed[c], finisher[c].last)
<1>6. s \in Seq(Nat) /\ Len(s) = Len(sealed[c]) + 1
  BY <1>5
<1>7. sealed' \in {sealed, [sealed EXCEPT ![c] = s]}
  BY <1>3
<1> HIDE DEF s
<1>8. /\ sealed' \in [Finishers -> Seq(Nat)]
      /\ \A d \in Finishers : d # c => sealed'[d] = sealed[d]
      /\ sealed'[c] = sealed[c] \/ sealed'[c] = s
  BY <1>4, <1>5, <1>6, <1>7
<1>9. Recorded' /\ RowsFit'
  BY <1>1, <1>8 DEF LearningInv, Recorded, RowsFit, RowFits
<1>10. RunsFit'
  <2>1. \A v \in Pipelines : RunFits(pipeline'[v])
    BY <1>1, <1>2 DEF LearningInv, RunsFit
  <2> QED
    BY <1>1, <2>1 DEF RunsFit, RunFits, RunShape, ReadFits
<1>11. ASSUME ~overlapped' PROVE Alone'
  <2>1. ~overlapped /\ OneSealer /\ SealedOnce /\ \A v \in Pipelines : Unsealed(pipeline[v])
    BY <1>1, <1>11 DEF LearningInv, Alone
  <2>2. \A v \in Pipelines : v # w => ~Sealing(pipeline[v])
    BY <1>1, <2>1 DEF OneSealer, Sealing
  <2>3. Len(sealed[c]) = 0
    BY <1>1, <2>1 DEF Unsealed
  <2>4. OneSealer'
    BY <1>1, <2>2 DEF OneSealer, Sealing
  <2>5. SealedOnce'
    <3> SUFFICES ASSUME NEW d \in Finishers PROVE Len(sealed'[d]) <= 1
      BY DEF SealedOnce
    <3>1. CASE d = c
      <4>1. Len(s) = 1
        BY <1>6, <2>3
      <4>2. sealed'[d] = sealed[c] \/ sealed'[d] = s
        BY <1>8, <3>1
      <4>3. Len(sealed'[d]) \in {0, 1} /\ \A n \in {0, 1} : n <= 1
        BY <2>3, <4>1, <4>2
      <4> QED
        BY <4>3, Zenon
    <3>2. CASE d # c
      BY <1>8, <2>1, <3>2 DEF SealedOnce
    <3> QED
      BY <3>1, <3>2
  <2>6. ASSUME NEW v \in Pipelines PROVE Unsealed(pipeline[v])'
    <3>1. pipeline'[v].pc # "create"
      BY <1>1, <1>2, <2>2 DEF Sealing
    <3> QED
      BY <3>1 DEF Unsealed
  <2> QED
    BY <2>4, <2>5, <2>6 DEF Alone
<1> QED
  BY <1>9, <1>10, <1>11 DEF LearningInv

LEMMA CampaignMovesKeeps ==
  ASSUME LearningInv, NEW c \in Finishers, CampaignMoves(c)
  PROVE  LearningInv'
<1>1. UNCHANGED <<sealed, featureRow, pipeline, overlapped>>
  BY DEF CampaignMoves
<1>2. Recorded'
  <2> DEFINE S == {"ACTIVE", "PAUSED", "ARCHIVED"}
             f == finisher[c]
             e(s, q, l) == [status |-> s, quiet |-> q, last |-> l]
  <2>1. /\ finisher \in [Finishers -> [status : S, quiet : 0..1, last : Nat]]
        /\ f \in [status : S, quiet : 0..1, last : Nat]
    BY DEF LearningInv, Recorded
  <2>2. \E g \in [status : S, quiet : 0..1, last : Nat] : finisher' = [finisher EXCEPT ![c] = g]
    <3>1. /\ f.status \in S /\ f.quiet \in 0..1 /\ f.last \in Nat
          /\ \/ \E s \in S : finisher' = [finisher EXCEPT ![c] = e(s, 0, f.last)]
             \/ finisher' = [finisher EXCEPT ![c] = e("ACTIVE", f.quiet, 0)]
      BY <2>1 DEF CampaignMoves
    <3>2. \A s \in S, q \in 0..1, l \in Nat : e(s, q, l) \in [status : S, quiet : 0..1, last : Nat]
      OBVIOUS
    <3>3. "ACTIVE" \in S /\ 0 \in Nat /\ 0 \in 0..1
      OBVIOUS
    <3> HIDE DEF e, f, S
    <3> QED
      BY <3>1, <3>2, <3>3
  <2> HIDE DEF S
  <2>3. finisher' \in [Finishers -> [status : S, quiet : 0..1, last : Nat]]
    BY <2>1, <2>2
  <2> QED
    BY <1>1, <2>3 DEF LearningInv, Recorded, S
<1> QED
  BY <1>1, <1>2 DEF LearningInv, RunsFit, RunFits, RunShape, ReadFits, RowsFit, RowFits,
                    Alone, OneSealer, SealedOnce, Sealing, Unsealed

\* Everything gets a day older: a row by as much as what it rests on, unless it is ancient.
LEMMA DayPassesKeeps ==
  ASSUME LearningInv, DayPasses
  PROVE  LearningInv'
<1> DEFINE o(s) == [i \in 1..Len(s) |-> Older(s[i])]
           x(r) == [age |-> Older(r.age), basis |-> Older(r.basis), isStale |-> r.isStale]
           z(q) == [pc |-> "late", by |-> q.by, todo |-> {}, at |-> {}, basis |-> Older(q.basis)]
<1>1. ASSUME NEW s \in Seq(Nat) PROVE o(s) \in Seq(Nat) /\ Len(o(s)) = Len(s)
  <2>1. Len(s) \in Nat /\ \A i \in 1..Len(s) : s[i] \in Nat
    OBVIOUS
  <2>2. \A i \in 1..Len(s) : Older(s[i]) \in Nat
    BY <2>1, OlderByOne
  <2> QED
    BY <2>1, <2>2
<1>2. Recorded'
  <2>1. \A c \in Finishers : finisher[c].status \in {"ACTIVE", "PAUSED", "ARCHIVED"} /\ finisher[c].last \in Nat
                             /\ Older(finisher[c].last) \in Nat
    BY OlderByOne DEF LearningInv, Recorded
  <2>2. finisher' \in [Finishers -> [status : {"ACTIVE", "PAUSED", "ARCHIVED"}, quiet : 0..1, last : Nat]]
    BY <2>1, AncientIsFar DEF DayPasses
  <2>3. sealed' = [c \in Finishers |-> o(sealed[c])] /\ \A c \in Finishers : sealed[c] \in Seq(Nat)
    BY DEF DayPasses, LearningInv, Recorded
  <2> HIDE DEF o
  <2> QED
    BY <1>1, <2>2, <2>3 DEF Recorded
<1>3. RowsFit'
  <2>1. ASSUME NEW r \in featureRow PROVE RowFits(x(r))
    <3>1. r.age \in Nat /\ r.basis \in Nat /\ r.basis <= Ancient /\ r.basis <= r.age + WindowDays + 1
      BY DEF LearningInv, RowsFit, RowFits
    <3>2. /\ Older(r.age) \in Nat /\ Older(r.basis) \in Nat
          /\ Older(r.basis) <= Ancient /\ Older(r.basis) <= Older(r.age) + WindowDays + 1
      BY <3>1, OlderByOne, AncientIsFar
    <3> QED
      BY <3>2 DEF RowFits
  <2>2. featureRow' = {x(r) : r \in featureRow}
    BY DEF DayPasses
  <2> HIDE DEF x
  <2>3. \A r \in featureRow' : RowFits(r)
    BY <2>1, <2>2
  <2> QED
    BY <2>3 DEF RowsFit, RowFits
<1>4. /\ pipeline' = [w \in Pipelines |-> pipeline'[w]]
      /\ \A w \in Pipelines : IF pipeline[w].pc = "write" THEN pipeline'[w] = z(pipeline[w]) ELSE pipeline'[w] = pipeline[w]
  BY DEF DayPasses
<1>5. RunsFit'
  <2>1. ASSUME NEW w \in Pipelines PROVE RunFits(pipeline'[w])
    <3>1. RunFits(pipeline[w])
      BY DEF LearningInv, RunsFit
    <3>2. CASE pipeline[w].pc = "write"
      <4>1. pipeline[w].basis \in Nat /\ pipeline[w].basis <= WindowDays
        BY <3>1, <3>2 DEF RunFits, ReadFits
      <4>2. Older(pipeline[w].basis) \in Nat /\ Older(pipeline[w].basis) <= WindowDays + 1
        BY <4>1, OlderByOne, AncientIsFar
      <4>3. RunFits(z(pipeline[w]))
        BY <4>2 DEF RunFits, RunShape, ReadFits
      <4> QED
        BY <1>4, <3>2, <4>3
    <3>3. CASE pipeline[w].pc # "write"
      BY <1>4, <3>1, <3>3
    <3> QED
      BY <3>2, <3>3
  <2> QED
    BY <1>4, <2>1 DEF RunsFit, RunFits, RunShape, ReadFits
<1>6. ASSUME ~overlapped' PROVE Alone'
  <2>1. ~overlapped /\ Alone
    BY <1>6 DEF LearningInv, DayPasses
  <2>2. \A c \in Finishers : Len(sealed'[c]) = Len(sealed[c])
    <3>1. sealed' = [c \in Finishers |-> o(sealed[c])] /\ \A c \in Finishers : sealed[c] \in Seq(Nat)
      BY DEF DayPasses, LearningInv, Recorded
    <3> HIDE DEF o
    <3> QED
      BY <1>1, <3>1
  <2>3. \A w \in Pipelines : (Sealing(pipeline'[w]) => pipeline'[w] = pipeline[w])
    <3> SUFFICES ASSUME NEW w \in Pipelines PROVE pipeline[w].pc = "write" => ~Sealing(pipeline'[w])
      BY <1>4
    <3> QED
      BY <1>4 DEF Sealing
  <2>4. OneSealer'
    BY <2>1, <2>3 DEF Alone, OneSealer, Sealing
  <2>5. SealedOnce'
    BY <2>1, <2>2 DEF Alone, SealedOnce
  <2>6. ASSUME NEW w \in Pipelines PROVE Unsealed(pipeline[w])'
    <3>1. CASE pipeline'[w].pc = "create"
      <4>1. pipeline'[w] = pipeline[w] /\ pipeline[w].at \subseteq Finishers
        BY <2>3, <3>1, RunLists DEF Sealing
      <4> QED
        BY <2>1, <2>2, <4>1 DEF Alone, Unsealed
    <3>2. CASE pipeline'[w].pc # "create"
      BY <3>2 DEF Unsealed
    <3> QED
      BY <3>1, <3>2
  <2> QED
    BY <2>4, <2>5, <2>6 DEF Alone
<1> QED
  BY <1>2, <1>3, <1>5, <1>6 DEF LearningInv

LEMMA LearningNextInv == LearningInv /\ [LearningNext]_learningVars => LearningInv'
<1> SUFFICES ASSUME LearningInv, [LearningNext]_learningVars PROVE LearningInv'
  OBVIOUS
<1>1. CASE UNCHANGED learningVars
  BY <1>1 DEF learningVars, LearningInv, Recorded, RunsFit, RunFits, RunShape, ReadFits, RowsFit, RowFits,
              Alone, OneSealer, SealedOnce, Sealing, Unsealed
<1> QED
  BY <1>1, DayPassesKeeps, CampaignMovesKeeps, StartRunKeeps, SealCreateKeeps, SealEndsKeeps, ReadOutcomesKeeps,
     WriteFeatureKeeps, MarkStaleKeeps, RunDiesKeeps, SealCheckKeeps DEF LearningNext

\* A campaign is sealed once unless two runs sealed at the same time, and a row that is
\* used rests on outcomes of its window (outcome.service.ts 24-130, multiplier.service.ts
\* 159-191): for any number of campaigns and runs, any window and thresholds.
THEOREM LearningCorrect == LearningSpec => []LearningHolds
<1>1. LearningInv => LearningHolds
  <2> SUFFICES ASSUME LearningInv PROVE LearningHolds
    OBVIOUS
  <2>1. SealedOnce
    BY DEF LearningInv, Alone, SealedOnce
  <2>2. UsableIsRecent
    <3> SUFFICES ASSUME NEW r \in featureRow, r.age <= FreshDays PROVE r.basis <= WindowDays + FreshDays + 1
      BY DEF UsableIsRecent
    <3>1. r.age \in Nat /\ r.basis \in Nat /\ r.basis <= r.age + WindowDays + 1
      BY DEF LearningInv, RowsFit, RowFits
    <3> QED
      BY <3>1, AncientIsFar
  <2> QED
    BY <2>1, <2>2 DEF LearningHolds
<1> QED
  BY <1>1, LearningInitInv, LearningNextInv, PTL DEF LearningSpec

-----------------------------------------------------------------------------
(* Alerts: a raise leaves one active alert *)

\* A call that found none still has to reckon with the alerts of those that found none
\* with it; a call that found one will leave it, unless it was resolved meanwhile.
FoundNone(r) ==
  raiser[r].pc = "found" /\ raiser[r].found = 0 => \A i \in Open(alert, raiser[r].key) : alert[i].twin = TRUE
FoundOne(r) ==
  raiser[r].pc = "found" /\ raiser[r].found # 0 /\ raiser[r].disturbed = FALSE =>
    raiser[r].found \in Open(alert, raiser[r].key)
TwinsOnly == \A key \in AlertKeys : \A i, j \in Open(alert, key) : i < j => alert[i].twin = TRUE \/ alert[j].twin = TRUE
RaisersFit == raiser \in [Raisers -> [pc : {"idle", "found"}, key : AlertKeys \cup {"none"}, found : Nat, disturbed : BOOLEAN]]
KeysFit == \A r \in Raisers : raiser[r].pc = "found" => raiser[r].key \in AlertKeys
AlertInv ==
  /\ alert \in Seq(AlertRows) /\ RaisersFit /\ KeysFit
  /\ \A r \in Raisers : FoundNone(r) /\ FoundOne(r)
  /\ TwinsOnly
\* What the property says of a step.
RaiseStep ==
  /\ \A r \in Raisers : raiser[r].pc = "found" /\ raiser'[r].pc = "idle" =>
          raiser[r].disturbed \/ Open(alert', raiser[r].key) # {}
  /\ \A key \in AlertKeys : \A i, j \in Open(alert', key) : i < j => alert'[i].twin \/ alert'[j].twin

LEMMA AlertInitInv == AlertInit => AlertInv
<1> SUFFICES ASSUME AlertInit PROVE AlertInv
  OBVIOUS
<1>1. alert = <<>> /\ raiser = [r \in Raisers |-> NotRaising]
  BY DEF AlertInit
<1>2. NotRaising \in [pc : {"idle", "found"}, key : AlertKeys \cup {"none"}, found : Nat, disturbed : BOOLEAN]
      /\ NotRaising.pc = "idle"
  BY DEF NotRaising
<1>3. RaisersFit /\ KeysFit /\ \A r \in Raisers : FoundNone(r) /\ FoundOne(r)
  BY <1>1, <1>2 DEF RaisersFit, KeysFit, FoundNone, FoundOne
<1>4. alert \in Seq(AlertRows) /\ TwinsOnly
  BY <1>1 DEF TwinsOnly, Open
<1> QED
  BY <1>3, <1>4 DEF AlertInv

\* The rows keep their keys and twins and are resolved or not; no call ends.
LEMMA AlertsShrink ==
  ASSUME AlertInv, alert' \in Seq(AlertRows), Len(alert') = Len(alert),
         \A i \in 1..Len(alert) : /\ alert'[i].dedupKey = alert[i].dedupKey /\ alert'[i].twin = alert[i].twin
                                  /\ alert[i].resolved = TRUE => alert'[i].resolved = TRUE,
         RaisersFit',
         \A r \in Raisers : raiser'[r].pc = raiser[r].pc /\ raiser'[r].key = raiser[r].key /\ raiser'[r].found = raiser[r].found,
         \A r \in Raisers : raiser'[r].disturbed = FALSE =>
           /\ raiser[r].disturbed = FALSE
           /\ \A i \in 1..Len(alert) : alert[i].dedupKey = raiser[r].key => alert'[i].resolved = alert[i].resolved
  PROVE  AlertInv' /\ RaiseStep
<1>1. DOMAIN alert = 1..Len(alert) /\ DOMAIN alert' = 1..Len(alert)
  BY DEF AlertInv
<1>2. \A i \in 1..Len(alert) : alert[i] \in AlertRows /\ alert'[i] \in AlertRows
  BY DEF AlertInv
<1>3. \A key : \A i \in Open(alert', key) : i \in Open(alert, key) /\ i \in 1..Len(alert) /\ alert'[i].twin = alert[i].twin
  BY <1>1, <1>2 DEF Open, AlertRows
<1>4. KeysFit'
  BY DEF AlertInv, KeysFit
<1>5. ASSUME NEW r \in Raisers PROVE FoundNone(r)' /\ FoundOne(r)'
  <2>1. FoundNone(r)'
    BY <1>3 DEF AlertInv, FoundNone
  <2>2. FoundOne(r)'
    <3> SUFFICES ASSUME raiser[r].pc = "found", raiser[r].found # 0, raiser'[r].disturbed = FALSE
                 PROVE  raiser[r].found \in Open(alert', raiser[r].key)
      BY DEF FoundOne
    <3>1. raiser[r].disturbed = FALSE
      OBVIOUS
    <3>2. raiser[r].found \in Open(alert, raiser[r].key)
      BY <3>1 DEF AlertInv, FoundOne
    <3> QED
      BY <1>1, <3>2 DEF Open
  <2> QED
    BY <2>1, <2>2
<1>6. TwinsOnly'
  BY <1>3 DEF AlertInv, TwinsOnly
<1>7. RaiseStep
  <2>1. \A r \in Raisers : ~(raiser[r].pc = "found" /\ raiser'[r].pc = "idle")
    OBVIOUS
  <2> QED
    BY <2>1, <1>6 DEF TwinsOnly, RaiseStep
<1> QED
  BY <1>4, <1>5, <1>6, <1>7 DEF AlertInv

LEMMA RowsAreSeq ==
  ASSUME NEW n \in Nat, NEW f, f = [i \in 1..n |-> f[i]], NEW R, \A i \in 1..n : f[i] \in R
  PROVE  f \in Seq(R) /\ Len(f) = n
<1>1. f \in [1..n -> R]
  OBVIOUS
<1> QED
  BY <1>1

\* The pages' buttons and what resolves: rows are marked, and calls under way disturbed.
LEMMA ResolveRowsKeeps ==
  ASSUME AlertInv, NEW ids, ResolveRows(ids)
  PROVE  AlertInv' /\ RaiseStep
<1> DEFINE n == Len(alert)
<1>1. /\ n \in Nat /\ DOMAIN alert = 1..n /\ \A i \in 1..n : alert[i] \in AlertRows
      /\ alert' = [i \in 1..n |-> IF i \in ids THEN [alert[i] EXCEPT !.resolved = TRUE] ELSE alert[i]]
  BY DEF AlertInv, ResolveRows
<1>2. ASSUME NEW i \in 1..n
      PROVE  /\ alert'[i] \in AlertRows /\ alert'[i].dedupKey = alert[i].dedupKey /\ alert'[i].twin = alert[i].twin
             /\ alert[i].resolved = TRUE => alert'[i].resolved = TRUE
             /\ i \notin ids => alert'[i].resolved = alert[i].resolved
  BY <1>1 DEF AlertRows
<1>3. alert' \in Seq(AlertRows) /\ Len(alert') = n
  <2>1. alert' = [i \in 1..n |-> alert'[i]]
    BY <1>1
  <2>2. n \in Nat /\ \A i \in 1..n : alert'[i] \in AlertRows
    BY <1>1, <1>2
  <2> HIDE DEF n
  <2> QED
    BY <2>1, <2>2, RowsAreSeq
<1> DEFINE d(r) == raiser[r].disturbed \/ \E i \in ids : alert[i].dedupKey = raiser[r].key
<1>4. raiser' = [r \in Raisers |-> [pc |-> raiser[r].pc, key |-> raiser[r].key, found |-> raiser[r].found, disturbed |-> d(r)]]
  BY DEF ResolveRows
<1>5. \A r \in Raisers : d(r) \in BOOLEAN /\ raiser[r] \in [pc : {"idle", "found"}, key : AlertKeys \cup {"none"}, found : Nat, disturbed : BOOLEAN]
  BY DEF AlertInv, RaisersFit
<1>6. \A r \in Raisers : d(r) = FALSE => raiser[r].disturbed = FALSE /\ \A i \in ids : alert[i].dedupKey # raiser[r].key
  BY <1>5, Zenon
<1> HIDE DEF d
<1>7. RaisersFit'
  BY <1>4, <1>5 DEF RaisersFit
<1>8. \A r \in Raisers : /\ raiser'[r].pc = raiser[r].pc /\ raiser'[r].key = raiser[r].key
                         /\ raiser'[r].found = raiser[r].found /\ raiser'[r].disturbed = d(r)
  BY <1>4
<1>9. \A r \in Raisers : raiser'[r].disturbed = FALSE =>
        /\ raiser[r].disturbed = FALSE
        /\ \A i \in 1..n : alert[i].dedupKey = raiser[r].key => alert'[i].resolved = alert[i].resolved
  BY <1>2, <1>6, <1>8
<1> QED
  BY <1>2, <1>3, <1>7, <1>8, <1>9, AlertsShrink

\* Rows are marked as read, or nothing but the page and the conditions moves.
LEMMA ReadKeeps ==
  ASSUME AlertInv, MarkAllRead \/ (\E i \in AlertIds : MarkRead(i)) \/ UNCHANGED <<alert, raiser>>
  PROVE  AlertInv' /\ RaiseStep
<1> DEFINE n == Len(alert)
           R == [pc : {"idle", "found"}, key : AlertKeys \cup {"none"}, found : Nat, disturbed : BOOLEAN]
<1>1. n \in Nat /\ DOMAIN alert = 1..n /\ \A i \in 1..n : alert[i] \in AlertRows
  BY DEF AlertInv
<1>2. UNCHANGED raiser
  BY DEF MarkAllRead, MarkRead
<1>3. \/ alert' = [j \in 1..n |-> [alert[j] EXCEPT !.isRead = TRUE]]
      \/ \E i \in AlertIds : alert' = [alert EXCEPT ![i].isRead = TRUE]
      \/ alert' = alert
  BY <1>1 DEF MarkAllRead, MarkRead
<1>4. /\ alert' \in Seq(AlertRows) /\ Len(alert') = n
      /\ \A j \in 1..n : alert'[j].dedupKey = alert[j].dedupKey /\ alert'[j].twin = alert[j].twin
                         /\ alert'[j].resolved = alert[j].resolved
  <2> DEFINE m(j) == [alert[j] EXCEPT !.isRead = TRUE]
  <2>1. ASSUME NEW j \in 1..n
        PROVE  /\ m(j) \in AlertRows /\ m(j).dedupKey = alert[j].dedupKey /\ m(j).twin = alert[j].twin
               /\ m(j).resolved = alert[j].resolved
    BY <1>1 DEF AlertRows
  <2>2. \E S \in SUBSET (1..n) : alert' = [j \in 1..n |-> IF j \in S THEN m(j) ELSE alert[j]]
    <3>1. CASE alert' = [j \in 1..n |-> m(j)]
      <4>1. alert' = [j \in 1..n |-> IF j \in 1..n THEN m(j) ELSE alert[j]]
        BY <3>1
      <4> QED
        BY <4>1
    <3>2. CASE \E i \in AlertIds : alert' = [alert EXCEPT ![i].isRead = TRUE]
      <4>1. PICK i \in AlertIds : alert' = [alert EXCEPT ![i].isRead = TRUE]
        BY <3>2
      <4>2. DOMAIN alert' = 1..n /\ alert' = [j \in 1..n |-> alert'[j]]
        BY <1>1, <4>1
      <4> HIDE DEF m
      <4>3. \A j \in 1..n : alert'[j] = IF j \in {i} \cap (1..n) THEN m(j) ELSE alert[j]
        BY <1>1, <4>1 DEF m
      <4>4. alert' = [j \in 1..n |-> IF j \in {i} \cap (1..n) THEN m(j) ELSE alert[j]]
        BY <4>2, <4>3
      <4> QED
        BY <4>4
    <3>3. CASE alert' = alert
      <4>1. alert' = [j \in 1..n |-> IF j \in {} THEN m(j) ELSE alert[j]]
        BY <1>1, <3>3 DEF AlertInv
      <4> HIDE DEF m
      <4> WITNESS {} \in SUBSET (1..n)
      <4> QED
        BY <4>1
    <3> QED
      BY <1>3, <3>1, <3>2, <3>3
  <2>3. PICK S \in SUBSET (1..n) : alert' = [j \in 1..n |-> IF j \in S THEN m(j) ELSE alert[j]]
    BY <2>2
  <2> HIDE DEF m
  <2> QED
    BY <1>1, <2>1, <2>3
<1>5. RaisersFit'
  BY <1>2 DEF AlertInv, RaisersFit
<1> QED
  BY <1>2, <1>4, <1>5, AlertsShrink

LEMMA FindActiveKeeps ==
  ASSUME AlertInv, NEW r \in Raisers, NEW key \in AlertKeys, FindActive(r, key)
  PROVE  AlertInv' /\ RaiseStep
<1>1. PICK i \in IF ActiveOf(alert, key) = {} THEN {0} ELSE ActiveOf(alert, key) :
        raiser' = [raiser EXCEPT ![r] = [pc |-> "found", key |-> key, found |-> i, disturbed |-> FALSE]]
  BY DEF FindActive
<1>2. UNCHANGED alert /\ raiser[r].pc = "idle"
  BY DEF FindActive
<1>3. i \in Nat /\ (i = 0 => Open(alert, key) = {}) /\ (i # 0 => i \in Open(alert, key))
  <2>1. DOMAIN alert = 1..Len(alert)
    BY DEF AlertInv
  <2>2. ActiveOf(alert, key) = Open(alert, key) /\ \A j \in Open(alert, key) : j \in Nat /\ j # 0
    BY <2>1 DEF ActiveOf, Open
  <2> QED
    BY <2>2
<1> DEFINE x == [pc |-> "found", key |-> key, found |-> i, disturbed |-> FALSE]
<1>4. x.pc = "found" /\ x.key = key /\ x.found = i
      /\ x \in [pc : {"idle", "found"}, key : AlertKeys \cup {"none"}, found : Nat, disturbed : BOOLEAN]
  BY <1>3
<1>5. raiser' = [raiser EXCEPT ![r] = x]
  BY <1>1
<1> HIDE DEF x
<1>6. RaisersFit' /\ raiser'[r] = x /\ \A q \in Raisers : q # r => raiser'[q] = raiser[q]
  BY <1>4, <1>5 DEF AlertInv, RaisersFit
<1>7. KeysFit'
  BY <1>4, <1>6 DEF AlertInv, KeysFit
<1>8. ASSUME NEW q \in Raisers PROVE FoundNone(q)' /\ FoundOne(q)'
  <2>1. CASE q = r
    BY <1>2, <1>3, <1>4, <1>6, <2>1 DEF FoundNone, FoundOne
  <2>2. CASE q # r
    BY <1>2, <1>6, <2>2 DEF AlertInv, FoundNone, FoundOne
  <2> QED
    BY <2>1, <2>2
<1>9. TwinsOnly' /\ RaiseStep
  <2>1. TwinsOnly'
    BY <1>2 DEF AlertInv, TwinsOnly
  <2>2. \A q \in Raisers : ~(raiser[q].pc = "found" /\ raiser'[q].pc = "idle")
    BY <1>4, <1>6
  <2> QED
    BY <2>1, <2>2 DEF TwinsOnly, RaiseStep
<1> QED
  BY <1>2, <1>6, <1>7, <1>8, <1>9 DEF AlertInv

\* A new alert is a twin if another call has found none, and so are those it found none of.
LEMMA WriteAlertKeeps ==
  ASSUME AlertInv, NEW r \in Raisers, WriteAlert(r)
  PROVE  AlertInv' /\ RaiseStep
<1> DEFINE n == Len(alert)
           k == raiser[r].key
           t == \E q \in Raisers \ {r} : raiser[q].key = raiser[r].key /\ raiser[q].found = 0
           x == [dedupKey |-> k, isRead |-> FALSE, resolved |-> FALSE, twin |-> t]
<1>1. raiser' = [raiser EXCEPT ![r] = NotRaising] /\ raiser[r].pc = "found" /\ k \in AlertKeys
  BY DEF WriteAlert, AlertInv, KeysFit
<1>2. NotRaising \in [pc : {"idle", "found"}, key : AlertKeys \cup {"none"}, found : Nat, disturbed : BOOLEAN]
      /\ NotRaising.pc = "idle"
  BY DEF NotRaising
<1>3. RaisersFit' /\ raiser'[r] = NotRaising /\ \A q \in Raisers : q # r => raiser'[q] = raiser[q]
  BY <1>1, <1>2 DEF AlertInv, RaisersFit
<1>4. KeysFit'
  BY <1>2, <1>3 DEF AlertInv, KeysFit
<1>5. n \in Nat /\ DOMAIN alert = 1..n
  BY DEF AlertInv
<1>6. CASE raiser[r].found # 0
  <2>1. UNCHANGED alert
    BY <1>6 DEF WriteAlert
  <2>2. \A q \in Raisers : FoundNone(q)' /\ FoundOne(q)'
    BY <1>2, <1>3, <2>1 DEF AlertInv, FoundNone, FoundOne
  <2>3. TwinsOnly'
    BY <2>1 DEF AlertInv, TwinsOnly
  <2>4. raiser[r].disturbed \/ Open(alert', raiser[r].key) # {}
    <3>1. FoundOne(r) /\ raiser[r].disturbed \in BOOLEAN
      BY DEF AlertInv, RaisersFit
    <3>2. CASE raiser[r].disturbed = FALSE
      BY <1>1, <1>6, <2>1, <3>1, <3>2 DEF FoundOne
    <3> QED
      BY <3>1, <3>2
  <2>5. RaiseStep
    <3>1. \A q \in Raisers : raiser[q].pc = "found" /\ raiser'[q].pc = "idle" => q = r
      BY <1>3
    <3> QED
      BY <2>3, <2>4, <3>1 DEF TwinsOnly, RaiseStep
  <2> QED
    BY <1>3, <1>4, <2>1, <2>2, <2>3, <2>5 DEF AlertInv
<1>7. CASE raiser[r].found = 0
  <2>1. alert' = Append(alert, x)
    BY <1>7 DEF WriteAlert
  <2>2. x \in AlertRows /\ x.dedupKey = k /\ x.resolved = FALSE /\ x.twin = t
    BY <1>1 DEF AlertRows
  <2>3. \A q \in Raisers : q # r /\ raiser[q].key = k /\ raiser[q].found = 0 => t = TRUE
    OBVIOUS
  <2> HIDE DEF x, t
  <2>4. /\ alert' \in Seq(AlertRows) /\ DOMAIN alert' = 1..(n + 1) /\ alert'[n + 1] = x
        /\ \A i \in 1..n : alert'[i] = alert[i]
    BY <1>5, <2>1, <2>2 DEF AlertInv
  <2>5. ASSUME NEW key, NEW i \in Open(alert', key)
        PROVE  \/ i = n + 1 /\ key = k /\ alert'[i].twin = t
               \/ i \in 1..n /\ i \in Open(alert, key) /\ alert'[i].twin = alert[i].twin
    <3>1. i \in 1..(n + 1) /\ alert'[i].dedupKey = key /\ ~alert'[i].resolved
      BY <2>4 DEF Open
    <3>2. CASE i = n + 1
      BY <2>2, <2>4, <3>1, <3>2
    <3>3. CASE i # n + 1
      <4>1. i \in 1..n
        BY <1>5, <3>1, <3>3
      <4> QED
        BY <1>5, <2>4, <3>1, <4>1 DEF Open
    <3> QED
      BY <3>2, <3>3
  <2>6. n + 1 \in Open(alert', k) /\ \A key : \A i \in Open(alert, key) : i \in Open(alert', key)
    BY <1>5, <2>2, <2>4 DEF Open
  <2>7. \A i \in Open(alert, k) : alert[i].twin = TRUE
    BY <1>1, <1>7 DEF AlertInv, FoundNone
  <2>8. ASSUME NEW q \in Raisers PROVE FoundNone(q)' /\ FoundOne(q)'
    <3>1. CASE q = r
      BY <1>2, <1>3, <3>1 DEF FoundNone, FoundOne
    <3>2. CASE q # r
      <4>1. FoundNone(q) /\ FoundOne(q) /\ raiser'[q] = raiser[q]
        BY <1>3, <3>2 DEF AlertInv
      <4>2. FoundNone(q)'
        <5> SUFFICES ASSUME raiser[q].pc = "found", raiser[q].found = 0, NEW i \in Open(alert', raiser[q].key)
                     PROVE  alert'[i].twin = TRUE
          BY <4>1 DEF FoundNone
        <5>1. CASE i = n + 1 /\ raiser[q].key = k /\ alert'[i].twin = t
          BY <2>3, <3>2, <5>1
        <5>2. CASE i \in 1..n /\ i \in Open(alert, raiser[q].key) /\ alert'[i].twin = alert[i].twin
          BY <4>1, <5>2 DEF FoundNone
        <5> QED
          BY <2>5, <5>1, <5>2
      <4>3. FoundOne(q)'
        BY <2>6, <4>1 DEF FoundOne
      <4> QED
        BY <4>2, <4>3
    <3> QED
      BY <3>1, <3>2
  <2>9. TwinsOnly'
    <3> SUFFICES ASSUME NEW key \in AlertKeys, NEW i \in Open(alert', key), NEW j \in Open(alert', key), i < j
                 PROVE  alert'[i].twin = TRUE \/ alert'[j].twin = TRUE
      BY DEF TwinsOnly
    <3>1. i \in 1..n /\ i \in Open(alert, key) /\ alert'[i].twin = alert[i].twin
      <4>1. i # n + 1
        <5>1. j \in 1..(n + 1)
          BY <2>4 DEF Open
        <5> QED
          BY <1>5, <5>1
      <4> QED
        BY <2>5, <4>1
    <3>2. CASE key = k
      BY <2>7, <3>1, <3>2
    <3>3. CASE key # k
      <4>1. j \in Open(alert, key) /\ alert'[j].twin = alert[j].twin
        BY <2>5, <3>3
      <4> QED
        BY <3>1, <4>1 DEF AlertInv, TwinsOnly
    <3> QED
      BY <3>2, <3>3
  <2>10. RaiseStep
    <3>1. \A q \in Raisers : raiser[q].pc = "found" /\ raiser'[q].pc = "idle" => q = r
      BY <1>3
    <3> QED
      BY <2>6, <2>9, <3>1 DEF TwinsOnly, RaiseStep
  <2> QED
    BY <1>3, <1>4, <2>4, <2>8, <2>9, <2>10 DEF AlertInv
<1> QED
  BY <1>6, <1>7

LEMMA AlertNextInv == AlertInv /\ [AlertNext]_alertVars => AlertInv' /\ [RaiseStep]_alertVars
<1> SUFFICES ASSUME AlertInv, [AlertNext]_alertVars PROVE AlertInv' /\ RaiseStep
  OBVIOUS
<1>1. CASE UNCHANGED alertVars
  BY <1>1, ReadKeeps DEF alertVars
<1>2. CASE AutoResolve \/ FetchAlerts
  BY <1>2, ReadKeeps DEF AutoResolve, FetchAlerts
<1>3. ASSUME NEW key \in AlertKeys, AutoResolveKey(key) PROVE AlertInv' /\ RaiseStep
  BY <1>3, ResolveRowsKeeps DEF AutoResolveKey
<1>4. ASSUME NEW i \in AlertIds, Resolve(i) PROVE AlertInv' /\ RaiseStep
  BY <1>4, ResolveRowsKeeps DEF Resolve
<1> QED
  BY <1>1, <1>2, <1>3, <1>4, ReadKeeps, FindActiveKeeps, WriteAlertKeeps DEF AlertNext

\* A raise leaves an active alert of its key unless one was resolved after it looked, and
\* two are active only if two raises found none at once (alerts.service.ts 21-70): for any
\* number of alerts, keys and calls.
THEOREM AlertsCorrect == AlertSpec => RaisedOnce
<1>1. RaisedOnce <=> [][RaiseStep]_alertVars
  BY DEF RaisedOnce, RaiseStep
<1> QED
  BY <1>1, AlertInitInv, AlertNextInv, PTL DEF AlertSpec

-----------------------------------------------------------------------------
(* Consents: the accounts that share a consent *)

\* A key somebody holds: of a grant that was given; while the user has taken nothing
\* back it works, or the platform has replaced it by a later one that does.
KeyHeld(k) ==
  /\ k \in Keys /\ k.grant \in 1..idp.grants
  /\ ~idp.revoked => \E n \in 0..MaxRotations :
       Key(k.grant, n) \in idp.alive /\ k.n <= n /\ (k.n = n \/ idp.rotates)

\* What the ERROR of an account may be put down to.
Replaced == \E key \in idp.alive : key.n > 0
Excused(l) ==
  \/ idp.revoked \/ ~setup.appSecret \/ Replaced
  \/ l \in idp.blank
  \/ consentNet = "GOOGLE_ADS" /\ ~setup.sealKept

RowHolds(l) ==
  linkRow[l] # None =>
    /\ KeyHeld(linkRow[l].key)
    /\ ~linkRow[l].tracked => linkRow[l].key.n = 0 /\ linkRow[l].status = "ACTIVE"
    /\ linkRow[l].status = "ERROR" => Excused(l)
    /\ ~linkRow[l].readable => ~setup.sealKept

\* A row the sweep has in hand is that of a tracked account, whatever has become of it.
Loaded(l, r) ==
  /\ l \in Links /\ r \in LinkRows /\ KeyHeld(r.key) /\ (~r.readable => ~setup.sealKept)
  /\ linkRow[l] # None /\ linkRow[l].tracked
Answered ==
  /\ tokenSweep.answer = "rotated" =>
       idp.rotates /\ KeyHeld(Key(tokenSweep.row.key.grant, tokenSweep.row.key.n + 1))
  /\ Marks(tokenSweep.answer) => Excused(tokenSweep.link)
SweepHolds ==
  /\ \A job \in tokenSweep.todo : Loaded(job.link, job.row)
  /\ tokenSweep.link # None => Loaded(tokenSweep.link, tokenSweep.row) /\ Answered

\* Neither the row of an account nor what the sweep holds of it is of grant g.
Untouched(l, g) ==
  /\ linkRow[l] # None => linkRow[l].key.grant # g
  /\ \A job \in tokenSweep.todo : job.link = l => job.row.key.grant # g
  /\ tokenSweep.link # None /\ tokenSweep.link = l => tokenSweep.row.key.grant # g
ListedLink(i) == <<callback.state.org, callback.list[i]>>
Pcs == {"none", "exchange", "list", "upsert", "success", "refused"}
States == [org : ConsentOrgs, good : BOOLEAN]
CallbackTyped ==
  /\ callback \in [pc : Pcs, state : States \cup {None}, grant : Nat, list : Seq(GrantedAccounts), at : Nat \ {0}]
  /\ callback.grant <= idp.grants
  /\ callback.pc # "none" => callback.state \in States
  /\ callback.pc \in {"exchange", "list"} => callback.at = 1 /\ callback.list = <<>>
  /\ Len(callback.list) <= Len(Granted)
  /\ \A i \in DOMAIN callback.list : callback.list[i] = Granted[i]
SweepTyped ==
  tokenSweep \in [todo : SUBSET [link : Links, row : LinkRows], link : Links \cup {None}, row : LinkRows \cup {None},
                 answer : RefreshAnswers \cup {""}]
\* Of a new grant nobody knows; then the rows before callback.at have it and those from
\* there on do not.
StillToLink ==
  callback.pc \in {"upsert", "refused"} =>
    \A i \in DOMAIN callback.list : callback.at <= i => Untouched(ListedLink(i), callback.grant)
LinkedSoFar ==
  callback.pc \in {"upsert", "success"} /\ ~idp.rotates /\ consentNet # "META" =>
    \A i \in DOMAIN callback.list :
      i < callback.at \/ callback.pc = "success" =>
        linkRow[ListedLink(i)] # None /\ linkRow[ListedLink(i)].key.grant = callback.grant
KeyInHand == callback.pc \in {"list", "upsert"} => KeyHeld(Key(callback.grant, 0))
CallbackHolds ==
  /\ KeyInHand
  /\ callback.pc = "list" => \A l \in Links : Untouched(l, callback.grant)
  /\ StillToLink /\ LinkedSoFar

ConsentTyped ==
  /\ consentNet \in Grantors
  /\ linkRow \in [Links -> LinkRows \cup {None}]
  /\ idp \in [grants : Nat, alive : SUBSET Keys, blank : SUBSET Links, revoked : BOOLEAN, rotates : BOOLEAN]
  /\ consentNet = "META" => ~idp.rotates
  /\ flows \subseteq States
  /\ setup \in [appSecret : BOOLEAN, sealKept : BOOLEAN, developerToken : BOOLEAN]
ConsentInv ==
  /\ ConsentTyped /\ CallbackTyped /\ SweepTyped
  /\ \A l \in Links : RowHolds(l)
  /\ SweepHolds /\ CallbackHolds


\* What befalls keys: they are replaced by later ones, or all are taken back.
KeysGrow ==
  /\ idp'.grants \in Nat /\ idp.grants <= idp'.grants /\ idp'.rotates = idp.rotates
  /\ idp.revoked => idp'.revoked
  /\ ~idp'.revoked => \A g \in 1..idp.grants, n \in 0..MaxRotations :
       Key(g, n) \in idp.alive => \E m \in 0..MaxRotations :
         Key(g, m) \in idp'.alive /\ n <= m /\ (n = m \/ idp.rotates)
  /\ ~idp'.revoked => (Replaced => Replaced')
  /\ idp.blank \subseteq idp'.blank
  /\ (~setup.appSecret => ~setup'.appSecret) /\ (~setup.sealKept => ~setup'.sealKept)
  /\ UNCHANGED consentNet

LEMMA KeyStays == ASSUME NEW k, KeysGrow, ConsentTyped, KeyHeld(k) PROVE KeyHeld(k)'
<1>1. k \in Keys /\ k.grant \in 1..idp'.grants
  BY DEF KeysGrow, KeyHeld, ConsentTyped
<1>2. ASSUME ~idp'.revoked
      PROVE  \E n \in 0..MaxRotations : Key(k.grant, n) \in idp'.alive /\ k.n <= n /\ (k.n = n \/ idp'.rotates)
  <2>1. PICK n \in 0..MaxRotations : Key(k.grant, n) \in idp.alive /\ k.n <= n /\ (k.n = n \/ idp.rotates)
    BY <1>2 DEF KeyHeld, KeysGrow
  <2>2. PICK m \in 0..MaxRotations : Key(k.grant, m) \in idp'.alive /\ n <= m /\ (n = m \/ idp.rotates)
    BY <1>2, <2>1 DEF KeyHeld, KeysGrow
  <2>3. k.n \in Nat /\ MaxRotations \in Nat
    BY ConsentsAssumption DEF KeyHeld, Keys
  <2>4. k.n <= m /\ (k.n = m \/ idp'.rotates)
    BY <2>1, <2>2, <2>3 DEF KeysGrow
  <2> QED
    BY <2>2, <2>4
<1> QED
  BY <1>1, <1>2 DEF KeyHeld

LEMMA ExcuseStays == ASSUME NEW l, KeysGrow, Excused(l) PROVE Excused(l)'
  BY DEF KeysGrow, Excused

LEMMA SameKeys == ASSUME ConsentTyped, UNCHANGED idp, UNCHANGED setup, UNCHANGED consentNet PROVE KeysGrow
<1>1. MaxRotations \in Nat
  BY ConsentsAssumption
<1>2. Replaced => Replaced'
  BY DEF Replaced
<1> QED
  BY <1>1, <1>2 DEF KeysGrow, ConsentTyped

\* Rows nobody writes, and a sweep that goes on from what it loaded.
LEMMA RowStays ==
  ASSUME KeysGrow, ConsentTyped, NEW l \in Links, RowHolds(l), linkRow'[l] = linkRow[l]
  PROVE  RowHolds(l)'
<1>1. ~linkRow[l].readable /\ linkRow[l] # None => ~setup'.sealKept
  BY DEF RowHolds, KeysGrow
<1> QED
  BY <1>1, KeyStays, ExcuseStays DEF RowHolds

LEMMA LoadedStays ==
  ASSUME KeysGrow, ConsentTyped, NEW l, NEW r, Loaded(l, r), linkRow'[l] # None, linkRow'[l].tracked
  PROVE  Loaded(l, r)'
<1>1. KeyHeld(r.key)
  BY DEF Loaded
<1>2. KeyHeld(r.key)'
  BY <1>1, KeyStays
<1>3. ~r.readable => ~setup'.sealKept
  BY DEF Loaded, KeysGrow
<1> QED
  BY <1>2, <1>3 DEF Loaded

LEMMA AnsweredStays ==
  ASSUME KeysGrow, ConsentTyped, Answered, UNCHANGED tokenSweep
  PROVE  Answered'
<1>1. tokenSweep.answer = "rotated" => KeyHeld(Key(tokenSweep.row.key.grant, tokenSweep.row.key.n + 1))'
  <2> DEFINE k == Key(tokenSweep.row.key.grant, tokenSweep.row.key.n + 1)
  <2>1. PICK x : x = k
    OBVIOUS
  <2>2. KeyHeld(x) => KeyHeld(x)'
    BY KeyStays
  <2>3. KeyHeld(x) => KeyHeld(k)'
    BY <2>1, <2>2 DEF KeyHeld
  <2> QED
    BY <2>1, <2>3 DEF Answered
<1>2. Marks(tokenSweep.answer)' => Marks(tokenSweep.answer)
  BY DEF Marks, IsAuthFail, KeysGrow
<1>3. Excused(tokenSweep.link) => Excused(tokenSweep.link)'
  BY ExcuseStays DEF Excused
<1>4. Marks(tokenSweep.answer)' => Excused(tokenSweep.link)'
  BY <1>2, <1>3 DEF Answered
<1> QED
  BY <1>1, <1>4 DEF Answered, KeysGrow

\* A row that is written is of a grant that was given, and tracked if it was.
LEMMA RowWritten ==
  ASSUME ConsentInv, KeysGrow, NEW l \in Links, NEW r \in LinkRows,
         linkRow' = [linkRow EXCEPT ![l] = r],
         linkRow[l] # None /\ linkRow[l].tracked => r.tracked,
         KeyHeld(r.key)', ~r.tracked => r.key.n = 0 /\ r.status = "ACTIVE", r.status = "ERROR" => Excused(l)',
         ~r.readable => ~setup'.sealKept
  PROVE  /\ linkRow' \in [Links -> LinkRows \cup {None}]
         /\ linkRow'[l] = r /\ \A m \in Links \ {l} : linkRow'[m] = linkRow[m]
         /\ \A m \in Links : RowHolds(m)'
         /\ \A m, q : Loaded(m, q) => Loaded(m, q)'
<1>1. /\ linkRow' \in [Links -> LinkRows \cup {None}]
      /\ linkRow'[l] = r /\ \A m \in Links \ {l} : linkRow'[m] = linkRow[m]
  BY DEF ConsentInv, ConsentTyped
<1>2. RowHolds(l)'
  BY <1>1 DEF RowHolds
<1>3. ASSUME NEW m \in Links PROVE RowHolds(m)'
  <2>1. CASE m # l
    BY <1>1, <2>1, RowStays DEF ConsentInv
  <2> QED
    BY <1>2, <2>1
<1>4. ASSUME NEW m, NEW q, Loaded(m, q) PROVE Loaded(m, q)'
  <2>1. linkRow'[m] # None /\ linkRow'[m].tracked
    BY <1>1, <1>4, NoneIsNoLinkRow DEF Loaded
  <2> QED
    BY <1>4, <2>1, LoadedStays DEF ConsentInv
<1> QED
  BY <1>1, <1>3, <1>4

LEMMA SweepGoesOn ==
  ASSUME ConsentInv, KeysGrow, UNCHANGED tokenSweep, \A m, q : Loaded(m, q) => Loaded(m, q)'
  PROVE  SweepHolds' /\ SweepTyped'
<1>1. (tokenSweep.link # None => Answered)'
  <2>1. tokenSweep.link # None => Answered
    BY DEF ConsentInv, SweepHolds
  <2> QED
    BY <2>1, AnsweredStays DEF ConsentInv
<1>2. \A job \in tokenSweep'.todo : Loaded(job.link, job.row)'
  <2>1. \A job \in tokenSweep.todo : Loaded(job.link, job.row)
    BY DEF ConsentInv, SweepHolds
  <2> QED
    BY <2>1
<1>3. tokenSweep'.link # None => Loaded(tokenSweep.link, tokenSweep.row)'
  <2>1. PICK l, r : l = tokenSweep.link /\ r = tokenSweep.row
    OBVIOUS
  <2>2. l # None => Loaded(l, r)
    BY <2>1 DEF ConsentInv, SweepHolds
  <2>3. l # None => Loaded(l, r)'
    BY <2>2
  <2> QED
    BY <2>1, <2>3 DEF Loaded
<1> QED
  BY <1>1, <1>2, <1>3 DEF SweepHolds, SweepTyped, ConsentInv

LEMMA QuietKeeps ==
  ASSUME ConsentInv, KeysGrow, UNCHANGED <<linkRow, tokenSweep>>
  PROVE  (\A l \in Links : RowHolds(l)') /\ SweepHolds' /\ SweepTyped'
<1>1. ASSUME NEW l \in Links PROVE RowHolds(l)'
  BY RowStays DEF ConsentInv
<1>2. ASSUME NEW l, NEW r, Loaded(l, r) PROVE Loaded(l, r)'
  <2>1. linkRow'[l] # None /\ linkRow'[l].tracked
    BY <1>2 DEF Loaded
  <2> QED
    BY <1>2, <2>1, LoadedStays DEF ConsentInv
<1>3. SweepHolds' /\ SweepTyped'
  BY <1>2, SweepGoesOn
<1> QED
  BY <1>1, <1>3

\* The links a callback goes through.
LEMMA ListedLinks ==
  ASSUME CallbackTyped, callback.pc # "none", NEW i \in DOMAIN callback.list
  PROVE  /\ ListedLink(i) \in Links
         /\ \A j \in DOMAIN callback.list : ListedLink(j) = ListedLink(i) => j = i
<1>1. callback.list \in Seq(GrantedAccounts) /\ callback.state \in States
  BY DEF CallbackTyped
<1>2. callback.list[i] \in GrantedAccounts /\ callback.state.org \in ConsentOrgs
  BY <1>1 DEF States
<1>3. ASSUME NEW j \in DOMAIN callback.list, ListedLink(j) = ListedLink(i) PROVE j = i
  <2>1. Granted[j] = Granted[i]
    BY <1>3 DEF CallbackTyped, ListedLink
  <2>2. i \in DOMAIN Granted /\ j \in DOMAIN Granted
    <3>1. DOMAIN callback.list = 1..Len(callback.list) /\ DOMAIN Granted = 1..Len(Granted)
      BY <1>1, ConsentsAssumption
    <3>2. Len(callback.list) \in Nat /\ Len(Granted) \in Nat /\ Len(callback.list) <= Len(Granted)
      BY <1>1, ConsentsAssumption DEF CallbackTyped
    <3> QED
      BY <3>1, <3>2
  <2> QED
    BY <2>1, <2>2, ConsentsAssumption
<1> QED
  BY <1>2, <1>3 DEF ListedLink, Links

\* A callback while something else moves.
LEMMA CallbackStays ==
  ASSUME ConsentInv, UNCHANGED <<callback, consentNet>>, KeysGrow,
         \A l \in Links, g \in Nat : Untouched(l, g) => Untouched(l, g)',
         \A l \in Links : ~idp.rotates /\ consentNet # "META" /\ linkRow[l] # None =>
           linkRow'[l] # None /\ linkRow'[l].key.grant = linkRow[l].key.grant
  PROVE  CallbackTyped' /\ CallbackHolds'
<1>1. CallbackTyped'
  BY DEF ConsentInv, CallbackTyped, KeysGrow, ConsentTyped
<1>2. callback.grant \in Nat /\ CallbackTyped
  BY DEF ConsentInv, CallbackTyped
<1>3. callback.pc = "list" => \A l \in Links : Untouched(l, callback.grant)'
  <2> SUFFICES ASSUME callback.pc = "list", NEW l \in Links PROVE Untouched(l, callback.grant)'
    OBVIOUS
  <2>1. PICK g \in Nat : g = callback.grant
    BY <1>2
  <2>2. Untouched(l, g)'
    BY <2>1 DEF ConsentInv, CallbackHolds
  <2> QED
    BY <2>1, <2>2 DEF Untouched
<1>4. StillToLink'
  <2> SUFFICES ASSUME callback.pc \in {"upsert", "refused"}, NEW i \in DOMAIN callback.list, callback.at <= i
               PROVE  Untouched(ListedLink(i), callback.grant)'
    BY DEF StillToLink
  <2>1. PICK g \in Nat, l \in Links : g = callback.grant /\ l = ListedLink(i)
    BY <1>2, ListedLinks
  <2>2. Untouched(l, g)'
    BY <2>1 DEF ConsentInv, CallbackHolds, StillToLink
  <2> QED
    BY <2>1, <2>2 DEF Untouched, ListedLink
<1>5. LinkedSoFar'
  <2> SUFFICES ASSUME callback.pc \in {"upsert", "success"}, ~idp.rotates, consentNet # "META",
                      NEW i \in DOMAIN callback.list, i < callback.at \/ callback.pc = "success"
               PROVE  linkRow'[ListedLink(i)] # None /\ linkRow'[ListedLink(i)].key.grant = callback.grant
    BY DEF LinkedSoFar, KeysGrow, ListedLink
  <2>1. ListedLink(i) \in Links
    BY <1>2, ListedLinks
  <2>2. linkRow[ListedLink(i)] # None /\ linkRow[ListedLink(i)].key.grant = callback.grant
    BY DEF ConsentInv, CallbackHolds, LinkedSoFar
  <2> QED
    BY <2>1, <2>2
<1>6. KeyInHand'
  <2>1. PICK k : k = Key(callback.grant, 0)
    OBVIOUS
  <2>2. KeyHeld(k) => KeyHeld(k)'
    BY KeyStays DEF ConsentInv
  <2> QED
    BY <2>1, <2>2 DEF KeyInHand, ConsentInv, CallbackHolds, KeyHeld
<1> QED
  BY <1>1, <1>3, <1>4, <1>5, <1>6 DEF CallbackHolds, Untouched

LEMMA ConsentAround ==
  ASSUME ConsentInv,
         (\E org \in ConsentOrgs : StartConsent(org)) \/ TakeBack \/ Lapse \/ LoseAppSecret \/ UNCHANGED consentVars
  PROVE  ConsentInv'
<1>1. UNCHANGED <<consentNet, linkRow, callback, tokenSweep>>
  BY DEF StartConsent, TakeBack, Lapse, LoseAppSecret, consentVars
<1>2. ConsentTyped' /\ KeysGrow
  <2>1. CASE UNCHANGED <<idp, setup>>
    <3>1. flows' \subseteq States
      <4>1. flows \subseteq States
        BY DEF ConsentInv, ConsentTyped
      <4>2. CASE \E org \in ConsentOrgs : StartConsent(org)
        <5>1. PICK org \in ConsentOrgs : flows' = flows \cup {SignState(org)}
          BY <4>2 DEF StartConsent
        <5>2. SignState(org) \in States
          BY DEF SignState, States
        <5> QED
          BY <4>1, <5>1, <5>2
      <4>3. CASE Lapse
        <5>1. \A s \in States : [s EXCEPT !.good = FALSE] \in States
          BY DEF States
        <5>2. flows' = {[s EXCEPT !.good = FALSE] : s \in flows}
          BY <4>3 DEF Lapse
        <5> QED
          BY <4>1, <5>1, <5>2
      <4>4. CASE UNCHANGED flows
        BY <4>1, <4>4
      <4> QED
        BY <4>2, <4>3, <4>4 DEF TakeBack, LoseAppSecret, consentVars
    <3>2. KeysGrow
      BY <1>1, <2>1, SameKeys DEF ConsentInv
    <3> QED
      BY <1>1, <2>1, <3>1, <3>2 DEF ConsentInv, ConsentTyped
  <2>2. CASE TakeBack
    <3>1. idp \in [grants : Nat, alive : SUBSET Keys, blank : SUBSET Links, revoked : BOOLEAN, rotates : BOOLEAN]
      BY DEF ConsentInv, ConsentTyped
    <3>2. /\ idp' \in [grants : Nat, alive : SUBSET Keys, blank : SUBSET Links, revoked : BOOLEAN, rotates : BOOLEAN]
          /\ idp'.grants = idp.grants /\ idp'.rotates = idp.rotates /\ idp'.revoked
      BY <2>2, <3>1 DEF TakeBack
    <3>3. UNCHANGED <<flows, setup>>
      BY <2>2 DEF TakeBack
    <3>4. idp'.blank = idp.blank
      BY <2>2, <3>1 DEF TakeBack
    <3>5. KeysGrow
      BY <1>1, <3>1, <3>2, <3>3, <3>4 DEF KeysGrow
    <3> QED
      BY <1>1, <3>2, <3>3, <3>5 DEF ConsentInv, ConsentTyped
  <2>3. CASE LoseAppSecret
    <3>1. MaxRotations \in Nat
      BY ConsentsAssumption
    <3>2. ConsentTyped'
      BY <2>3 DEF LoseAppSecret, ConsentInv, ConsentTyped
    <3>3. KeysGrow
      <4>1. Replaced => Replaced'
        BY <2>3 DEF LoseAppSecret, Replaced
      <4> QED
        BY <2>3, <3>1, <4>1 DEF LoseAppSecret, KeysGrow, ConsentInv, ConsentTyped
    <3> QED
      BY <3>2, <3>3
  <2> QED
    BY <2>1, <2>2, <2>3 DEF StartConsent, Lapse, consentVars
<1>3. (\A l \in Links : RowHolds(l)') /\ SweepHolds' /\ SweepTyped'
  BY <1>1, <1>2, QuietKeeps
<1>4. \A l \in Links, g \in Nat : Untouched(l, g) => Untouched(l, g)'
  BY <1>1 DEF Untouched
<1>5. CallbackTyped' /\ CallbackHolds'
  BY <1>1, <1>2, <1>4, CallbackStays
<1> QED
  BY <1>2, <1>3, <1>5 DEF ConsentInv

\* A callback that goes on without a write.
LEMMA CallbackMoves ==
  ASSUME ConsentInv, UNCHANGED <<linkRow, idp, flows, setup, consentNet, tokenSweep>>, CallbackTyped', CallbackHolds'
  PROVE  ConsentInv'
<1>1. ConsentTyped' /\ KeysGrow
  BY SameKeys DEF ConsentInv, ConsentTyped
<1>2. (\A l \in Links : RowHolds(l)') /\ SweepHolds' /\ SweepTyped'
  BY <1>1, QuietKeeps
<1> QED
  BY <1>1, <1>2 DEF ConsentInv

LEMMA CallbackKeeps ==
  ASSUME ConsentInv, NEW state \in flows, Callback(state)
  PROVE  ConsentInv'
<1>1. state \in States
  BY DEF ConsentInv, ConsentTyped
<1>2. PICK pc \in {"exchange", "none"}, st \in States \cup {None} :
        /\ callback' = [pc |-> pc, state |-> st, grant |-> 0, list |-> <<>>, at |-> 1]
        /\ pc # "none" => st \in States
  BY <1>1 DEF Callback, NoCallback
<1>3. Len(Granted) \in Nat /\ DOMAIN <<>> = {} /\ Len(<<>>) = 0 /\ <<>> \in Seq(GrantedAccounts)
  BY ConsentsAssumption
<1>4. CallbackTyped'
  <2>1. idp'.grants \in Nat
    BY DEF Callback, ConsentInv, ConsentTyped
  <2>2. callback' \in [pc : Pcs, state : States \cup {None}, grant : Nat, list : Seq(GrantedAccounts), at : Nat \ {0}]
    BY <1>1, <1>2, <1>3 DEF Pcs
  <2>3. callback'.list = <<>> /\ callback'.state = st /\ callback'.pc = pc /\ callback'.grant = 0 /\ callback'.at = 1
    BY <1>2
  <2> QED
    BY <1>2, <1>3, <2>1, <2>2, <2>3 DEF CallbackTyped
<1>5. CallbackHolds'
  BY <1>2 DEF CallbackHolds, KeyInHand, StillToLink, LinkedSoFar
<1> QED
  BY <1>4, <1>5, CallbackMoves DEF Callback

LEMMA ListKeeps ==
  ASSUME ConsentInv, ListAccounts
  PROVE  ConsentInv'
<1>1. PICK n \in 0..Len(Granted) :
        \/ callback' = [callback EXCEPT !.list = SubSeq(Granted, 1, n), !.pc = "upsert"]
        \/ callback' = [callback EXCEPT !.pc = "refused"]
  BY DEF ListAccounts
<1>2. callback.pc = "list" /\ CallbackTyped /\ \A l \in Links : Untouched(l, callback.grant)
  BY DEF ListAccounts, ConsentInv, CallbackHolds
<1>3. /\ SubSeq(Granted, 1, n) \in Seq(GrantedAccounts) /\ Len(SubSeq(Granted, 1, n)) = n
      /\ \A i \in 1..n : SubSeq(Granted, 1, n)[i] = Granted[i]
      /\ Len(Granted) \in Nat
  BY ConsentsAssumption
<1>4. CallbackTyped'
  <2>1. CASE callback' = [callback EXCEPT !.pc = "refused"]
    BY <1>2, <2>1 DEF CallbackTyped, Pcs, ListAccounts
  <2>2. CASE callback' = [callback EXCEPT !.list = SubSeq(Granted, 1, n), !.pc = "upsert"]
    <3>1. /\ callback'.list = SubSeq(Granted, 1, n) /\ callback'.pc = "upsert"
          /\ callback'.state = callback.state /\ callback'.grant = callback.grant /\ callback'.at = callback.at
          /\ callback' \in [pc : Pcs, state : States \cup {None}, grant : Nat, list : Seq(GrantedAccounts), at : Nat \ {0}]
      BY <1>2, <1>3, <2>2 DEF CallbackTyped, Pcs
    <3>2. DOMAIN SubSeq(Granted, 1, n) = 1..n
      BY <1>3
    <3> QED
      BY <1>2, <1>3, <3>1, <3>2 DEF CallbackTyped, ListAccounts
  <2> QED
    BY <1>1, <2>1, <2>2
<1>5. callback'.grant = callback.grant /\ callback'.pc \in {"upsert", "refused"} /\ callback'.at = callback.at
  BY <1>1, <1>2 DEF CallbackTyped
<1>6. StillToLink'
  <2> SUFFICES ASSUME NEW i \in DOMAIN callback'.list PROVE Untouched(ListedLink(i), callback.grant)'
    BY DEF StillToLink
  <2>1. PICK l \in Links : l = ListedLink(i)'
    <3>1. callback'.list \in Seq(GrantedAccounts) /\ callback'.state \in States
      BY <1>4, <1>5 DEF CallbackTyped
    <3>2. callback'.list[i] \in GrantedAccounts /\ callback'.state.org \in ConsentOrgs
      BY <3>1 DEF States
    <3> QED
      BY <3>2 DEF ListedLink, Links
  <2>2. Untouched(l, callback.grant)
    BY <1>2
  <2> QED
    BY <1>5, <2>1, <2>2 DEF Untouched, ListAccounts
<1>7. LinkedSoFar'
  <2>1. callback'.at = 1 /\ callback'.pc # "success"
    BY <1>2, <1>5 DEF CallbackTyped
  <2>2. DOMAIN callback'.list = 1..Len(callback'.list) /\ Len(callback'.list) \in Nat
    BY <1>4 DEF CallbackTyped
  <2> QED
    BY <2>1, <2>2 DEF LinkedSoFar
<1>8. KeyInHand'
  BY <1>2, <1>5 DEF KeyInHand, ListAccounts, ConsentInv, CallbackHolds, KeyHeld
<1> QED
  BY <1>4, <1>5, <1>6, <1>7, <1>8, CallbackMoves DEF ListAccounts, CallbackHolds

LEMMA CallbackEnds ==
  ASSUME ConsentInv, UpsertFails \/ Connected
  PROVE  ConsentInv'
<1>1. PICK pc \in {"refused", "success"} : callback' = [callback EXCEPT !.pc = pc]
  BY DEF UpsertFails, Connected
<1>2. callback.pc = "upsert" /\ CallbackTyped
  BY DEF UpsertFails, Connected, ConsentInv
<1>3. /\ callback'.pc = pc /\ callback'.list = callback.list /\ callback'.state = callback.state
      /\ callback'.at = callback.at /\ callback'.grant = callback.grant
  BY <1>1, <1>2 DEF CallbackTyped
<1>4. UNCHANGED <<linkRow, idp, flows, setup, consentNet, tokenSweep>>
  BY DEF UpsertFails, Connected
<1>5. CallbackTyped'
  BY <1>1, <1>2, <1>3, <1>4 DEF CallbackTyped, Pcs
<1>6. StillToLink'
  <2> SUFFICES ASSUME NEW i \in DOMAIN callback.list, callback.at <= i PROVE Untouched(ListedLink(i), callback.grant)'
    BY <1>3 DEF StillToLink
  <2>1. Untouched(ListedLink(i), callback.grant)
    BY <1>2 DEF ConsentInv, CallbackHolds, StillToLink
  <2> QED
    BY <1>3, <1>4, <2>1 DEF Untouched, ListedLink
<1>7. LinkedSoFar'
  <2> SUFFICES ASSUME pc = "success", ~idp.rotates, consentNet # "META", NEW i \in DOMAIN callback.list
               PROVE  linkRow[ListedLink(i)] # None /\ linkRow[ListedLink(i)].key.grant = callback.grant
    BY <1>3, <1>4 DEF LinkedSoFar, ListedLink
  <2>1. callback.at > Len(callback.list)
    BY <1>1, <1>2 DEF UpsertFails, Connected, CallbackTyped
  <2>2. callback.list \in Seq(GrantedAccounts) /\ callback.at \in Nat
    BY <1>2 DEF CallbackTyped
  <2>3. i < callback.at
    BY <2>1, <2>2
  <2> QED
    BY <1>2, <2>3 DEF ConsentInv, CallbackHolds, LinkedSoFar
<1> QED
  BY <1>1, <1>3, <1>4, <1>5, <1>6, <1>7, CallbackMoves DEF CallbackHolds, KeyInHand

\* Nobody has a key of a grant that was not given yet.
LEMMA NewGrant ==
  ASSUME ConsentInv, NEW l \in Links, NEW g \in Nat, g > idp.grants
  PROVE  Untouched(l, g)
<1>1. ASSUME NEW k, KeyHeld(k) PROVE k.grant # g
  BY <1>1 DEF KeyHeld, ConsentInv, ConsentTyped
<1>2. linkRow[l] # None => linkRow[l].key.grant # g
  BY <1>1 DEF ConsentInv, RowHolds
<1>3. \A job \in tokenSweep.todo : job.row.key.grant # g
  BY <1>1 DEF ConsentInv, SweepHolds, Loaded
<1>4. tokenSweep.link # None => tokenSweep.row.key.grant # g
  BY <1>1 DEF ConsentInv, SweepHolds, Loaded
<1> QED
  BY <1>2, <1>3, <1>4 DEF Untouched

LEMMA ExchangeKeeps ==
  ASSUME ConsentInv, ExchangeCode
  PROVE  ConsentInv'
<1> DEFINE g == idp.grants + 1
<1>1. /\ callback.pc = "exchange" /\ callback.at = 1 /\ callback.list = <<>> /\ CallbackTyped /\ ConsentTyped
      /\ UNCHANGED <<consentNet, linkRow, flows, setup, tokenSweep>>
  BY DEF ExchangeCode, ConsentInv, CallbackTyped
<1>2. \/ callback' = [callback EXCEPT !.pc = "refused"]
      \/ callback' = [callback EXCEPT !.grant = g, !.pc = "list"] /\ idp'.grants = g
  BY <1>1 DEF ExchangeCode, ConsentTyped
<1>3. \/ UNCHANGED idp
      \/ idp' = [idp EXCEPT !.grants = g, !.alive = @ \cup {Key(g, 0)}]
  BY DEF ExchangeCode
<1>4. idp \in [grants : Nat, alive : SUBSET Keys, blank : SUBSET Links, revoked : BOOLEAN, rotates : BOOLEAN] /\ Key(g, 0) \in Keys
  BY <1>1 DEF ConsentTyped, Key, Keys
<1>5. /\ idp' \in [grants : Nat, alive : SUBSET Keys, blank : SUBSET Links, revoked : BOOLEAN, rotates : BOOLEAN]
      /\ idp.grants <= idp'.grants /\ idp'.revoked = idp.revoked /\ idp'.rotates = idp.rotates
      /\ idp.alive \subseteq idp'.alive /\ idp'.blank = idp.blank
  <2>1. CASE UNCHANGED idp
    BY <1>4, <2>1
  <2>2. CASE idp' = [idp EXCEPT !.grants = g, !.alive = @ \cup {Key(g, 0)}]
    <3>1. PICK new \in SUBSET Keys : new = idp.alive \cup {Key(g, 0)}
      BY <1>4
    <3>2. idp' = [idp EXCEPT !.grants = g, !.alive = new]
      BY <2>2, <3>1
    <3>3. g \in Nat /\ idp.grants <= g
      BY <1>4
    <3>4. idp' \in [grants : Nat, alive : SUBSET Keys, blank : SUBSET Links, revoked : BOOLEAN, rotates : BOOLEAN]
      BY <1>4, <3>2, <3>3
    <3>5. /\ idp'.grants = g /\ idp'.alive = new /\ idp'.revoked = idp.revoked /\ idp'.rotates = idp.rotates
          /\ idp'.blank = idp.blank
      BY <1>4, <3>2
    <3> QED
      BY <3>1, <3>3, <3>4, <3>5
  <2> QED
    BY <1>3, <2>1, <2>2
<1>6. KeysGrow
  <2>1. MaxRotations \in Nat
    BY ConsentsAssumption
  <2>2. Replaced => Replaced'
    BY <1>5 DEF Replaced
  <2> QED
    BY <1>1, <1>4, <1>5, <2>1, <2>2 DEF KeysGrow
<1>7. (\A l \in Links : RowHolds(l)') /\ SweepHolds' /\ SweepTyped'
  BY <1>1, <1>6, QuietKeeps
<1>8. ConsentTyped'
  BY <1>1, <1>5 DEF ConsentTyped
<1>9. /\ callback'.state = callback.state /\ callback'.list = <<>> /\ callback'.at = 1
      /\ callback' \in [pc : Pcs, state : States \cup {None}, grant : Nat, list : Seq(GrantedAccounts), at : Nat \ {0}]
      /\ callback'.grant <= idp'.grants /\ callback'.pc \in {"refused", "list"}
      /\ callback'.pc = "list" => callback'.grant = g
  <2>1. /\ callback \in [pc : Pcs, state : States \cup {None}, grant : Nat, list : Seq(GrantedAccounts), at : Nat \ {0}]
        /\ callback.grant <= idp.grants /\ g \in Nat
    BY <1>1, <1>4 DEF CallbackTyped
  <2>2. CASE callback' = [callback EXCEPT !.pc = "refused"]
    BY <1>1, <1>4, <1>5, <2>1, <2>2 DEF Pcs
  <2>3. CASE callback' = [callback EXCEPT !.grant = g, !.pc = "list"] /\ idp'.grants = g
    <3>1. PICK n \in Nat : n = g
      BY <2>1
    <3>2. callback' = [callback EXCEPT !.grant = n, !.pc = "list"] /\ n <= idp'.grants
      BY <2>3, <3>1
    <3> QED
      BY <1>1, <2>1, <3>1, <3>2 DEF Pcs
  <2> QED
    BY <1>2, <2>2, <2>3
<1>10. CallbackTyped'
  BY <1>1, <1>9 DEF CallbackTyped
<1>11. callback'.pc = "list" => \A l \in Links : Untouched(l, callback.grant)'
  <2> SUFFICES ASSUME callback'.pc = "list", NEW l \in Links PROVE Untouched(l, callback.grant)'
    OBVIOUS
  <2>1. PICK n \in Nat : n = g /\ n > idp.grants
    BY <1>4
  <2>2. Untouched(l, n)
    BY <2>1, NewGrant
  <2> QED
    BY <1>1, <1>9, <2>1, <2>2 DEF Untouched
<1>12. StillToLink' /\ LinkedSoFar'
  <2>1. DOMAIN callback'.list = {}
    BY <1>9
  <2> QED
    BY <2>1 DEF StillToLink, LinkedSoFar
<1>13. KeyInHand'
  <2>1. PICK n \in Nat : n = g
    BY <1>4
  <2> SUFFICES ASSUME callback'.pc = "list" PROVE KeyHeld(Key(n, 0))'
    BY <1>9, <2>1 DEF KeyInHand, KeyHeld, Key
  <2>2. callback'.pc # "refused"
    OBVIOUS
  <2>3. idp'.grants = n
    BY <1>1, <1>2, <2>1, <2>2 DEF CallbackTyped
  <2>4. Key(n, 0) \in idp'.alive
    <3>1. idp.grants # n
      BY <1>4, <2>1
    <3>2. idp' = [idp EXCEPT !.grants = g, !.alive = @ \cup {Key(g, 0)}]
      BY <1>3, <2>3, <3>1
    <3> QED
      BY <1>4, <2>1, <3>2
  <2>5. 0 \in 0..MaxRotations /\ n \in 1..n
    BY <1>4, <2>1, ConsentsAssumption
  <2> QED
    BY <1>4, <2>1, <2>3, <2>4, <2>5 DEF KeyHeld, Key
<1> QED
  BY <1>7, <1>8, <1>10, <1>11, <1>12, <1>13 DEF ConsentInv, CallbackHolds

LEMMA TrackedKeeps ==
  ASSUME ConsentInv, NEW l \in Links, Track(l) \/ Expires(l)
  PROVE  ConsentInv'
<1>1. /\ linkRow[l] # None /\ RowHolds(l)
      /\ UNCHANGED <<consentNet, idp, flows, setup, callback, tokenSweep>>
  BY DEF Track, Expires, ConsentInv
<1>2. linkRow[l] \in LinkRows /\ KeysGrow /\ linkRow \in [Links -> LinkRows \cup {None}]
  BY <1>1, SameKeys DEF ConsentInv, ConsentTyped
<1>3. PICK r \in LinkRows : /\ linkRow' = [linkRow EXCEPT ![l] = r]
                            /\ r.key = linkRow[l].key /\ r.status = linkRow[l].status /\ r.readable = linkRow[l].readable
                            /\ linkRow[l].tracked => r.tracked
                            /\ ~r.tracked => ~linkRow[l].tracked
  <2>1. CASE Track(l)
    <3>1. linkRow' = [linkRow EXCEPT ![l] = [linkRow[l] EXCEPT !.tracked = TRUE]]
      BY <1>2, <2>1 DEF Track
    <3>2. PICK r : r = [linkRow[l] EXCEPT !.tracked = TRUE]
      OBVIOUS
    <3>3. r \in LinkRows /\ r.key = linkRow[l].key /\ r.status = linkRow[l].status /\ r.readable = linkRow[l].readable
          /\ r.tracked
      BY <1>2, <3>2 DEF LinkRows
    <3> QED
      BY <3>1, <3>2, <3>3
  <2>2. CASE Expires(l)
    <3>1. linkRow' = [linkRow EXCEPT ![l] = [linkRow[l] EXCEPT !.due = TRUE]]
      BY <1>2, <2>2 DEF Expires
    <3>2. PICK r : r = [linkRow[l] EXCEPT !.due = TRUE]
      OBVIOUS
    <3>3. r \in LinkRows /\ r.key = linkRow[l].key /\ r.status = linkRow[l].status /\ r.readable = linkRow[l].readable
          /\ r.tracked = linkRow[l].tracked
      BY <1>2, <3>2 DEF LinkRows
    <3> QED
      BY <3>1, <3>2, <3>3
  <2> QED
    BY <2>1, <2>2
<1>4. KeyHeld(r.key)'
  BY <1>1, <1>2, <1>3, KeyStays DEF RowHolds, ConsentInv
<1>5. /\ ~r.tracked => r.key.n = 0 /\ r.status = "ACTIVE"
      /\ r.status = "ERROR" => Excused(l)'
      /\ ~r.readable => ~setup'.sealKept
  BY <1>1, <1>2, <1>3, ExcuseStays DEF RowHolds
<1>6. /\ linkRow' \in [Links -> LinkRows \cup {None}]
      /\ linkRow'[l] = r /\ \A m \in Links \ {l} : linkRow'[m] = linkRow[m]
      /\ \A m \in Links : RowHolds(m)'
      /\ \A m, q : Loaded(m, q) => Loaded(m, q)'
  BY <1>2, <1>3, <1>4, <1>5, RowWritten
<1>7. SweepHolds' /\ SweepTyped'
  BY <1>1, <1>2, <1>6, SweepGoesOn
<1>8. \A m \in Links : linkRow[m] # None => linkRow'[m] # None /\ linkRow'[m].key = linkRow[m].key
  BY <1>3, <1>6, NoneIsNoLinkRow
<1>9. \A m \in Links, g \in Nat : Untouched(m, g) => Untouched(m, g)'
  BY <1>1, <1>3, <1>6 DEF Untouched
<1>10. CallbackTyped' /\ CallbackHolds'
  BY <1>1, <1>2, <1>8, <1>9, CallbackStays
<1> QED
  BY <1>1, <1>6, <1>7, <1>10 DEF ConsentInv, ConsentTyped

LEMMA LinkKeeps ==
  ASSUME ConsentInv, UpsertAccount
  PROVE  ConsentInv'
<1> DEFINE at == callback.at
           l == ListedLink(at)
           k == Key(callback.grant, 0)
<1>1. /\ callback.pc = "upsert" /\ CallbackTyped /\ at <= Len(callback.list)
      /\ UNCHANGED <<consentNet, idp, flows, setup, tokenSweep>>
      /\ KeyHeld(k) /\ k.grant = callback.grant /\ k.n = 0
  BY DEF UpsertAccount, ConsentInv, CallbackHolds, KeyInHand, Key
<1>2. at \in DOMAIN callback.list /\ callback.list \in Seq(GrantedAccounts)
  BY <1>1 DEF CallbackTyped
<1>3. l \in Links /\ \A j \in DOMAIN callback.list : ListedLink(j) = l => j = at
  BY <1>1, <1>2, ListedLinks
<1>4. KeysGrow
  BY <1>1, SameKeys DEF ConsentInv
<1>5. PICK r \in LinkRows : /\ linkRow' = [linkRow EXCEPT ![l] = r] /\ r.key = k /\ r.status = "ACTIVE" /\ r.readable
                            /\ linkRow[l] # None /\ linkRow[l].tracked => r.tracked
  <2>1. consentNet \in Grantors /\ linkRow[l] \in LinkRows \cup {None} /\ k \in Keys
    BY <1>1, <1>3 DEF ConsentInv, ConsentTyped, KeyHeld
  <2>2. linkRow' = [linkRow EXCEPT ![l] = Upserted(linkRow[l], callback.grant)]
    BY DEF UpsertAccount, ListedLink
  <2>3. Upserted(linkRow[l], callback.grant) = StoredLink(linkRow[l], k)
    BY <2>1 DEF Upserted, MetaUpsert, GoogleUpsert, TikTokUpsert, Grantors
  <2>4. PICK r : r = StoredLink(linkRow[l], k)
    OBVIOUS
  <2>5. r.key = k /\ r.status = "ACTIVE" /\ r.readable /\ (linkRow[l] # None /\ linkRow[l].tracked => r.tracked)
    BY <2>4 DEF StoredLink
  <2>6. r \in LinkRows
    BY <2>1, <2>4 DEF StoredLink, LinkRows
  <2> QED
    BY <2>2, <2>3, <2>4, <2>5, <2>6
<1>6. KeyHeld(r.key)'
  <2>1. KeyHeld(r.key)
    BY <1>1, <1>5
  <2> QED
    BY <1>4, <2>1, KeyStays DEF ConsentInv
<1>7. r.key.n = 0 /\ r.key.grant = callback.grant /\ r # None
  BY <1>1, <1>5, NoneIsNoLinkRow
<1>8. /\ linkRow' \in [Links -> LinkRows \cup {None}]
      /\ linkRow'[l] = r /\ \A m \in Links \ {l} : linkRow'[m] = linkRow[m]
      /\ \A m \in Links : RowHolds(m)'
      /\ \A m, q : Loaded(m, q) => Loaded(m, q)'
  <2>1. PICK m \in Links : m = l
    BY <1>3
  <2> QED
    BY <1>4, <1>5, <1>6, <1>7, <2>1, RowWritten
<1>9. SweepHolds' /\ SweepTyped'
  BY <1>1, <1>4, <1>8, SweepGoesOn
<1>10. /\ callback' = [callback EXCEPT !.at = at + 1]
       /\ callback'.at = at + 1 /\ callback'.pc = "upsert" /\ callback'.list = callback.list
       /\ callback'.state = callback.state /\ callback'.grant = callback.grant
  BY <1>1 DEF UpsertAccount, CallbackTyped
<1>11. CallbackTyped' /\ KeyInHand'
  <2>1. CallbackTyped'
    BY <1>1, <1>10 DEF CallbackTyped
  <2>2. KeyInHand'
    BY <1>1, <1>10 DEF KeyInHand, KeyHeld
  <2> QED
    BY <2>1, <2>2
<1>12. StillToLink'
  <2> SUFFICES ASSUME NEW i \in DOMAIN callback.list, at + 1 <= i PROVE Untouched(ListedLink(i), callback.grant)'
    BY <1>10 DEF StillToLink
  <2>1. at <= i /\ i # at
    BY <1>1, <1>2 DEF CallbackTyped
  <2>2. Untouched(ListedLink(i), callback.grant) /\ ListedLink(i) \in Links \ {l}
    BY <1>1, <1>3, <2>1, ListedLinks DEF ConsentInv, CallbackHolds, StillToLink
  <2>3. linkRow'[ListedLink(i)] = linkRow[ListedLink(i)]
    BY <1>8, <2>2
  <2> QED
    BY <1>1, <1>10, <2>2, <2>3 DEF Untouched, ListedLink
<1>13. LinkedSoFar'
  <2> SUFFICES ASSUME ~idp.rotates, consentNet # "META", NEW i \in DOMAIN callback.list, i < at + 1
               PROVE  linkRow'[ListedLink(i)] # None /\ linkRow'[ListedLink(i)].key.grant = callback.grant
    BY <1>1, <1>10 DEF LinkedSoFar, ListedLink
  <2>1. CASE i = at
    BY <1>7, <1>8, <2>1
  <2>2. CASE i # at
    <3>1. i < at
      BY <1>1, <1>2, <2>2 DEF CallbackTyped
    <3>2. linkRow[ListedLink(i)] # None /\ linkRow[ListedLink(i)].key.grant = callback.grant
      BY <1>1, <3>1 DEF ConsentInv, CallbackHolds, LinkedSoFar
    <3>3. ListedLink(i) \in Links \ {l}
      BY <1>1, <1>3, <2>2, ListedLinks
    <3> QED
      BY <1>8, <3>2, <3>3
  <2> QED
    BY <2>1, <2>2
<1> QED
  BY <1>1, <1>8, <1>9, <1>10, <1>11, <1>12, <1>13 DEF ConsentInv, ConsentTyped, CallbackHolds

LEMMA StartSweepKeeps ==
  ASSUME ConsentInv, StartSweep
  PROVE  ConsentInv'
<1>1. /\ UNCHANGED <<consentNet, linkRow, idp, flows, setup, callback>>
      /\ tokenSweep.link = None /\ KeysGrow /\ SweepTyped /\ ConsentTyped
  BY SameKeys DEF StartSweep, ConsentInv
<1>2. PICK due \in SUBSET {l \in Links : Eligible(linkRow[l])} :
        tokenSweep' = [tokenSweep EXCEPT !.todo = {[link |-> l, row |-> linkRow[l]] : l \in due}]
  BY DEF StartSweep, MetaDue, GoogleDue, TikTokDue
<1>3. \A l \in due : l \in Links /\ linkRow[l] \in LinkRows /\ Loaded(l, linkRow[l])'
  <2> SUFFICES ASSUME NEW l \in due PROVE linkRow[l] \in LinkRows /\ Loaded(l, linkRow[l])'
    BY <1>2
  <2>1. l \in Links /\ linkRow[l] # None /\ linkRow[l].tracked
    BY <1>2 DEF Eligible
  <2>2. linkRow[l] \in LinkRows /\ KeyHeld(linkRow[l].key) /\ (~linkRow[l].readable => ~setup.sealKept)
    BY <1>1, <2>1 DEF ConsentInv, ConsentTyped, RowHolds
  <2> QED
    BY <1>1, <2>1, <2>2 DEF Loaded, KeyHeld
<1>4. PICK todo \in SUBSET [link : Links, row : LinkRows] : todo = {[link |-> l, row |-> linkRow[l]] : l \in due}
  <2>1. PICK todo : todo = {[link |-> l, row |-> linkRow[l]] : l \in due}
    OBVIOUS
  <2>2. ASSUME NEW job \in todo PROVE job \in [link : Links, row : LinkRows]
    <3>1. PICK l \in due : job = [link |-> l, row |-> linkRow[l]]
      BY <2>1
    <3> QED
      BY <1>3, <3>1
  <2> QED
    BY <2>1, <2>2
<1>5. SweepTyped' /\ tokenSweep'.todo = todo /\ tokenSweep'.link = None
  BY <1>1, <1>2, <1>4 DEF SweepTyped
<1>6. \A job \in todo : job.link \in due /\ job.row = linkRow[job.link]
  BY <1>4
<1>7. SweepHolds'
  BY <1>1, <1>3, <1>5, <1>6 DEF SweepHolds, Loaded
<1>8. \A l \in Links : RowHolds(l)'
  BY <1>1, RowStays DEF ConsentInv
<1>9. \A l \in Links, g \in Nat : Untouched(l, g) => Untouched(l, g)'
  <2> SUFFICES ASSUME NEW l \in Links, NEW g \in Nat, Untouched(l, g), NEW job \in todo, job.link = l
               PROVE  job.row.key.grant # g
    BY <1>1, <1>5 DEF Untouched
  <2>1. linkRow[l] # None
    BY <1>2, <1>6 DEF Eligible
  <2> QED
    BY <1>6, <2>1 DEF Untouched
<1>10. CallbackTyped' /\ CallbackHolds'
  BY <1>1, <1>9, CallbackStays
<1> QED
  BY <1>1, <1>5, <1>7, <1>8, <1>10 DEF ConsentInv, ConsentTyped

\* A refusal has its cause, and a key that is replaced is replaced by its successor.
LEMMA RefusalsAreFounded ==
  ASSUME ConsentTyped, NEW k, KeyHeld(k), NEW l, NEW kind \in RefusedAs(k)
  PROVE  kind \in RefreshAnswers \ {"same", "rotated", "unreadable"} /\ Excused(l)
<1>1. AppRefusals \cup DeadKeyRefusals \subseteq RefreshAnswers \ {"same", "rotated", "unreadable"}
  <2>1. \A n, m \in Int : MetaOauthKind(n, m) \in RefreshAnswers \ {"same", "rotated", "unreadable"}
    BY DEF MetaOauthKind, RefreshAnswers
  <2>2. \A n, m : GoogleOauthKind(n, m) \in RefreshAnswers \ {"same", "rotated", "unreadable"}
    BY DEF GoogleOauthKind, RefreshAnswers
  <2>3. \A n : TikTokOauthHttpKind(n) \in RefreshAnswers \ {"same", "rotated", "unreadable"}
    BY DEF TikTokOauthHttpKind, RefreshAnswers
  <2>4. \A n \in Int : TikTokOauthKind(n) \in RefreshAnswers \ {"same", "rotated", "unreadable"}
    BY DEF TikTokOauthKind, RefreshAnswers
  <2>5. ASSUME NEW x \in AppRefusals PROVE x \in RefreshAnswers \ {"same", "rotated", "unreadable"}
    <3>1. CASE consentNet = "META"
      BY <2>1, <2>5, <3>1 DEF AppRefusals
    <3>2. CASE consentNet = "GOOGLE_ADS"
      BY <2>2, <2>5, <3>2 DEF AppRefusals
    <3>3. CASE consentNet = "TIKTOK"
      BY <2>3, <2>4, <2>5, <3>3 DEF AppRefusals
    <3> QED
      BY <3>1, <3>2, <3>3 DEF ConsentTyped, Grantors
  <2>6. ASSUME NEW x \in DeadKeyRefusals PROVE x \in RefreshAnswers \ {"same", "rotated", "unreadable"}
    <3>1. CASE consentNet = "META"
      BY <2>1, <2>6, <3>1 DEF DeadKeyRefusals
    <3>2. CASE consentNet = "GOOGLE_ADS"
      BY <2>2, <2>6, <3>2 DEF DeadKeyRefusals
    <3>3. CASE consentNet = "TIKTOK"
      BY <2>3, <2>4, <2>6, <3>3 DEF DeadKeyRefusals
    <3> QED
      BY <3>1, <3>2, <3>3 DEF ConsentTyped, Grantors
  <2> QED
    BY <2>5, <2>6
<1>2. kind \in AppRefusals \cup DeadKeyRefusals
  BY DEF RefusedAs
<1>3. CASE ~setup.appSecret
  BY <1>1, <1>2, <1>3 DEF Excused
<1>4. CASE setup.appSecret
  <2>1. k \notin idp.alive
    BY <1>4 DEF RefusedAs
  <2>2. CASE ~idp.revoked
    <3>1. PICK n \in 0..MaxRotations : Key(k.grant, n) \in idp.alive /\ k.n <= n /\ (k.n = n \/ idp.rotates)
      BY <2>2 DEF KeyHeld
    <3>2. k.n \in Nat /\ k = Key(k.grant, k.n) /\ MaxRotations \in Nat
      BY ConsentsAssumption DEF KeyHeld, Keys, Key
    <3>3. k.n # n /\ n > 0
      BY <2>1, <3>1, <3>2
    <3>4. Key(k.grant, n).n > 0
      BY <3>3 DEF Key
    <3> QED
      BY <1>1, <1>2, <3>1, <3>4 DEF Excused, Replaced
  <2> QED
    BY <1>1, <1>2, <2>2 DEF Excused
<1> QED
  BY <1>3, <1>4

\* What becomes of the platform's books when it carries a refresh out, or answers nothing.
LEMMA RefreshedKeys ==
  ASSUME ConsentTyped, NEW k, KeyHeld(k), CarriedOut(k), NEW blank \in SUBSET Links, idp.blank \subseteq blank,
         idp' = [idp EXCEPT !.alive = AfterRefresh(k), !.blank = blank],
         UNCHANGED <<consentNet, linkRow, flows, setup, callback>>
  PROVE  KeysGrow /\ ConsentTyped' /\ idp'.blank = blank /\ (idp.rotates => KeyHeld(Key(k.grant, k.n + 1))')
<1> DEFINE next == Key(k.grant, k.n + 1)
<1>1. /\ k = Key(k.grant, k.n) /\ k \in Keys /\ next \in Keys /\ k.n \in Nat /\ k.grant \in 1..idp.grants
      /\ MaxRotations \in Nat /\ next.n = k.n + 1 /\ next.grant = k.grant
  <2>1. k \in Keys /\ k.grant \in 1..idp.grants
    BY DEF KeyHeld
  <2>2. k = Key(k.grant, k.n) /\ k.grant \in Nat /\ k.n \in Nat /\ k.n + 1 \in Nat
    BY <2>1 DEF Key, Keys
  <2>3. next \in Keys /\ next.n = k.n + 1 /\ next.grant = k.grant
    BY <2>2 DEF Key, Keys
  <2> QED
    BY <2>1, <2>2, <2>3, ConsentsAssumption
<1>2. PICK alive \in SUBSET Keys :
        /\ alive = IF idp.rotates THEN (idp.alive \ {k}) \cup {next} ELSE idp.alive
        /\ idp' = [idp EXCEPT !.alive = alive, !.blank = blank]
  BY <1>1 DEF AfterRefresh, ConsentTyped
<1>3. /\ idp \in [grants : Nat, alive : SUBSET Keys, blank : SUBSET Links, revoked : BOOLEAN, rotates : BOOLEAN]
      /\ idp.rotates => k.n + 1 \in 0..MaxRotations /\ 0 < k.n + 1
  BY <1>1 DEF CarriedOut, ConsentTyped
<1>4. /\ idp' \in [grants : Nat, alive : SUBSET Keys, blank : SUBSET Links, revoked : BOOLEAN, rotates : BOOLEAN]
      /\ idp'.grants = idp.grants /\ idp'.rotates = idp.rotates /\ idp'.revoked = idp.revoked
      /\ idp'.alive = alive /\ idp'.blank = blank
  BY <1>2, <1>3
<1>5. ConsentTyped'
  BY <1>4 DEF ConsentTyped
<1>6. Replaced => Replaced'
  <2>1. CASE idp.rotates
    BY <1>1, <1>2, <1>3, <1>4, <2>1 DEF Replaced
  <2>2. CASE ~idp.rotates
    BY <1>2, <1>4, <2>2 DEF Replaced
  <2> QED
    BY <2>1, <2>2
<1>7. ASSUME NEW g \in 1..idp.grants, NEW n \in 0..MaxRotations, Key(g, n) \in idp.alive
      PROVE  \E m \in 0..MaxRotations : Key(g, m) \in alive /\ n <= m /\ (n = m \/ idp.rotates)
  <2>1. CASE Key(g, n) = k /\ idp.rotates
    <3>1. g = k.grant /\ n = k.n /\ n <= k.n + 1
      BY <1>1, <2>1 DEF Key
    <3> QED
      BY <1>2, <1>3, <2>1, <3>1
  <2>2. CASE ~(Key(g, n) = k /\ idp.rotates)
    <3>1. Key(g, n) \in alive /\ n <= n
      BY <1>1, <1>2, <1>7, <2>2
    <3> QED
      BY <3>1
  <2> QED
    BY <2>1, <2>2
<1>8. KeysGrow
  BY <1>3, <1>4, <1>6, <1>7 DEF KeysGrow
<1>9. ASSUME idp.rotates PROVE KeyHeld(next)'
  <2>1. PICK g \in Nat, n \in Nat : g = k.grant /\ n = k.n + 1
    BY <1>1 DEF Keys
  <2>2. Key(g, n) \in Keys /\ Key(g, n).grant = g /\ Key(g, n).n = n /\ g \in 1..idp.grants
    BY <1>1, <2>1 DEF Key, Keys
  <2>3. Key(g, n) \in alive /\ n \in 0..MaxRotations
    BY <1>2, <1>3, <1>9, <2>1
  <2>4. KeyHeld(Key(g, n))'
    BY <1>4, <2>2, <2>3 DEF KeyHeld
  <2> QED
    BY <2>1, <2>4
<1> QED
  BY <1>4, <1>5, <1>8, <1>9

LEMMA AnswersAreFounded ==
  ASSUME ConsentInv, NEW job \in tokenSweep.todo, CallRefresh(job)
  PROVE  /\ KeysGrow /\ ConsentTyped'
         /\ \E a \in RefreshAnswers :
              /\ tokenSweep' = [tokenSweep EXCEPT !.todo = tokenSweep.todo \ {job}, !.link = job.link,
                                                  !.row = job.row, !.answer = a]
              /\ a = "rotated" => idp.rotates /\ KeyHeld(Key(job.row.key.grant, job.row.key.n + 1))'
              /\ Marks(a) => Excused(job.link)'
<1>1. PICK k, l, r : k = job.row.key /\ l = job.link /\ r = job.row
  OBVIOUS
<1>2. /\ KeyHeld(k) /\ ConsentTyped /\ l \in Links /\ (~r.readable => ~setup.sealKept)
      /\ UNCHANGED <<consentNet, linkRow, flows, setup, callback>>
  BY <1>1 DEF ConsentInv, SweepHolds, Loaded, CallRefresh
<1>3. PICK a \in RefreshAnswers :
        /\ tokenSweep' = [tokenSweep EXCEPT !.todo = tokenSweep.todo \ {job}, !.link = job.link,
                                            !.row = job.row, !.answer = a]
        /\ \/ ~r.readable /\ a = "unreadable" /\ UNCHANGED idp
           \/ r.readable /\ a \in RefusedAs(k) /\ UNCHANGED idp
           \/ /\ CarriedOut(k) /\ a \in {IF idp.rotates THEN "rotated" ELSE "same", "NETWORK", "UNAUTHORIZED"}
              /\ idp' = [idp EXCEPT !.alive = AfterRefresh(k), !.blank = Blanked(l, a)]
           \/ a \in {"NETWORK", "UNAUTHORIZED"} /\ idp' = [idp EXCEPT !.blank = Blanked(l, a)]
  BY <1>1 DEF CallRefresh
<1>4. PICK blank \in SUBSET Links : /\ blank = Blanked(l, a) /\ idp.blank \subseteq blank
                                    /\ a = "UNAUTHORIZED" => l \in blank
  BY <1>2 DEF Blanked, ConsentTyped
<1>5. /\ KeysGrow /\ ConsentTyped'
      /\ a = "rotated" => idp.rotates /\ KeyHeld(Key(k.grant, k.n + 1))'
      /\ Marks(a) => Excused(l)'
  <2>1. CASE ~r.readable /\ a = "unreadable" /\ UNCHANGED idp
    <3>1. KeysGrow /\ ConsentTyped'
      BY <1>2, <2>1, SameKeys DEF ConsentTyped
    <3>2. Marks(a) => Excused(l)
      BY <1>2, <2>1 DEF Marks, IsAuthFail, Excused
    <3> QED
      BY <2>1, <3>1, <3>2, ExcuseStays
  <2>2. CASE a \in RefusedAs(k) /\ UNCHANGED idp
    <3>1. KeysGrow /\ ConsentTyped'
      BY <1>2, <2>2, SameKeys DEF ConsentTyped
    <3>2. Excused(l) /\ a # "rotated"
      BY <1>2, <2>2, RefusalsAreFounded
    <3> QED
      BY <3>1, <3>2, ExcuseStays
  <2>3. CASE /\ CarriedOut(k) /\ a \in {IF idp.rotates THEN "rotated" ELSE "same", "NETWORK", "UNAUTHORIZED"}
             /\ idp' = [idp EXCEPT !.alive = AfterRefresh(k), !.blank = Blanked(l, a)]
    <3>1. idp' = [idp EXCEPT !.alive = AfterRefresh(k), !.blank = blank]
      BY <1>4, <2>3
    <3>2. KeysGrow /\ ConsentTyped' /\ idp'.blank = blank /\ (idp.rotates => KeyHeld(Key(k.grant, k.n + 1))')
      BY <1>2, <1>4, <2>3, <3>1, RefreshedKeys
    <3>3. Marks(a) => Excused(l)'
      BY <1>4, <2>3, <3>2 DEF Marks, IsAuthFail, Excused
    <3>4. a = "rotated" => idp.rotates
      BY <2>3
    <3> QED
      BY <3>2, <3>3, <3>4
  <2>4. CASE a \in {"NETWORK", "UNAUTHORIZED"} /\ idp' = [idp EXCEPT !.blank = Blanked(l, a)]
    <3>1. idp' = [idp EXCEPT !.blank = blank]
      BY <1>4, <2>4
    <3>2. /\ idp' \in [grants : Nat, alive : SUBSET Keys, blank : SUBSET Links, revoked : BOOLEAN, rotates : BOOLEAN]
          /\ idp'.grants = idp.grants /\ idp'.rotates = idp.rotates /\ idp'.revoked = idp.revoked
          /\ idp'.alive = idp.alive /\ idp'.blank = blank
      BY <1>2, <3>1 DEF ConsentTyped
    <3>3. ConsentTyped' /\ (Replaced => Replaced') /\ MaxRotations \in Nat
      BY <1>2, <3>2, ConsentsAssumption DEF ConsentTyped, Replaced
    <3>4. KeysGrow
      BY <1>2, <1>4, <3>2, <3>3 DEF KeysGrow
    <3>5. Marks(a) => Excused(l)'
      BY <1>4, <2>4, <3>2 DEF Marks, IsAuthFail, Excused
    <3> QED
      BY <2>4, <3>3, <3>4, <3>5
  <2> QED
    BY <1>3, <2>1, <2>2, <2>3, <2>4
<1>6. a = "rotated" => KeyHeld(Key(job.row.key.grant, job.row.key.n + 1))'
  BY <1>1, <1>5 DEF KeyHeld
<1>7. Marks(a) => Excused(job.link)'
  BY <1>1, <1>5 DEF Excused
<1> QED
  BY <1>3, <1>5, <1>6, <1>7

LEMMA RefreshCallKeeps ==
  ASSUME ConsentInv, NEW job \in tokenSweep.todo, CallRefresh(job)
  PROVE  ConsentInv'
<1>1. /\ UNCHANGED <<consentNet, linkRow, flows, setup, callback>> /\ tokenSweep.link = None
      /\ SweepTyped /\ Loaded(job.link, job.row) /\ ConsentTyped
  BY DEF CallRefresh, ConsentInv, SweepHolds
<1>2. KeysGrow /\ ConsentTyped'
  BY AnswersAreFounded
<1>3. PICK a \in RefreshAnswers :
        /\ tokenSweep' = [tokenSweep EXCEPT !.todo = tokenSweep.todo \ {job}, !.link = job.link,
                                            !.row = job.row, !.answer = a]
        /\ a = "rotated" => idp.rotates /\ KeyHeld(Key(job.row.key.grant, job.row.key.n + 1))'
        /\ Marks(a) => Excused(job.link)'
  BY AnswersAreFounded
<1>4. PICK l \in Links, r \in LinkRows : l = job.link /\ r = job.row
  BY <1>1 DEF Loaded
<1>5. PICK todo \in SUBSET tokenSweep.todo : todo = tokenSweep.todo \ {job}
  OBVIOUS
<1>6. tokenSweep' = [tokenSweep EXCEPT !.todo = todo, !.link = l, !.row = r, !.answer = a]
  BY <1>3, <1>4, <1>5
<1>7. /\ tokenSweep'.todo = todo /\ tokenSweep'.link = l /\ tokenSweep'.row = r /\ tokenSweep'.answer = a
      /\ SweepTyped'
  BY <1>1, <1>6 DEF SweepTyped
<1>8. ASSUME NEW m, NEW q, Loaded(m, q) PROVE Loaded(m, q)'
  <2>1. linkRow'[m] # None /\ linkRow'[m].tracked
    BY <1>1, <1>8 DEF Loaded
  <2> QED
    BY <1>1, <1>2, <1>8, <2>1, LoadedStays
<1>9. \A j \in todo : Loaded(j.link, j.row)'
  BY <1>8 DEF ConsentInv, SweepHolds
<1>10. Loaded(l, r)'
  BY <1>1, <1>4, <1>8
<1>11. Answered'
  <2>1. a = "rotated" => idp'.rotates
    BY <1>2, <1>3 DEF KeysGrow
  <2>2. Marks(a) => Excused(l)'
    BY <1>3, <1>4 DEF Excused
  <2>3. PICK k : k = Key(r.key.grant, r.key.n + 1)
    OBVIOUS
  <2>4. a = "rotated" => KeyHeld(k)'
    <3>1. PICK k2 : k2 = Key(job.row.key.grant, job.row.key.n + 1)
      OBVIOUS
    <3>2. k2 = k
      BY <1>4, <2>3, <3>1
    <3> QED
      BY <1>3, <1>4, <2>3, <3>1, <3>2
  <2> QED
    BY <1>1, <1>7, <2>1, <2>2, <2>3, <2>4 DEF Answered, Marks, KeyHeld, Excused
<1>12. SweepHolds'
  BY <1>7, <1>9, <1>10, <1>11 DEF SweepHolds, Loaded
<1>13. \A m \in Links : RowHolds(m)'
  BY <1>1, <1>2, RowStays DEF ConsentInv
<1>14. \A m \in Links, g \in Nat : Untouched(m, g) => Untouched(m, g)'
  BY <1>1, <1>4, <1>7 DEF Untouched
<1>15. CallbackTyped' /\ CallbackHolds'
  BY <1>1, <1>2, <1>14, CallbackStays
<1> QED
  BY <1>2, <1>7, <1>12, <1>13, <1>15 DEF ConsentInv

LEMMA WriteRefreshKeeps ==
  ASSUME ConsentInv, WriteRefresh
  PROVE  ConsentInv'
<1> DEFINE answer == tokenSweep.answer
           fresh == Key(tokenSweep.row.key.grant, tokenSweep.row.key.n + 1)
<1>1. /\ UNCHANGED <<consentNet, idp, flows, setup, callback>> /\ tokenSweep.link # None
      /\ Loaded(tokenSweep.link, tokenSweep.row) /\ Answered /\ SweepTyped /\ ConsentTyped /\ KeysGrow
  BY SameKeys DEF WriteRefresh, ConsentInv, SweepHolds
<1>2. PICK l \in Links, job \in LinkRows, old \in LinkRows :
        /\ l = tokenSweep.link /\ job = tokenSweep.row /\ old = linkRow[l]
        /\ old # None /\ old.tracked /\ KeyHeld(job.key) /\ KeyHeld(old.key)
        /\ old.status = "ERROR" => Excused(l)
        /\ ~old.readable => ~setup.sealKept
  <2>1. tokenSweep.link \in Links /\ RowHolds(tokenSweep.link)
    BY <1>1 DEF Loaded, ConsentInv
  <2>2. linkRow[tokenSweep.link] \in LinkRows
    BY <1>1, <2>1 DEF Loaded, ConsentTyped
  <2> QED
    BY <1>1, <2>1, <2>2 DEF Loaded, RowHolds
<1>3. consentNet \in Grantors /\ Grantors = {"META", "GOOGLE_ADS", "TIKTOK"}
  BY <1>1 DEF ConsentTyped, Grantors
<1>4. PICK r \in LinkRows :
        /\ linkRow' = [linkRow EXCEPT ![l] = r] /\ r.tracked /\ KeyHeld(r.key)
        /\ r.status = "ERROR" => Excused(l)
        /\ ~r.readable => ~setup.sealKept
        /\ r.key.grant \in {old.key.grant, job.key.grant}
        /\ ~idp.rotates /\ consentNet # "META" => r.key = old.key
  <2>1. CASE answer \in {"same", "rotated"}
    <3>1. PICK k \in Keys : k = fresh
      <4>1. job.key \in Keys /\ fresh = Key(job.key.grant, job.key.n + 1)
        BY <1>2 DEF LinkRows
      <4>2. Key(job.key.grant, job.key.n + 1) \in Keys
        BY <4>1 DEF Key, Keys
      <4> QED
        BY <4>1, <4>2
    <3>2. k.grant = job.key.grant /\ (answer = "rotated" => idp.rotates /\ KeyHeld(k))
      <4>1. k.grant = job.key.grant
        BY <1>2, <3>1 DEF Key
      <4>2. answer = "rotated" => idp.rotates /\ KeyHeld(fresh)
        BY <1>1 DEF Answered
      <4> QED
        BY <3>1, <4>1, <4>2
    <3>3. PICK key \in Keys : /\ key = IF consentNet = "META" THEN job.key ELSE IF answer = "rotated" THEN k ELSE old.key
                              /\ KeyHeld(key) /\ key.grant \in {old.key.grant, job.key.grant}
                              /\ ~idp.rotates /\ consentNet # "META" => key = old.key
      BY <1>2, <3>2 DEF LinkRows
    <3>4. PICK r : r = [[old EXCEPT !.key = key, !.status = "ACTIVE"] EXCEPT !.due = FALSE]
      OBVIOUS
    <3>5. r \in LinkRows /\ r.key = key /\ r.status = "ACTIVE" /\ r.tracked /\ r.readable = old.readable
      BY <1>2, <3>4 DEF LinkRows
    <3>6. linkRow' = [linkRow EXCEPT ![l] = r]
      <4>1. CASE consentNet = "META"
        <5>1. linkRow' = [linkRow EXCEPT ![l] = [MetaRefreshed(old, job, answer) EXCEPT !.due = FALSE]]
          BY <1>2, <2>1, <4>1 DEF WriteRefresh
        <5>2. MetaRefreshed(old, job, answer) = [old EXCEPT !.key = key, !.status = "ACTIVE"]
          BY <3>3, <4>1 DEF MetaRefreshed
        <5> QED
          BY <3>4, <5>1, <5>2
      <4>2. CASE consentNet # "META"
        <5>1. linkRow' = [linkRow EXCEPT ![l] = [GoogleRefreshed(old, job, answer) EXCEPT !.due = FALSE]]
          <6>1. GoogleRefreshed(old, job, answer) = TikTokRefreshed(old, job, answer)
            BY DEF GoogleRefreshed, TikTokRefreshed
          <6> QED
            BY <1>2, <1>3, <2>1, <4>2, <6>1 DEF WriteRefresh
        <5>2. GoogleRefreshed(old, job, answer) = [old EXCEPT !.key = key, !.status = "ACTIVE"]
          BY <1>2, <3>1, <3>3, <4>2 DEF GoogleRefreshed
        <5> QED
          BY <3>4, <5>1, <5>2
      <4> QED
        BY <4>1, <4>2
    <3> QED
      BY <1>2, <3>3, <3>5, <3>6
  <2>2. CASE answer \notin {"same", "rotated"}
    <3>1. linkRow' = [linkRow EXCEPT ![l] = IF Marks(answer) THEN MarkError(old) ELSE old]
      BY <1>2, <2>2 DEF WriteRefresh
    <3>2. CASE Marks(answer)
      <4>1. PICK r : r = MarkError(old)
        OBVIOUS
      <4>2. r \in LinkRows /\ r.key = old.key /\ r.tracked /\ r.readable = old.readable
        BY <1>2, <4>1 DEF MarkError, LinkRows
      <4> QED
        BY <1>1, <1>2, <3>1, <3>2, <4>1, <4>2 DEF Answered
    <3>3. CASE ~Marks(answer)
      BY <1>2, <3>1, <3>3
    <3> QED
      BY <3>2, <3>3
  <2> QED
    BY <2>1, <2>2
<1>5. KeyHeld(r.key)' /\ (r.status = "ERROR" => Excused(l)') /\ (~r.readable => ~setup'.sealKept)
  BY <1>1, <1>4, KeyStays, ExcuseStays
<1>6. /\ linkRow' \in [Links -> LinkRows \cup {None}]
      /\ linkRow'[l] = r /\ \A m \in Links \ {l} : linkRow'[m] = linkRow[m]
      /\ \A m \in Links : RowHolds(m)'
      /\ \A m, q : Loaded(m, q) => Loaded(m, q)'
  BY <1>1, <1>4, <1>5, RowWritten
<1>7. tokenSweep' = [tokenSweep EXCEPT !.link = None, !.row = None, !.answer = ""]
  BY DEF WriteRefresh
<1>8. SweepTyped' /\ tokenSweep'.todo = tokenSweep.todo /\ tokenSweep'.link = None
  BY <1>1, <1>7 DEF SweepTyped
<1>9. SweepHolds'
  <2>1. \A j \in tokenSweep.todo : Loaded(j.link, j.row)
    BY DEF ConsentInv, SweepHolds
  <2> QED
    BY <1>6, <1>8, <2>1 DEF SweepHolds
<1>10. \A m \in Links, g \in Nat : Untouched(m, g) => Untouched(m, g)'
  <2> SUFFICES ASSUME NEW m \in Links, NEW g \in Nat, Untouched(m, g) PROVE Untouched(m, g)'
    OBVIOUS
  <2>1. m # l => linkRow'[m] = linkRow[m]
    BY <1>6
  <2>2. m = l => r.key.grant # g
    BY <1>1, <1>2, <1>4 DEF Untouched
  <2> QED
    BY <1>6, <1>8, <2>1, <2>2 DEF Untouched
<1>11. \A m \in Links : ~idp.rotates /\ consentNet # "META" /\ linkRow[m] # None =>
         linkRow'[m] # None /\ linkRow'[m].key.grant = linkRow[m].key.grant
  BY <1>2, <1>4, <1>6, NoneIsNoLinkRow
<1>12. CallbackTyped' /\ CallbackHolds'
  BY <1>1, <1>10, <1>11, CallbackStays
<1> QED
  BY <1>1, <1>6, <1>8, <1>9, <1>12 DEF ConsentInv, ConsentTyped


\* Neither a callback nor the sweep is under way.
LEMMA NothingUnderWay ==
  ASSUME idp'.grants \in Nat, callback' = NoCallback, tokenSweep' = NoTokenSweep
  PROVE  CallbackTyped' /\ SweepTyped' /\ SweepHolds' /\ CallbackHolds'
<1>1. CallbackTyped'
  <2>1. <<>> \in Seq(GrantedAccounts) /\ Len(<<>>) = 0 /\ DOMAIN <<>> = {} /\ Len(Granted) \in Nat
    BY ConsentsAssumption
  <2>2. NoCallback \in [pc : Pcs, state : States \cup {None}, grant : Nat, list : Seq(GrantedAccounts), at : Nat \ {0}]
    BY <2>1 DEF NoCallback, Pcs
  <2>3. callback'.pc = "none" /\ callback'.grant = 0 /\ callback'.list = <<>>
    BY DEF NoCallback
  <2> QED
    BY <2>1, <2>2, <2>3 DEF CallbackTyped
<1>2. SweepTyped' /\ SweepHolds'
  BY DEF NoTokenSweep, SweepTyped, SweepHolds
<1>3. CallbackHolds'
  BY DEF NoCallback, CallbackHolds, KeyInHand, StillToLink, LinkedSoFar
<1> QED
  BY <1>1, <1>2, <1>3

LEMMA ConsentInitInv == ConsentInit => ConsentInv
<1> SUFFICES ASSUME ConsentInit PROVE ConsentInv
  OBVIOUS
<1>1. ConsentTyped
  <2>1. idp \in [grants : Nat, alive : SUBSET Keys, blank : SUBSET Links, revoked : BOOLEAN, rotates : BOOLEAN]
    <3>1. /\ idp = [grants |-> idp.grants, alive |-> idp.alive, blank |-> idp.blank, revoked |-> idp.revoked,
                    rotates |-> idp.rotates]
          /\ idp.grants = 0 /\ idp.alive = {} /\ idp.blank = {} /\ idp.revoked = FALSE
      BY DEF ConsentInit
    <3>2. idp.rotates \in BOOLEAN
      BY DEF ConsentInit
    <3>3. PICK a \in SUBSET Keys, d \in SUBSET Links, b \in BOOLEAN :
            idp = [grants |-> 0, alive |-> a, blank |-> d, revoked |-> FALSE, rotates |-> b]
      <4>1. {} \in SUBSET Keys /\ {} \in SUBSET Links
        OBVIOUS
      <4> QED
        BY <3>1, <3>2, <4>1
    <3> QED
      BY <3>3
  <2>2. consentNet = "META" => ~idp.rotates
    BY DEF ConsentInit
  <2>3. setup \in [appSecret : BOOLEAN, sealKept : BOOLEAN, developerToken : BOOLEAN]
    BY DEF ConsentInit
  <2> QED
    BY <2>1, <2>2, <2>3 DEF ConsentInit, ConsentTyped
<1>2. CallbackTyped
  <2>1. idp.grants \in Nat /\ callback = NoCallback
    BY <1>1 DEF ConsentTyped, ConsentInit
  <2>2. <<>> \in Seq(GrantedAccounts) /\ Len(<<>>) = 0 /\ DOMAIN <<>> = {} /\ Len(Granted) \in Nat
    BY ConsentsAssumption
  <2>3. NoCallback \in [pc : Pcs, state : States \cup {None}, grant : Nat, list : Seq(GrantedAccounts), at : Nat \ {0}]
    BY <2>2 DEF NoCallback, Pcs
  <2>4. callback.pc = "none" /\ callback.grant = 0 /\ callback.list = <<>>
    BY <2>1 DEF NoCallback
  <2> QED
    BY <2>1, <2>2, <2>3, <2>4 DEF CallbackTyped
<1>3. SweepTyped /\ SweepHolds
  BY DEF ConsentInit, NoTokenSweep, SweepTyped, SweepHolds
<1>4. CallbackHolds
  BY DEF ConsentInit, NoCallback, CallbackHolds, KeyInHand, StillToLink, LinkedSoFar
<1>5. \A l \in Links : RowHolds(l)
  BY DEF ConsentInit, RowHolds
<1> QED
  BY <1>1, <1>2, <1>3, <1>4, <1>5 DEF ConsentInv

LEMMA RestartKeeps ==
  ASSUME ConsentInv, RestartApi
  PROVE  ConsentInv'
<1>1. /\ UNCHANGED <<consentNet, idp, flows>> /\ callback' = NoCallback /\ tokenSweep' = NoTokenSweep /\ ConsentTyped
      /\ \/ UNCHANGED <<linkRow, setup>>
         \/ /\ setup' = [setup EXCEPT !.sealKept = FALSE]
            /\ linkRow' = [link \in Links |-> Unreadable(linkRow[link])]
  BY DEF RestartApi, ConsentInv
<1>2. /\ setup' \in [appSecret : BOOLEAN, sealKept : BOOLEAN, developerToken : BOOLEAN]
      /\ setup'.appSecret = setup.appSecret /\ (~setup.sealKept => ~setup'.sealKept)
  BY <1>1 DEF ConsentTyped
<1>3. KeysGrow
  <2>1. MaxRotations \in Nat /\ (Replaced => Replaced')
    BY <1>1, ConsentsAssumption DEF Replaced
  <2> QED
    BY <1>1, <1>2, <2>1 DEF KeysGrow, ConsentTyped
<1>4. CASE UNCHANGED <<linkRow, setup>>
  <2>1. \A l \in Links : RowHolds(l)'
    BY <1>1, <1>3, <1>4, RowStays DEF ConsentInv
  <2>2. ConsentTyped'
    BY <1>1, <1>4 DEF ConsentTyped
  <2>3. idp'.grants \in Nat
    BY <1>1 DEF ConsentTyped
  <2> QED
    BY <1>1, <1>3, <2>1, <2>2, <2>3, NothingUnderWay DEF ConsentInv
<1>5. CASE /\ setup' = [setup EXCEPT !.sealKept = FALSE]
           /\ linkRow' = [link \in Links |-> Unreadable(linkRow[link])]
  <2>1. ~setup'.sealKept
    BY <1>1, <1>5 DEF ConsentTyped
  <2>2. ASSUME NEW l \in Links PROVE linkRow'[l] \in LinkRows \cup {None} /\ RowHolds(l)'
    <3>1. linkRow'[l] = Unreadable(linkRow[l]) /\ linkRow[l] \in LinkRows \cup {None} /\ RowHolds(l)
      BY <1>1, <1>5 DEF ConsentTyped, ConsentInv
    <3>2. CASE linkRow[l] = None
      BY <3>1, <3>2 DEF Unreadable, RowHolds
    <3>3. CASE linkRow[l] # None
      <4>1. PICK r : r = [linkRow[l] EXCEPT !.readable = FALSE]
        OBVIOUS
      <4>2. /\ r \in LinkRows /\ r.key = linkRow[l].key /\ r.status = linkRow[l].status
            /\ r.tracked = linkRow[l].tracked
        BY <3>1, <3>3, <4>1 DEF LinkRows
      <4>3. linkRow'[l] = r
        BY <3>1, <3>3, <4>1 DEF Unreadable
      <4>4. KeyHeld(r.key)' /\ (r.status = "ERROR" => Excused(l)')
        BY <1>1, <1>3, <3>1, <3>3, <4>2, KeyStays, ExcuseStays DEF RowHolds
      <4> QED
        BY <2>1, <3>1, <3>3, <4>2, <4>3, <4>4 DEF RowHolds
    <3> QED
      BY <3>2, <3>3
  <2>3. linkRow' \in [Links -> LinkRows \cup {None}]
    BY <1>5, <2>2
  <2>4. ConsentTyped'
    BY <1>1, <1>2, <2>3 DEF ConsentTyped
  <2>5. idp'.grants \in Nat
    BY <1>1 DEF ConsentTyped
  <2> QED
    BY <1>1, <1>3, <2>2, <2>4, <2>5, NothingUnderWay DEF ConsentInv
<1> QED
  BY <1>1, <1>4, <1>5

LEMMA ConsentNextInv == ConsentInv /\ [ConsentNext]_consentVars => ConsentInv'
<1> SUFFICES ASSUME ConsentInv, [ConsentNext]_consentVars PROVE ConsentInv'
  OBVIOUS
<1>1. CASE (\E org \in ConsentOrgs : StartConsent(org)) \/ TakeBack \/ Lapse \/ LoseAppSecret \/ UNCHANGED consentVars
  BY <1>1, ConsentAround
<1>2. CASE \E state \in flows : Callback(state)
  BY <1>2, CallbackKeeps
<1>3. CASE ExchangeCode
  BY <1>3, ExchangeKeeps
<1>4. CASE ListAccounts
  BY <1>4, ListKeeps
<1>5. CASE UpsertAccount
  BY <1>5, LinkKeeps
<1>6. CASE UpsertFails \/ Connected
  BY <1>6, CallbackEnds
<1>7. CASE StartSweep
  BY <1>7, StartSweepKeeps
<1>8. CASE \E job \in tokenSweep.todo : CallRefresh(job)
  BY <1>8, RefreshCallKeeps
<1>9. CASE WriteRefresh
  BY <1>9, WriteRefreshKeeps
<1>10. CASE \E link \in Links : Track(link) \/ Expires(link)
  BY <1>10, TrackedKeeps
<1>11. CASE RestartApi
  BY <1>11, RestartKeeps
<1> QED
  BY <1>11, <1>1, <1>2, <1>3, <1>4, <1>5, <1>6, <1>7, <1>8, <1>9, <1>10 DEF ConsentNext

\* Nobody has to reconnect without a cause, the keys of all accounts of a consent work or
\* were replaced, a callback connects all or reports a failure, and the sweep leaves
\* untracked accounts alone; for any organizations, accounts, consents and rotations.
THEOREM ConsentsCorrect == ConsentSpec => []ConsentsHold
<1>1. ConsentInv => ConsentsHold
  <2> SUFFICES ASSUME ConsentInv PROVE ConsentsHold
    OBVIOUS
  <2>1. NoFalseAlarm /\ UntrackedIsLeftAlone
    BY DEF ConsentInv, RowHolds, Excused, Replaced, NoFalseAlarm, UntrackedIsLeftAlone
  <2>2. KeysWork
    <3> SUFFICES ASSUME NEW link \in Links, linkRow[link] # None, ~idp.revoked, NEW key, key = linkRow[link].key,
                        key \notin idp.alive
                 PROVE  idp.rotates /\ \E n \in 1..MaxRotations : Key(key.grant, n) \in idp.alive /\ key.n < n
      BY DEF KeysWork
    <3>1. key \in Keys /\ MaxRotations \in Nat
      BY ConsentsAssumption DEF ConsentInv, RowHolds, KeyHeld
    <3>2. PICK n \in 0..MaxRotations : Key(key.grant, n) \in idp.alive /\ key.n <= n /\ (key.n = n \/ idp.rotates)
      BY DEF ConsentInv, RowHolds, KeyHeld
    <3>3. key.n # n
      BY <3>1, <3>2 DEF Key, Keys
    <3>4. key.n < n /\ n \in 1..MaxRotations
      BY <3>1, <3>2, <3>3 DEF Keys
    <3> QED
      BY <3>2, <3>3, <3>4
  <2>3. ConsentIsWhole
    <3>1. callback.list \in Seq(GrantedAccounts) /\ callback.at \in Nat \ {0}
      BY DEF ConsentInv, CallbackTyped
    <3>2. DOMAIN callback.list = 1..Len(callback.list) /\ Len(callback.list) \in Nat
      BY <3>1
    <3>3. \A i \in callback.at..Len(callback.list) : i \in DOMAIN callback.list /\ callback.at <= i
      BY <3>1, <3>2
    <3> QED
      BY <3>3 DEF ConsentIsWhole, ConsentInv, CallbackHolds, StillToLink, LinkedSoFar, Untouched, ListedLink
  <2> QED
    BY <2>1, <2>2, <2>3 DEF ConsentsHold
<1> QED
  BY <1>1, ConsentInitInv, ConsentNextInv, PTL DEF ConsentSpec

-----------------------------------------------------------------------------
(* Providers: a write that reports success is in force *)

Levels == {"CAMPAIGN", "AD_SET"}
StrategyWords == {""} \cup {ToMeta(s) : s \in Strategies} \cup {ToGoogle(s) : s \in Strategies}
                      \cup {ToSnap(s) : s \in Strategies} \cup {ToTikTok(s) : s \in Strategies}
HeldSettings == [budget : [Levels -> Nat], strategy : StrategyWords, bid : Nat, target : Nat, ceiling : Nat]
AskOps  == {"fetch", "validateCredentials", "refreshAccessToken"} \cup Creations
Updates == {"updateBudget", "updateBiddingStrategy", "updateBidLimits"}

\* What a request carries.
AskCarries(ask) ==
  /\ ask.op \in AskOps \cup Updates
  /\ ask.op = "updateBudget" => ask.entity \in Levels /\ ask.amount \in Nat
  /\ ask.op = "updateBiddingStrategy" => ask.strategy \in Strategies /\ (ask.amount = None \/ ask.amount \in Nat)
  /\ ask.op = "updateBidLimits" => (ask.floor = None \/ ask.floor \in Nat) /\ (ask.ceiling = None \/ ask.ceiling \in Nat)

LEMMA AsksCarry == ASSUME NEW ask \in Asks PROVE AskCarries(ask)
<1>1. Amounts \subseteq Nat
  BY ProvidersAssumption
<1>2. CASE ask \in [op : {"updateBudget"}, entity : {"CAMPAIGN", "AD_SET"}, amount : Amounts]
  BY <1>1, <1>2 DEF AskCarries, Updates, Levels
<1>3. CASE ask \in [op : {"updateBiddingStrategy"}, strategy : Strategies, amount : Amounts \cup {None}]
  BY <1>1, <1>3 DEF AskCarries, Updates
<1>4. CASE ask \in [op : {"updateBidLimits"}, floor : Amounts \cup {None}, ceiling : Amounts \cup {None}]
  BY <1>1, <1>4 DEF AskCarries, Updates
<1>5. CASE ask \in [op : {"fetch", "validateCredentials", "refreshAccessToken"} \cup Creations]
  BY <1>5 DEF AskCarries, AskOps, Updates, Creations
<1> QED
  BY <1>2, <1>3, <1>4, <1>5 DEF Asks

\* What the writes do to the settings, by the fields they touch.
BudgetOnly(held, e, v, now) ==
  /\ now \in HeldSettings /\ now.budget[e] = v
  /\ \A d \in DOMAIN now.budget \ {e} : now.budget[d] = held.budget[d]
  /\ [now EXCEPT !.budget = held.budget] = held
LEMMA BudgetWrite ==
  ASSUME NEW held \in HeldSettings, NEW e \in Levels, NEW v \in Nat
  PROVE  BudgetOnly(held, e, v, [held EXCEPT !.budget[e] = v])
<1>0. PICK now : now = [held EXCEPT !.budget[e] = v]
  OBVIOUS
<1>1. PICK b \in [Levels -> Nat], s \in StrategyWords, i \in Nat, t \in Nat, c \in Nat :
        held = [budget |-> b, strategy |-> s, bid |-> i, target |-> t, ceiling |-> c]
  BY DEF HeldSettings
<1>2. PICK w : w = [b EXCEPT ![e] = v]
  OBVIOUS
<1>3. now = [budget |-> w, strategy |-> s, bid |-> i, target |-> t, ceiling |-> c]
  BY <1>0, <1>1, <1>2
<1>4. w \in [Levels -> Nat] /\ w[e] = v /\ \A d \in DOMAIN w \ {e} : w[d] = b[d]
  BY <1>2
<1>5. now \in HeldSettings
  BY <1>3, <1>4 DEF HeldSettings
<1>6. [now EXCEPT !.budget = held.budget] = held
  BY <1>1, <1>3
<1>7. BudgetOnly(held, e, v, now)
  BY <1>1, <1>3, <1>4, <1>5, <1>6 DEF BudgetOnly
<1> QED
  BY <1>0, <1>7

\* What reading the settings back gives, as SuccessIsReal asks it.
InMoney(p, v) == IF p = "META" THEN MinorToMajor(v) ELSE IF p = "TIKTOK" THEN v ELSE MicrosToMajor(v)
BudgetInForce(p, ask, old, now) ==
  /\ Within(InMoney(p, now.budget[ask.entity]), ask.amount, 5)
  /\ \A e \in DOMAIN now.budget \ {ask.entity} : now.budget[e] = old.budget[e]
  /\ [now EXCEPT !.budget = old.budget] = old
BidOf(p, now) == InMoney(p, IF p = "GOOGLE_ADS" THEN now.ceiling ELSE now.bid)
StrategyOf(p, now) ==
  IF p = "META" THEN FromMeta(now.strategy) ELSE IF p = "GOOGLE_ADS" THEN FromGoogle(now.strategy)
  ELSE IF p = "SNAPCHAT" THEN FromSnap(now.strategy) ELSE FromTikTok(now.strategy)
StrategyInForce(p, ask, old, now) ==
  /\ <<p, ask.strategy>> \in Lossy \/ StrategyOf(p, now) = ask.strategy
  /\ ask.strategy = "BID_CAP" /\ ask.amount # None /\ p # "GOOGLE_ADS" => Within(BidOf(p, now), ask.amount, 5)
  /\ now.budget = old.budget
LimitsInForce(p, ask, old, now) ==
  Within(BidOf(p, now), ask.ceiling, 5) /\ now.budget = old.budget

LEMMA UnitsReadBack ==
  ASSUME NEW m \in Nat
  PROVE  /\ MajorToMinor(m) \in Nat /\ Within(MinorToMajor(MajorToMinor(m)), m, 5)
         /\ MajorToMicros(m) \in Nat /\ Within(MicrosToMajor(MajorToMicros(m)), m, 5)
         /\ Within(m, m, 5)
<1>1. MajorToMinor(m) \in Nat /\ Within(MinorToMajor(MajorToMinor(m)), m, 5)
  <2>1. PICK c : c = (m + 5) \div 10
    OBVIOUS
  <2>2. c \in Nat /\ 10 * c <= m + 5 /\ m + 5 < 10 * c + 10
    BY <2>1
  <2>3. Within(c * 10, m, 5)
    BY <2>2 DEF Within
  <2> QED
    BY <2>1, <2>2, <2>3 DEF MajorToMinor, MinorToMajor
<1>2. MajorToMicros(m) \in Nat /\ MicrosToMajor(MajorToMicros(m)) = m
  BY DEF MajorToMicros, MicrosToMajor
<1>3. Within(m, m, 5)
  BY DEF Within
<1> QED
  BY <1>1, <1>2, <1>3

\* A budget on each platform.
LEMMA BudgetsReadBack ==
  ASSUME NEW p \in Platforms, NEW ask, AskCarries(ask), NEW held \in HeldSettings,
         ask.op = "updateBudget", p = "GOOGLE_ADS" => ask.entity # "AD_SET",
         NEW now, now = Written(p, ask, held)
  PROVE  now \in HeldSettings /\ BudgetInForce(p, ask, held, now)
<1>1. PICK e, m : e = ask.entity /\ m = ask.amount /\ e \in Levels /\ m \in Nat
  BY DEF AskCarries
<1>2. PICK v \in Nat : /\ now = [held EXCEPT !.budget[e] = v]
                       /\ Within(InMoney(p, v), m, 5)
  <2>1. CASE p = "META"
    <3>1. now = [held EXCEPT !.budget[e] = MajorToMinor(m)]
      BY <1>1, <2>1 DEF Written, MetaWrite, Kept
    <3> QED
      BY <1>1, <2>1, <3>1, UnitsReadBack DEF InMoney
  <2>2. CASE p = "GOOGLE_ADS"
    <3>1. e = "CAMPAIGN"
      BY <1>1, <2>2 DEF Levels
    <3>2. now = [held EXCEPT !.budget[e] = MajorToMicros(m)]
      BY <1>1, <2>2, <3>1 DEF Written, GoogleWrite, Kept
    <3> QED
      BY <1>1, <2>2, <3>2, UnitsReadBack DEF InMoney
  <2>3. CASE p = "SNAPCHAT"
    <3>1. now = [held EXCEPT !.budget[e] = MajorToMicros(m)]
      BY <1>1, <2>3 DEF Written, SnapWrite, Kept
    <3> QED
      BY <1>1, <2>3, <3>1, UnitsReadBack DEF InMoney
  <2>4. CASE p = "TIKTOK"
    <3>1. now = [held EXCEPT !.budget[e] = m]
      BY <1>1, <2>4 DEF Written, TikTokWrite, Kept, Same
    <3> QED
      BY <1>1, <2>4, <3>1, UnitsReadBack DEF InMoney
  <2> QED
    BY <2>1, <2>2, <2>3, <2>4 DEF Platforms
<1>3. BudgetOnly(held, e, v, now)
  <2>1. BudgetOnly(held, e, v, [held EXCEPT !.budget[e] = v])
    <3>1. held \in HeldSettings /\ e \in Levels /\ v \in Nat
      BY <1>1
    <3> QED
      BY <3>1, BudgetWrite, Zenon
  <2>2. now = [held EXCEPT !.budget[e] = v]
    BY <1>2
  <2> QED
    BY <2>1, <2>2, Zenon
<1>4. now.budget[ask.entity] = v
  BY <1>1, <1>3 DEF BudgetOnly
<1>5. Within(InMoney(p, now.budget[ask.entity]), ask.amount, 5)
  BY <1>1, <1>2, <1>4
<1>6. \A d \in DOMAIN now.budget \ {ask.entity} : now.budget[d] = held.budget[d]
  BY <1>1, <1>3 DEF BudgetOnly
<1> QED
  BY <1>3, <1>5, <1>6, Zenon DEF BudgetInForce, BudgetOnly

\* The fields but the budget, as the adapters write them.
OthersAre(held, s, b, t, c, now) ==
  /\ now \in HeldSettings /\ now.budget = held.budget
  /\ now.strategy = s /\ now.bid = b /\ now.target = t /\ now.ceiling = c
LEMMA StrategiesReadBack ==
  ASSUME NEW s \in Strategies
  PROVE  /\ FromMeta(ToMeta(s)) = s
         /\ (s # "COST_CAP" => FromGoogle(ToGoogle(s)) = s)
         /\ (s \notin {"COST_CAP", "TARGET_ROAS"} => FromSnap(ToSnap(s)) = s)
         /\ (s \notin {"COST_CAP", "TARGET_ROAS"} => FromTikTok(ToTikTok(s)) = s)
<1>1. FromMeta(ToMeta(s)) = s
  <2>1. PICK t : t = ToMeta(s)
    OBVIOUS
  <2>2. /\ s = "LOWEST_COST" => t = "LOWEST_COST_WITHOUT_CAP"
        /\ s = "BID_CAP" => t = "LOWEST_COST_WITH_BID_CAP"
        /\ s = "COST_CAP" => t = "COST_CAP"
        /\ s = "TARGET_CPA" => t = "TARGET_COST"
        /\ s = "TARGET_ROAS" => t = "LOWEST_COST_WITH_MIN_ROAS"
    BY <2>1 DEF ToMeta
  <2>3. FromMeta(t) = s
    BY <2>2 DEF FromMeta, Strategies
  <2> QED
    BY <2>1, <2>3
<1>2. (s # "COST_CAP" => FromGoogle(ToGoogle(s)) = s)
  <2>1. PICK t : t = ToGoogle(s)
    OBVIOUS
  <2>2. /\ s = "LOWEST_COST" => t = "MAXIMIZE_CONVERSIONS"
        /\ s = "BID_CAP" => t = "MANUAL_CPC"
        /\ s = "COST_CAP" => t = "TARGET_CPA"
        /\ s = "TARGET_CPA" => t = "TARGET_CPA"
        /\ s = "TARGET_ROAS" => t = "TARGET_ROAS"
    BY <2>1 DEF ToGoogle
  <2>3. (s # "COST_CAP" => FromGoogle(t) = s)
    BY <2>2 DEF FromGoogle, Strategies
  <2> QED
    BY <2>1, <2>3
<1>3. (s \notin {"COST_CAP", "TARGET_ROAS"} => FromSnap(ToSnap(s)) = s)
  <2>1. PICK t : t = ToSnap(s)
    OBVIOUS
  <2>2. /\ s = "LOWEST_COST" => t = "AUTO_BID"
        /\ s = "BID_CAP" => t = "LOWEST_COST_WITH_MAX_BID"
        /\ s = "COST_CAP" => t = "TARGET_COST"
        /\ s = "TARGET_CPA" => t = "TARGET_COST"
        /\ s = "TARGET_ROAS" => t = "AUTO_BID"
    BY <2>1 DEF ToSnap
  <2>3. (s \notin {"COST_CAP", "TARGET_ROAS"} => FromSnap(t) = s)
    BY <2>2 DEF FromSnap, Strategies
  <2> QED
    BY <2>1, <2>3
<1>4. (s \notin {"COST_CAP", "TARGET_ROAS"} => FromTikTok(ToTikTok(s)) = s)
  <2>1. PICK t : t = ToTikTok(s)
    OBVIOUS
  <2>2. /\ s = "LOWEST_COST" => t = "BID_TYPE_NO_BID"
        /\ s = "BID_CAP" => t = "BID_TYPE_CUSTOM"
        /\ s = "COST_CAP" => t = "BID_TYPE_MAX_CONVERSION"
        /\ s = "TARGET_CPA" => t = "BID_TYPE_MAX_CONVERSION"
        /\ s = "TARGET_ROAS" => t = "BID_TYPE_NO_BID"
    BY <2>1 DEF ToTikTok
  <2>3. (s \notin {"COST_CAP", "TARGET_ROAS"} => FromTikTok(t) = s)
    BY <2>2 DEF FromTikTok, Strategies
  <2> QED
    BY <2>1, <2>3
<1> QED
  BY <1>1, <1>2, <1>3, <1>4

LEMMA WordsOfPlatforms ==
  ASSUME NEW s \in Strategies
  PROVE  {ToMeta(s), ToGoogle(s), ToSnap(s), ToTikTok(s)} \subseteq StrategyWords
  BY DEF StrategyWords

\* A strategy on each platform.
LEMMA StrategiesInForce ==
  ASSUME NEW p \in Platforms, NEW ask, AskCarries(ask), NEW held \in HeldSettings,
         ask.op = "updateBiddingStrategy", NEW now, now = Written(p, ask, held)
  PROVE  now \in HeldSettings /\ StrategyInForce(p, ask, held, now)
<1>1. PICK s, m : s = ask.strategy /\ m = ask.amount
  OBVIOUS
<1>2. s \in Strategies /\ (m = None \/ m \in Nat)
  BY <1>1 DEF AskCarries
<1>3. PICK i \in Nat, g \in Nat, c \in Nat : i = held.bid /\ g = held.target /\ c = held.ceiling
  BY DEF HeldSettings
<1>4. PICK minor \in Nat, micros \in Nat, same \in Nat :
        /\ minor = (IF m = None THEN i ELSE MajorToMinor(m)) /\ micros = (IF m = None THEN i ELSE MajorToMicros(m))
        /\ same = (IF m = None THEN i ELSE m)
        /\ m # None => /\ Within(MinorToMajor(minor), m, 5) /\ Within(MicrosToMajor(micros), m, 5)
                       /\ Within(same, m, 5)
  BY <1>2, UnitsReadBack
<1>5. PICK t \in StrategyWords, b \in Nat, h \in Nat :
        /\ OthersAre(held, t, b, h, c, now)
        /\ t = (IF p = "META" THEN ToMeta(s) ELSE IF p = "GOOGLE_ADS" THEN ToGoogle(s)
                ELSE IF p = "SNAPCHAT" THEN ToSnap(s) ELSE ToTikTok(s))
        /\ s = "BID_CAP" /\ m # None /\ p # "GOOGLE_ADS" => Within(InMoney(p, b), m, 5)
  <2>1. CASE p = "META"
    <3>1. PICK t \in StrategyWords : t = ToMeta(s)
      BY <1>2, WordsOfPlatforms
    <3>2. now = [held EXCEPT !.strategy = t, !.bid = minor]
      BY <1>1, <1>3, <1>4, <2>1, <3>1 DEF Written, MetaWrite, Kept
    <3>3. OthersAre(held, t, minor, g, c, now)
      BY <1>3, <3>2 DEF OthersAre, HeldSettings
    <3> QED
      BY <1>4, <2>1, <3>1, <3>3 DEF InMoney
  <2>2. CASE p = "GOOGLE_ADS"
    <3>1. PICK t \in StrategyWords : t = ToGoogle(s)
      BY <1>2, WordsOfPlatforms
    <3>2. PICK h \in Nat : h = IF s \in {"TARGET_CPA", "TARGET_ROAS"} /\ m # None THEN MajorToMicros(m) ELSE g
      BY <1>2, UnitsReadBack
    <3>3. now = [held EXCEPT !.strategy = t, !.target = h]
      BY <1>1, <1>3, <2>2, <3>1, <3>2 DEF Written, GoogleWrite, Kept
    <3>4. OthersAre(held, t, i, h, c, now)
      BY <1>3, <3>3 DEF OthersAre, HeldSettings
    <3> QED
      BY <2>2, <3>1, <3>4
  <2>3. CASE p = "SNAPCHAT"
    <3>1. PICK t \in StrategyWords : t = ToSnap(s)
      BY <1>2, WordsOfPlatforms
    <3>2. now = [held EXCEPT !.strategy = t, !.bid = micros]
      BY <1>1, <1>3, <1>4, <2>3, <3>1 DEF Written, SnapWrite, Kept
    <3>3. OthersAre(held, t, micros, g, c, now)
      BY <1>3, <3>2 DEF OthersAre, HeldSettings
    <3> QED
      BY <1>4, <2>3, <3>1, <3>3 DEF InMoney
  <2>4. CASE p = "TIKTOK"
    <3>1. PICK t \in StrategyWords : t = ToTikTok(s)
      BY <1>2, WordsOfPlatforms
    <3>2. PICK b \in Nat : b = IF s = "BID_CAP" THEN same ELSE i
      OBVIOUS
    <3>3. PICK h \in Nat : h = IF s \in {"COST_CAP", "TARGET_CPA"} /\ m # None THEN m ELSE g
      BY <1>2
    <3>4. now = [held EXCEPT !.strategy = t, !.bid = b, !.target = h]
      BY <1>1, <1>3, <1>4, <2>4, <3>1, <3>2, <3>3 DEF Written, TikTokWrite, Kept, Same
    <3>5. OthersAre(held, t, b, h, c, now)
      BY <1>3, <3>4 DEF OthersAre, HeldSettings
    <3>6. s = "BID_CAP" /\ m # None => Within(InMoney(p, b), m, 5)
      BY <1>4, <2>4, <3>2 DEF InMoney
    <3> QED
      BY <2>4, <3>1, <3>5, <3>6
  <2> QED
    BY <2>1, <2>2, <2>3, <2>4 DEF Platforms
<1>6. <<p, s>> \in Lossy \/ StrategyOf(p, now) = s
  <2>1. now.strategy = t
    BY <1>5 DEF OthersAre
  <2>2. /\ FromMeta(ToMeta(s)) = s
        /\ s # "COST_CAP" => FromGoogle(ToGoogle(s)) = s
        /\ s \notin {"COST_CAP", "TARGET_ROAS"} => FromSnap(ToSnap(s)) = s
        /\ s \notin {"COST_CAP", "TARGET_ROAS"} => FromTikTok(ToTikTok(s)) = s
    BY <1>2, StrategiesReadBack
  <2>3. /\ p # "META" /\ s = "COST_CAP" => <<p, s>> \in Lossy
        /\ p \in {"SNAPCHAT", "TIKTOK"} /\ s = "TARGET_ROAS" => <<p, s>> \in Lossy
    BY DEF Lossy, Platforms
  <2> QED
    BY <1>5, <2>1, <2>2, <2>3 DEF StrategyOf, Platforms
<1>7. s = "BID_CAP" /\ m # None /\ p # "GOOGLE_ADS" => Within(BidOf(p, now), m, 5)
  BY <1>5 DEF BidOf, OthersAre
<1> QED
  BY <1>1, <1>5, <1>6, <1>7 DEF StrategyInForce, OthersAre

\* The limits: a ceiling on each platform.
LEMMA LimitsReadBack ==
  ASSUME NEW p \in Platforms, NEW ask, AskCarries(ask), NEW held \in HeldSettings,
         ask.op = "updateBidLimits", ask.ceiling # None, NEW now, now = Written(p, ask, held)
  PROVE  now \in HeldSettings /\ LimitsInForce(p, ask, held, now)
<1>1. PICK m \in Nat : m = ask.ceiling
  BY DEF AskCarries
<1>2. m # None
  BY <1>1
<1>3. PICK s \in StrategyWords, i \in Nat, g \in Nat, c \in Nat :
        s = held.strategy /\ i = held.bid /\ g = held.target /\ c = held.ceiling
  BY DEF HeldSettings
<1>4. PICK minor \in Nat, micros \in Nat :
        /\ minor = MajorToMinor(m) /\ micros = MajorToMicros(m)
        /\ Within(MinorToMajor(minor), m, 5) /\ Within(MicrosToMajor(micros), m, 5) /\ Within(m, m, 5)
  BY UnitsReadBack
<1>5. {"LOWEST_COST_WITH_MAX_BID", "BID_TYPE_CUSTOM"} \subseteq StrategyWords
  <2>1. "BID_CAP" \in Strategies /\ ToSnap("BID_CAP") = "LOWEST_COST_WITH_MAX_BID" /\ ToTikTok("BID_CAP") = "BID_TYPE_CUSTOM"
    BY DEF Strategies, ToSnap, ToTikTok
  <2> QED
    BY <2>1, WordsOfPlatforms
<1>6. PICK t \in StrategyWords, b \in Nat, k \in Nat :
        OthersAre(held, t, b, g, k, now) /\ Within(InMoney(p, IF p = "GOOGLE_ADS" THEN k ELSE b), m, 5)
  <2>1. CASE p = "META"
    <3>1. now = [held EXCEPT !.bid = minor]
      BY <1>1, <1>2, <1>4, <2>1 DEF Written, MetaWrite, Kept
    <3>2. OthersAre(held, s, minor, g, c, now)
      BY <1>3, <3>1 DEF OthersAre, HeldSettings
    <3> QED
      BY <1>4, <2>1, <3>2 DEF InMoney
  <2>2. CASE p = "GOOGLE_ADS"
    <3>1. now = [held EXCEPT !.ceiling = micros]
      BY <1>1, <1>2, <1>4, <2>2 DEF Written, GoogleWrite, Kept
    <3>2. OthersAre(held, s, i, g, micros, now)
      BY <1>3, <3>1 DEF OthersAre, HeldSettings
    <3> QED
      BY <1>4, <2>2, <3>2 DEF InMoney
  <2>3. CASE p = "SNAPCHAT"
    <3>1. now = [held EXCEPT !.strategy = "LOWEST_COST_WITH_MAX_BID", !.bid = micros]
      BY <1>1, <1>4, <2>3 DEF Written, SnapWrite, Kept
    <3>2. OthersAre(held, "LOWEST_COST_WITH_MAX_BID", micros, g, c, now)
      BY <1>3, <1>5, <3>1 DEF OthersAre, HeldSettings
    <3> QED
      BY <1>4, <1>5, <2>3, <3>2 DEF InMoney
  <2>4. CASE p = "TIKTOK"
    <3>1. now = [held EXCEPT !.strategy = "BID_TYPE_CUSTOM", !.bid = m]
      BY <1>1, <2>4 DEF Written, TikTokWrite, Kept, Same
    <3>2. OthersAre(held, "BID_TYPE_CUSTOM", m, g, c, now)
      BY <1>3, <1>5, <3>1 DEF OthersAre, HeldSettings
    <3> QED
      BY <1>4, <1>5, <2>4, <3>2 DEF InMoney
  <2> QED
    BY <2>1, <2>2, <2>3, <2>4 DEF Platforms
<1>7. Within(BidOf(p, now), m, 5)
  BY <1>6 DEF BidOf, OthersAre
<1> QED
  BY <1>1, <1>6, <1>7 DEF LimitsInForce, OthersAre

\* The parts of the invariant.  A call carries what its request had; what is decided
\* before the first request holds from there on.
CallFields == {"ask", "pc", "token", "tries", "sends", "page", "outcome", "kind", "unsure", "ignored",
               "real", "rotated", "before"}
CallShape(c) == DOMAIN c = CallFields
Unread  == {"idle", "mock", "load", "check", "reload", "gate", "refresh"}
Loading == {"load", "check", "reload", "gate", "refresh", "read", "send"}
Counted(c) ==
  /\ c.pc \in Unread \cup {"read", "send", "done"}
  /\ c.tries \in 0..4 /\ c.sends \in 0..1
  /\ c.pc \in Unread => c.tries = 0
  /\ c.pc = "read" => c.tries < 4
  /\ c.sends = 1 => c.pc = "done"
Asked(p, c) ==
  /\ c.pc = "idle" => c.ask = None
  /\ c.pc # "idle" => AskCarries(c.ask)
  /\ c.pc \in Loading => c.ask.op \notin Creations
  /\ c.pc = "refresh" => c.ask.op = "refreshAccessToken"
  /\ c.pc = "send" => c.ask.op \in Updates
  /\ c.pc = "read" => c.ask.op \in {"fetch", "validateCredentials"} \cup Updates
  /\ c.pc \in {"read", "send"} => /\ c.ask.op = "updateBidLimits" => c.ask.floor = None /\ c.ask.ceiling # None
                                  /\ c.ask.op = "updateBudget" /\ p = "GOOGLE_ADS" => c.ask.entity # "AD_SET"
\* After a rotation the row has the new token, and Google's call goes on with it.
TokenHeld(p, row, c) ==
  /\ c.rotated => row.token = "new"
  /\ c.pc \in {"idle", "mock", "load", "check"} => c.rotated = FALSE
  /\ p = "GOOGLE_ADS" /\ c.rotated /\ c.pc \in {"gate", "read", "send"} => c.token = "new"
\* The platform holds what it held until the write is sent; a success is in force.
InForce(p, ask, old, now) ==
  /\ ask.op = "updateBudget" => BudgetInForce(p, ask, old, now)
  /\ ask.op = "updateBiddingStrategy" => StrategyInForce(p, ask, old, now)
  /\ ask.op = "updateBidLimits" =>
       ask.floor = None /\ (IF ask.ceiling = None THEN now = old ELSE LimitsInForce(p, ask, old, now))
  /\ ask.op \in AskOps => now = old
Effect(p, held, c) ==
  /\ c.pc # "done" => c.outcome # "success"
  /\ c.pc \in {"idle", "mock", "load"} => c.real = FALSE
  /\ c.sends = 0 /\ c.pc # "idle" => held = c.before
  /\ c.pc = "done" /\ c.outcome # "success" /\ ~c.unsure => held = c.before
  /\ c.outcome = "success" /\ c.real /\ ~c.ignored => InForce(p, c.ask, c.before, held)

RowOk(row) ==
  row \in [status : {"ACTIVE", "MOCK", "GONE", "MISMATCH", "NO_TOKEN"}, token : {"old", "new"}, due : BOOLEAN]
RemoteOk(remote) == remote \in [settings : HeldSettings, accepts : SUBSET {"old", "new"}, pages : Nat]
CallOk(p, row, held, c) == CallShape(c) /\ Counted(c) /\ Asked(p, c) /\ TokenHeld(p, row, c) /\ Effect(p, held, c)
ProviderInv ==
  /\ adPlatform \in Platforms /\ RowOk(adRow) /\ RemoteOk(adRemote)
  /\ CallOk(adPlatform, adRow, adRemote.settings, adCall)


\* The fields of a call that stay, whatever else a step sets.
SameRequest(c, d) == d.ask = c.ask /\ d.before = c.before
SameToken(c, d)   == d.token = c.token /\ d.rotated = c.rotated
SameCounts(c, d)  == d.tries = c.tries /\ d.sends = c.sends

LEMMA EndedIs ==
  ASSUME NEW c, CallShape(c), NEW o, NEW k, NEW d, d = Ended(c, o, k)
  PROVE  /\ CallShape(d) /\ SameRequest(c, d) /\ SameToken(c, d) /\ SameCounts(c, d)
         /\ d.real = c.real /\ d.unsure = c.unsure /\ d.ignored = c.ignored /\ d.pc = "done" /\ d.outcome = o
  BY DEF Ended, CallShape, CallFields, SameRequest, SameToken, SameCounts

\* A call that moves on to the next of its steps.
LEMMA MovedIs ==
  ASSUME NEW c, CallShape(c), NEW q, NEW d, d = [c EXCEPT !.pc = q]
  PROVE  /\ CallShape(d) /\ SameRequest(c, d) /\ SameToken(c, d) /\ SameCounts(c, d)
         /\ d.real = c.real /\ d.unsure = c.unsure /\ d.ignored = c.ignored /\ d.pc = q /\ d.outcome = c.outcome
  BY DEF CallShape, CallFields, SameRequest, SameToken, SameCounts

\* A call that ends without a success, and before its write was sent.
LEMMA EndsWithout ==
  ASSUME NEW p, NEW row, NEW held, NEW c, CallOk(p, row, held, c), c.pc \notin {"idle", "done"},
         NEW o, o # "success", NEW k, NEW d, d = Ended(c, o, k)
  PROVE  CallOk(p, row, held, d)
<1>1. CallShape(c) /\ c.sends = 0 /\ AskCarries(c.ask) /\ held = c.before
  BY DEF CallOk, Counted, Asked, Effect
<1>2. /\ CallShape(d) /\ SameRequest(c, d) /\ SameToken(c, d) /\ SameCounts(c, d)
      /\ d.pc = "done" /\ d.outcome = o
  BY <1>1, EndedIs
<1>3. Counted(d)
  BY <1>2 DEF CallOk, Counted, SameCounts, Unread
<1>4. Asked(p, d)
  BY <1>1, <1>2 DEF Asked, SameRequest, Loading
<1>5. TokenHeld(p, row, d)
  BY <1>2 DEF CallOk, TokenHeld, SameToken
<1>6. Effect(p, held, d)
  BY <1>1, <1>2 DEF Effect, SameRequest
<1> QED
  BY <1>2, <1>3, <1>4, <1>5, <1>6 DEF CallOk

\* A call that reports success without a request that writes: there was nothing to write,
\* or the account is the mock's.
LEMMA EndsIdle ==
  ASSUME NEW p, NEW row, NEW held, NEW c, CallOk(p, row, held, c), c.pc \notin {"idle", "done", "send"},
         \/ c.real = FALSE
         \/ c.ask.op \in AskOps
         \/ c.ask.op = "updateBidLimits" /\ c.ask.floor = None /\ c.ask.ceiling = None,
         NEW k, NEW d, d = Ended(c, "success", k)
  PROVE  CallOk(p, row, held, d)
<1>1. CallShape(c) /\ c.sends = 0 /\ AskCarries(c.ask) /\ held = c.before
  BY DEF CallOk, Counted, Asked, Effect
<1>2. /\ CallShape(d) /\ SameRequest(c, d) /\ SameToken(c, d) /\ SameCounts(c, d)
      /\ d.pc = "done" /\ d.outcome = "success" /\ d.real = c.real
  BY <1>1, EndedIs
<1>3. Counted(d)
  BY <1>2 DEF CallOk, Counted, SameCounts, Unread
<1>4. Asked(p, d)
  BY <1>1, <1>2 DEF Asked, SameRequest, Loading
<1>5. TokenHeld(p, row, d)
  BY <1>2 DEF CallOk, TokenHeld, SameToken
<1>6. d.real => InForce(p, d.ask, d.before, held)
  BY <1>1, <1>2 DEF InForce, SameRequest, AskOps, Creations
<1>7. Effect(p, held, d)
  BY <1>1, <1>2, <1>6 DEF Effect, SameRequest
<1> QED
  BY <1>2, <1>3, <1>4, <1>5, <1>7 DEF CallOk

LEMMA IdleIs ==
  /\ CallShape(Idle) /\ Idle.ask = None /\ Idle.pc = "idle" /\ Idle.tries = 0 /\ Idle.sends = 0
  /\ Idle.outcome # "success" /\ Idle.real = FALSE /\ Idle.rotated = FALSE
<1>1. PICK e : e = ""
  OBVIOUS
<1>2. e # "success"
  BY <1>1, Zenon
<1>3. Idle = [ask |-> None, pc |-> "idle", token |-> e, tries |-> 0, sends |-> 0, page |-> 0,
              outcome |-> e, kind |-> e, unsure |-> FALSE, ignored |-> FALSE, real |-> FALSE,
              rotated |-> FALSE, before |-> None]
  BY <1>1, Zenon DEF Idle
<1> QED
  BY <1>2, <1>3 DEF CallShape, CallFields

LEMMA BeginKeeps ==
  ASSUME ProviderInv, NEW ask \in Asks, Begin(ask)
  PROVE  ProviderInv'
<1>1. PICK d : d = adCall'
  OBVIOUS
<1>2. /\ CallShape(d) /\ d.ask = ask /\ d.pc = (IF ask.op \in Creations THEN "mock" ELSE "load")
      /\ d.before = adRemote.settings /\ d.tries = 0 /\ d.sends = 0
      /\ d.outcome # "success" /\ d.real = FALSE /\ d.rotated = FALSE
  BY <1>1, IdleIs DEF Begin, CallShape, CallFields
<1>3. AskCarries(ask)
  BY AsksCarry
<1>4. Counted(d)
  BY <1>2 DEF Counted, Unread
<1>5. Asked(adPlatform, d)
  BY <1>2, <1>3 DEF Asked, Loading
<1>6. TokenHeld(adPlatform, adRow, d)
  BY <1>2 DEF TokenHeld
<1>7. Effect(adPlatform, adRemote.settings, d)
  BY <1>2 DEF Effect
<1> QED
  BY <1>1, <1>2, <1>4, <1>5, <1>6, <1>7 DEF Begin, ProviderInv, CallOk

LEMMA MockKeeps ==
  ASSUME ProviderInv, Mock
  PROVE  ProviderInv'
<1>1. adCall.pc = "mock" /\ adCall.real = FALSE /\ CallOk(adPlatform, adRow, adRemote.settings, adCall)
  BY DEF ProviderInv, Mock, CallOk, Effect
<1>2. PICK k, d : d = adCall' /\ d = Ended(adCall, "success", k)
  BY DEF Mock
<1>3. CallOk(adPlatform, adRow, adRemote.settings, d)
  BY <1>1, <1>2, EndsIdle, Zenon
<1> QED
  BY <1>2, <1>3 DEF Mock, ProviderInv

\* A call that goes on loading.
LEMMA LoadOn ==
  ASSUME NEW p, NEW row, NEW held, NEW c, CallOk(p, row, held, c), NEW d, CallShape(d), SameRequest(c, d),
         SameCounts(c, d), d.outcome = c.outcome, d.unsure = c.unsure, d.ignored = c.ignored,
         c.pc \in {"load", "check", "reload"}, d.pc \in {"check", "reload", "gate"}, d.real = TRUE \/ d.real = c.real
  PROVE  Counted(d) /\ Asked(p, d) /\ Effect(p, held, d)
<1>1. Counted(d)
  BY DEF CallOk, Counted, SameCounts, Unread
<1>2. Asked(p, d)
  BY DEF CallOk, Asked, SameRequest, Loading
<1>3. Effect(p, held, d)
  BY DEF CallOk, Effect, SameRequest, SameCounts
<1> QED
  BY <1>1, <1>2, <1>3

LEMMA LoadKeeps ==
  ASSUME ProviderInv, LoadOrMock
  PROVE  ProviderInv'
<1>1. adCall.pc = "load" /\ CallOk(adPlatform, adRow, adRemote.settings, adCall)
  BY DEF ProviderInv, LoadOrMock
<1>2. PICK c, d, e : c = adCall /\ d = adCall' /\ e = LoadError(adRow)
  OBVIOUS
<1>3. \/ d = Ended(c, "thrown", e)
      \/ adRow.status = "MOCK" /\ d = [c EXCEPT !.pc = "mock"]
      \/ \E q \in {"gate", "check"} : d = [c EXCEPT !.token = adRow.token, !.real = TRUE, !.pc = q]
  <2>1. CASE LoadError(adRow) # ""
    <3> DEFINE x == Ended(adCall, "thrown", LoadError(adRow))
               y == [adCall EXCEPT !.pc = "mock"]
               z == [adCall EXCEPT !.token = adRow.token, !.real = TRUE,
                       !.pc = IF SkipsRefresh(adPlatform, adCall.ask) THEN "gate" ELSE "check"]
    <3>1. adCall' = CASE LoadError(adRow) # "" -> x [] adRow.status = "MOCK" -> y [] OTHER -> z
      BY DEF LoadOrMock
    <3> HIDE DEF x, y, z
    <3>2. adRow.status # "MOCK"
      BY <2>1 DEF LoadError
    <3>3. adCall' = x
      BY <2>1, <3>1, <3>2
    <3> QED
      BY <1>2, <3>3, Zenon DEF x
  <2>2. CASE LoadError(adRow) = "" /\ adRow.status = "MOCK"
    <3>1. adCall' = [adCall EXCEPT !.pc = "mock"]
      BY <2>2, Zenon DEF LoadOrMock
    <3> QED
      BY <1>2, <2>2, <3>1, Zenon
  <2>3. CASE LoadError(adRow) = "" /\ adRow.status # "MOCK"
    <3>1. PICK q : q = IF SkipsRefresh(adPlatform, adCall.ask) THEN "gate" ELSE "check"
      OBVIOUS
    <3>2. q \in {"gate", "check"}
      BY <3>1, Zenon
    <3>3. d = [c EXCEPT !.token = adRow.token, !.real = TRUE, !.pc = q]
      BY <1>2, <2>3, <3>1, Zenon DEF LoadOrMock
    <3> QED
      BY <3>2, <3>3, Zenon
  <2> QED
    BY <2>1, <2>2, <2>3, Zenon
<1>4. CallOk(adPlatform, adRow, adRemote.settings, d)
  <2>1. CASE d = Ended(c, "thrown", e)
    BY <1>1, <1>2, <2>1, EndsWithout
  <2>2. CASE d = [c EXCEPT !.pc = "mock"]
    <3>1. /\ CallShape(d) /\ SameRequest(c, d) /\ SameToken(c, d) /\ SameCounts(c, d)
          /\ d.real = c.real /\ d.unsure = c.unsure /\ d.ignored = c.ignored /\ d.pc = "mock" /\ d.outcome = c.outcome
      BY <1>1, <1>2, <2>2, MovedIs DEF CallOk
    <3>2. Counted(d)
      BY <1>1, <1>2, <3>1 DEF CallOk, Counted, SameCounts, Unread
    <3>3. Asked(adPlatform, d)
      BY <1>1, <1>2, <3>1 DEF CallOk, Asked, SameRequest, Loading
    <3>4. TokenHeld(adPlatform, adRow, d)
      BY <1>1, <1>2, <3>1 DEF CallOk, TokenHeld, SameToken
    <3>5. Effect(adPlatform, adRemote.settings, d)
      BY <1>1, <1>2, <3>1 DEF CallOk, Effect, SameRequest, SameCounts
    <3> QED
      BY <3>1, <3>2, <3>3, <3>4, <3>5 DEF CallOk
  <2>3. ASSUME NEW q \in {"gate", "check"}, d = [c EXCEPT !.token = adRow.token, !.real = TRUE, !.pc = q]
        PROVE  CallOk(adPlatform, adRow, adRemote.settings, d)
    <3>1. /\ CallShape(d) /\ SameRequest(c, d) /\ SameCounts(c, d) /\ d.rotated = c.rotated
          /\ d.real = TRUE /\ d.unsure = c.unsure /\ d.ignored = c.ignored /\ d.pc = q /\ d.outcome = c.outcome
      BY <1>1, <1>2, <2>3 DEF CallOk, CallShape, CallFields, SameRequest, SameCounts
    <3>2. Counted(d) /\ Asked(adPlatform, d) /\ Effect(adPlatform, adRemote.settings, d)
      BY <1>1, <1>2, <3>1, LoadOn
    <3>3. TokenHeld(adPlatform, adRow, d)
      BY <1>1, <1>2, <3>1 DEF CallOk, TokenHeld
    <3> QED
      BY <3>1, <3>2, <3>3 DEF CallOk
  <2> QED
    BY <1>3, <2>1, <2>2, <2>3
<1> QED
  BY <1>2, <1>4 DEF LoadOrMock, ProviderInv


LEMMA RotationIs ==
  ASSUME RowOk(adRow), RemoteOk(adRemote), adRow' = Renewed(adRow), adRemote' \in Accepting(adRemote)
  PROVE  RowOk(adRow)' /\ adRow'.token = "new" /\ RemoteOk(adRemote)' /\ adRemote'.settings = adRemote.settings
<1>1. RowOk(adRow)' /\ adRow'.token = "new"
  BY DEF RowOk, Renewed
<1>2. PICK s \in SUBSET {"old", "new"} : adRemote' = [adRemote EXCEPT !.accepts = s]
  BY DEF RemoteOk, Accepting
<1>3. RemoteOk(adRemote)' /\ adRemote'.settings = adRemote.settings
  BY <1>2 DEF RemoteOk
<1> QED
  BY <1>1, <1>3

LEMMA CheckKeeps ==
  ASSUME ProviderInv, CheckToken
  PROVE  ProviderInv'
<1>1. /\ adCall.pc = "check" /\ CallOk(adPlatform, adRow, adRemote.settings, adCall)
      /\ RowOk(adRow) /\ RemoteOk(adRemote) /\ UNCHANGED adPlatform
  BY DEF ProviderInv, CheckToken
<1>2. PICK c, d : c = adCall /\ d = adCall'
  OBVIOUS
<1>3. CASE /\ adRow' = Renewed(adRow) /\ adRemote' \in Accepting(adRemote)
           /\ d = [c EXCEPT !.rotated = TRUE, !.pc = "reload"]
  <2>1. RowOk(adRow)' /\ adRow'.token = "new" /\ RemoteOk(adRemote)' /\ adRemote'.settings = adRemote.settings
    BY <1>1, <1>3, RotationIs
  <2>2. /\ CallShape(d) /\ SameRequest(c, d) /\ SameCounts(c, d) /\ d.rotated = TRUE
        /\ d.real = c.real /\ d.unsure = c.unsure /\ d.ignored = c.ignored /\ d.pc = "reload" /\ d.outcome = c.outcome
    BY <1>1, <1>2, <1>3 DEF CallOk, CallShape, CallFields, SameRequest, SameCounts
  <2>3. Counted(d) /\ Asked(adPlatform, d) /\ Effect(adPlatform, adRemote.settings, d)
    BY <1>1, <1>2, <2>2, LoadOn
  <2>4. TokenHeld(adPlatform, adRow', d)
    BY <2>1, <2>2 DEF TokenHeld
  <2>5. CallOk(adPlatform, adRow', adRemote'.settings, d)
    BY <2>1, <2>2, <2>3, <2>4 DEF CallOk
  <2> QED
    BY <1>1, <1>2, <2>1, <2>5 DEF ProviderInv
<1>4. CASE d = [c EXCEPT !.pc = "reload"] /\ UNCHANGED <<adRow, adRemote>>
  <2>1. /\ CallShape(d) /\ SameRequest(c, d) /\ SameToken(c, d) /\ SameCounts(c, d)
        /\ d.real = c.real /\ d.unsure = c.unsure /\ d.ignored = c.ignored /\ d.pc = "reload" /\ d.outcome = c.outcome
    BY <1>1, <1>2, <1>4, MovedIs DEF CallOk
  <2>2. Counted(d) /\ Asked(adPlatform, d) /\ Effect(adPlatform, adRemote.settings, d)
    BY <1>1, <1>2, <2>1, LoadOn
  <2>3. TokenHeld(adPlatform, adRow, d)
    BY <1>1, <1>2, <2>1 DEF CallOk, TokenHeld, SameToken
  <2>4. CallOk(adPlatform, adRow, adRemote.settings, d)
    BY <2>1, <2>2, <2>3 DEF CallOk
  <2> QED
    BY <1>1, <1>2, <1>4, <2>4 DEF ProviderInv
<1> QED
  BY <1>2, <1>3, <1>4 DEF CheckToken

LEMMA ReloadKeeps ==
  ASSUME ProviderInv, Reload
  PROVE  ProviderInv'
<1>1. /\ adCall.pc = "reload" /\ CallOk(adPlatform, adRow, adRemote.settings, adCall)
      /\ UNCHANGED <<adPlatform, adRow, adRemote>>
  BY DEF ProviderInv, Reload
<1>2. PICK c, d, e : c = adCall /\ d = adCall' /\ e = LoadError(adRow)
  OBVIOUS
<1>3. \/ d = Ended(c, "thrown", e)
      \/ adPlatform # "GOOGLE_ADS" /\ d = [c EXCEPT !.pc = "gate"]
      \/ d = [c EXCEPT !.pc = "gate", !.token = adRow.token]
  BY <1>2, Zenon DEF Reload
<1>4. CallOk(adPlatform, adRow, adRemote.settings, d)
  <2>1. CASE d = Ended(c, "thrown", e)
    BY <1>1, <1>2, <2>1, EndsWithout
  <2>2. CASE adPlatform # "GOOGLE_ADS" /\ d = [c EXCEPT !.pc = "gate"]
    <3>1. /\ CallShape(d) /\ SameRequest(c, d) /\ SameToken(c, d) /\ SameCounts(c, d)
          /\ d.real = c.real /\ d.unsure = c.unsure /\ d.ignored = c.ignored /\ d.pc = "gate" /\ d.outcome = c.outcome
      BY <1>1, <1>2, <2>2, MovedIs DEF CallOk
    <3>2. Counted(d) /\ Asked(adPlatform, d) /\ Effect(adPlatform, adRemote.settings, d)
      BY <1>1, <1>2, <3>1, LoadOn
    <3>3. TokenHeld(adPlatform, adRow, d)
      BY <1>1, <1>2, <2>2, <3>1 DEF CallOk, TokenHeld, SameToken
    <3> QED
      BY <3>1, <3>2, <3>3 DEF CallOk
  <2>3. CASE d = [c EXCEPT !.pc = "gate", !.token = adRow.token]
    <3>1. /\ CallShape(d) /\ SameRequest(c, d) /\ SameCounts(c, d) /\ d.rotated = c.rotated /\ d.token = adRow.token
          /\ d.real = c.real /\ d.unsure = c.unsure /\ d.ignored = c.ignored /\ d.pc = "gate" /\ d.outcome = c.outcome
      BY <1>1, <1>2, <2>3 DEF CallOk, CallShape, CallFields, SameRequest, SameCounts
    <3>2. Counted(d) /\ Asked(adPlatform, d) /\ Effect(adPlatform, adRemote.settings, d)
      BY <1>1, <1>2, <3>1, LoadOn
    <3>3. TokenHeld(adPlatform, adRow, d)
      BY <1>1, <1>2, <3>1 DEF CallOk, TokenHeld
    <3> QED
      BY <3>1, <3>2, <3>3 DEF CallOk
  <2> QED
    BY <1>3, <2>1, <2>2, <2>3
<1> QED
  BY <1>1, <1>2, <1>4 DEF ProviderInv

LEMMA GateKeeps ==
  ASSUME ProviderInv, Gate
  PROVE  ProviderInv'
<1>1. /\ adCall.pc = "gate" /\ CallOk(adPlatform, adRow, adRemote.settings, adCall)
      /\ UNCHANGED <<adPlatform, adRow, adRemote>>
  BY DEF ProviderInv, Gate
<1>2. PICK c, d, ask : c = adCall /\ d = adCall' /\ ask = c.ask
  OBVIOUS
<1>3. AskCarries(ask) /\ ask.op \notin Creations
  BY <1>1, <1>2 DEF CallOk, Asked, Loading
<1>4. \/ \E k : d = Ended(c, "failed", k)
      \/ ask.op = "updateBidLimits" /\ ask.floor = None /\ ask.ceiling = None /\ \E k : d = Ended(c, "success", k)
      \/ ask.op = "refreshAccessToken" /\ d = [c EXCEPT !.pc = "refresh"]
      \/ ask.op \in {"fetch", "validateCredentials"} /\ d = [c EXCEPT !.pc = "read"]
      \/ /\ ask.op \in Updates
         /\ ask.op = "updateBidLimits" => ask.floor = None /\ ask.ceiling # None
         /\ ask.op = "updateBudget" /\ adPlatform = "GOOGLE_ADS" => ask.entity # "AD_SET"
         /\ \E q \in {"read", "send"} : d = [c EXCEPT !.pc = q]
  <2>1. CASE ask.op = "updateBidLimits" /\ ask.floor # None
    <3>1. d = Ended(c, "failed", "UNSUPPORTED")
      BY <1>2, <2>1, Zenon DEF Gate
    <3> QED
      BY <3>1
  <2>2. CASE ask.op = "updateBidLimits" /\ ask.floor = None /\ ask.ceiling = None
    <3>1. \E k : d = Ended(c, "success", k)
      BY <1>2, <2>2, Zenon DEF Gate
    <3> QED
      BY <2>2, <3>1
  <2>3. CASE ask.op = "updateBudget" /\ adPlatform = "GOOGLE_ADS" /\ ask.entity = "AD_SET"
    <3>1. d = Ended(c, "failed", "VALIDATION")
      BY <1>2, <2>3, Zenon DEF Gate
    <3> QED
      BY <3>1
  <2>4. CASE ask.op = "refreshAccessToken"
    <3>1. d = [c EXCEPT !.pc = "refresh"]
      BY <1>2, <2>4, Zenon DEF Gate
    <3> QED
      BY <2>4, <3>1
  <2>5. CASE ask.op \in {"fetch", "validateCredentials"}
    <3>1. d = [c EXCEPT !.pc = "read"]
      BY <1>2, <2>5, Zenon DEF Gate
    <3> QED
      BY <2>5, <3>1
  <2>6. CASE /\ ask.op \in Updates
             /\ ask.op = "updateBidLimits" => ask.floor = None /\ ask.ceiling # None
             /\ ask.op = "updateBudget" /\ adPlatform = "GOOGLE_ADS" => ask.entity # "AD_SET"
    <3>1. ask.op \notin {"refreshAccessToken", "fetch", "validateCredentials"}
      BY <2>6 DEF Updates
    <3>2. PICK q : q = (IF Resolves(adPlatform, ask) THEN "read" ELSE "send") /\ q \in {"read", "send"}
      OBVIOUS
    <3>3. d = [c EXCEPT !.pc = q]
      BY <1>2, <2>6, <3>1, <3>2, Zenon DEF Gate
    <3> QED
      BY <2>6, <3>2, <3>3
  <2> QED
    BY <1>3, <2>1, <2>2, <2>3, <2>4, <2>5, <2>6 DEF AskCarries, AskOps, Updates
<1>5. CallOk(adPlatform, adRow, adRemote.settings, d)
  <2>1. ASSUME NEW k, d = Ended(c, "failed", k) PROVE CallOk(adPlatform, adRow, adRemote.settings, d)
    BY <1>1, <1>2, <2>1, EndsWithout
  <2>2. ASSUME ask.op = "updateBidLimits" /\ ask.floor = None /\ ask.ceiling = None, NEW k, d = Ended(c, "success", k)
        PROVE  CallOk(adPlatform, adRow, adRemote.settings, d)
    BY <1>1, <1>2, <2>2, EndsIdle
  <2>3. ASSUME NEW q \in {"refresh", "read", "send"}, d = [c EXCEPT !.pc = q], 
               q = "refresh" => ask.op = "refreshAccessToken",
               q = "read" => ask.op \in {"fetch", "validateCredentials"} \cup Updates,
               q = "send" => ask.op \in Updates,
               q \in {"read", "send"} => /\ ask.op = "updateBidLimits" => ask.floor = None /\ ask.ceiling # None
                                         /\ ask.op = "updateBudget" /\ adPlatform = "GOOGLE_ADS" => ask.entity # "AD_SET"
        PROVE  CallOk(adPlatform, adRow, adRemote.settings, d)
    <3>1. /\ CallShape(d) /\ SameRequest(c, d) /\ SameToken(c, d) /\ SameCounts(c, d)
          /\ d.real = c.real /\ d.unsure = c.unsure /\ d.ignored = c.ignored /\ d.pc = q /\ d.outcome = c.outcome
      BY <1>1, <1>2, <2>3, MovedIs DEF CallOk
    <3>2. Counted(d)
      BY <1>1, <1>2, <3>1 DEF CallOk, Counted, SameCounts, Unread
    <3>3. Asked(adPlatform, d)
      BY <1>2, <1>3, <2>3, <3>1 DEF Asked, SameRequest
    <3>4. TokenHeld(adPlatform, adRow, d)
      BY <1>1, <1>2, <3>1 DEF CallOk, TokenHeld, SameToken
    <3>5. Effect(adPlatform, adRemote.settings, d)
      BY <1>1, <1>2, <3>1 DEF CallOk, Effect, SameRequest, SameCounts
    <3> QED
      BY <3>1, <3>2, <3>3, <3>4, <3>5 DEF CallOk
  <2>4. CASE ask.op = "refreshAccessToken" /\ d = [c EXCEPT !.pc = "refresh"]
    BY <2>3, <2>4
  <2>5. CASE ask.op \in {"fetch", "validateCredentials"} /\ d = [c EXCEPT !.pc = "read"]
    BY <2>3, <2>5
  <2>6. CASE /\ ask.op \in Updates
             /\ ask.op = "updateBidLimits" => ask.floor = None /\ ask.ceiling # None
             /\ ask.op = "updateBudget" /\ adPlatform = "GOOGLE_ADS" => ask.entity # "AD_SET"
             /\ \E q \in {"read", "send"} : d = [c EXCEPT !.pc = q]
    BY <2>3, <2>6
  <2> QED
    BY <1>4, <2>1, <2>2, <2>4, <2>5, <2>6
<1> QED
  BY <1>1, <1>2, <1>5 DEF ProviderInv

LEMMA ForceRefreshKeeps ==
  ASSUME ProviderInv, ForceRefresh
  PROVE  ProviderInv'
<1>1. /\ adCall.pc = "refresh" /\ CallOk(adPlatform, adRow, adRemote.settings, adCall)
      /\ RowOk(adRow) /\ RemoteOk(adRemote) /\ UNCHANGED adPlatform
  BY DEF ProviderInv, ForceRefresh
<1>2. PICK c, d, k : c = adCall /\ d = adCall' /\ d = Ended(c, "success", k)
  BY DEF ForceRefresh
<1>3. c.ask.op \in AskOps
  BY <1>1, <1>2 DEF CallOk, Asked, AskOps
<1>4. CallOk(adPlatform, adRow, adRemote.settings, d)
  BY <1>1, <1>2, <1>3, EndsIdle
<1>5. CASE adRow' = Renewed(adRow) /\ adRemote' \in Accepting(adRemote)
  <2>1. RowOk(adRow)' /\ adRow'.token = "new" /\ RemoteOk(adRemote)' /\ adRemote'.settings = adRemote.settings
    BY <1>1, <1>5, RotationIs
  <2>2. d.pc = "done"
    BY <1>1, <1>2, EndedIs DEF CallOk
  <2>3. TokenHeld(adPlatform, adRow', d)
    BY <2>1, <2>2 DEF TokenHeld
  <2>4. CallOk(adPlatform, adRow', adRemote'.settings, d)
    BY <1>4, <2>1, <2>3 DEF CallOk
  <2> QED
    BY <1>1, <1>2, <2>1, <2>4 DEF ProviderInv
<1>6. CASE UNCHANGED <<adRow, adRemote>>
  BY <1>1, <1>2, <1>4, <1>6 DEF ProviderInv
<1> QED
  BY <1>5, <1>6 DEF ForceRefresh


LEMMA AnswerReadKeeps ==
  ASSUME ProviderInv, Read
  PROVE  ProviderInv'
<1>1. /\ adCall.pc = "read" /\ CallOk(adPlatform, adRow, adRemote.settings, adCall)
      /\ UNCHANGED <<adPlatform, adRow, adRemote>>
  BY DEF ProviderInv, Read
<1>2. PICK c, d, ask, last : c = adCall /\ d = adCall' /\ ask = c.ask /\ last = LastPage(c)
  OBVIOUS
<1>3. /\ AskCarries(ask) /\ ask.op \in {"fetch", "validateCredentials"} \cup Updates
      /\ ask.op = "updateBidLimits" => ask.floor = None /\ ask.ceiling # None
      /\ ask.op = "updateBudget" /\ adPlatform = "GOOGLE_ADS" => ask.entity # "AD_SET"
      /\ CallShape(c) /\ c.tries \in 0..3 /\ c.sends = 0
  BY <1>1, <1>2 DEF CallOk, Asked, Counted
<1>4. PICK tried : tried = [c EXCEPT !.tries = c.tries + 1]
  OBVIOUS
<1>5. /\ CallShape(tried) /\ SameRequest(c, tried) /\ SameToken(c, tried) /\ tried.sends = 0 /\ tried.tries = c.tries + 1
      /\ tried.real = c.real /\ tried.unsure = c.unsure /\ tried.ignored = c.ignored /\ tried.pc = "read"
      /\ tried.outcome = c.outcome
  BY <1>1, <1>2, <1>3, <1>4 DEF CallShape, CallFields, SameRequest, SameToken
\* The ways a read goes on.
<1>6. \/ d = [tried EXCEPT !.page = c.page + 1, !.tries = 0]
      \/ /\ ask.op \in {"fetch", "validateCredentials"}
         /\ \E k : d = Ended([tried EXCEPT !.page = c.page + 1], "success", k)
      \/ ask.op \notin {"fetch", "validateCredentials"} /\ d = [tried EXCEPT !.pc = "send"]
      \/ tried.tries < 4 /\ d = tried
      \/ \E o, k : o # "success" /\ d = Ended(tried, o, k)
  <2>1. PICK a, found, kind :
                       /\ kind = KindOf(adPlatform, a)
                       /\ d = CASE IsOk(adPlatform, a) ->
                                    IF ~last THEN [tried EXCEPT !.page = c.page + 1, !.tries = 0]
                                    ELSE IF ask.op \in {"fetch", "validateCredentials"}
                                           THEN Ended([tried EXCEPT !.page = c.page + 1], "success", "")
                                    ELSE IF found THEN [tried EXCEPT !.pc = "send"]
                                    ELSE FailedRead(tried, "NOT_FOUND")
                               [] ~IsOk(adPlatform, a) /\ IsRetryable(kind) /\ tried.tries < MaxAttempts -> tried
                               [] OTHER -> FailedRead(tried, kind)
    <3>1. tried.page = c.page
      BY <1>3, <1>4 DEF CallShape, CallFields
    <3> QED
      BY <1>2, <1>4, <3>1, Zenon DEF Read
  <2>2. CASE IsOk(adPlatform, a)
    <3>1. d = IF ~last THEN [tried EXCEPT !.page = c.page + 1, !.tries = 0]
              ELSE IF ask.op \in {"fetch", "validateCredentials"}
                     THEN Ended([tried EXCEPT !.page = c.page + 1], "success", "")
              ELSE IF found THEN [tried EXCEPT !.pc = "send"]
              ELSE FailedRead(tried, "NOT_FOUND")
      BY <2>1, <2>2, Zenon
    <3>2. FailedRead(tried, "NOT_FOUND") = Ended(tried, "failed", "NOT_FOUND") \/ ask.op \in {"fetch", "validateCredentials"}
      BY <1>2, <1>5 DEF FailedRead, SameRequest
    <3>3. "failed" # "success"
      OBVIOUS
    <3> QED
      BY <3>1, <3>2, <3>3, Zenon
  <2>3. CASE ~IsOk(adPlatform, a) /\ IsRetryable(kind) /\ tried.tries < MaxAttempts
    <3>1. d = tried
      BY <2>1, <2>3, Zenon
    <3> QED
      BY <2>3, <3>1 DEF MaxAttempts
  <2>4. CASE ~IsOk(adPlatform, a) /\ ~(IsRetryable(kind) /\ tried.tries < MaxAttempts)
    <3>1. d = FailedRead(tried, kind)
      BY <2>1, <2>4, Zenon
    <3>2. PICK o : d = Ended(tried, o, kind) /\ o \in {"invalid", "thrown", "failed"}
      BY <3>1 DEF FailedRead
    <3> QED
      BY <3>2
  <2> QED
    BY <2>2, <2>3, <2>4
<1>7. CallOk(adPlatform, adRow, adRemote.settings, d)
  <2>1. ASSUME NEW t, CallShape(t), SameRequest(c, t), SameToken(c, t), t.sends = 0, t.real = c.real,
               t.outcome = c.outcome, t.ignored = c.ignored, t.tries \in 0..4,
               \/ t.pc = "read" /\ t.tries < 4
               \/ t.pc = "send" /\ ask.op \in Updates
        PROVE  CallOk(adPlatform, adRow, adRemote.settings, t)
    <3>1. Counted(t)
      BY <2>1 DEF Counted, Unread
    <3>2. Asked(adPlatform, t)
      BY <1>2, <1>3, <2>1 DEF Asked, SameRequest, Loading, Creations, Updates
    <3>3. TokenHeld(adPlatform, adRow, t)
      BY <1>1, <1>2, <2>1 DEF CallOk, TokenHeld, SameToken
    <3>4. Effect(adPlatform, adRemote.settings, t)
      BY <1>1, <1>2, <1>3, <2>1 DEF CallOk, Effect, SameRequest
    <3> QED
      BY <2>1, <3>1, <3>2, <3>3, <3>4 DEF CallOk
  \* The last try may end the call: the same facts, but for the count.
  <2>2. ASSUME NEW t, CallShape(t), SameRequest(c, t), SameToken(c, t), t.sends = 0, t.real = c.real,
               t.tries \in 0..4, NEW o, NEW k, d = Ended(t, o, k),
               o = "success" => ask.op \in AskOps
        PROVE  CallOk(adPlatform, adRow, adRemote.settings, d)
    <3>1. /\ CallShape(d) /\ SameRequest(t, d) /\ SameToken(t, d) /\ SameCounts(t, d)
          /\ d.pc = "done" /\ d.outcome = o
      BY <2>2, EndedIs
    <3>2. Counted(d)
      BY <2>2, <3>1 DEF Counted, SameCounts, Unread
    <3>3. Asked(adPlatform, d)
      BY <1>2, <1>3, <2>2, <3>1 DEF Asked, SameRequest, Loading
    <3>4. TokenHeld(adPlatform, adRow, d)
      BY <1>1, <1>2, <2>2, <3>1 DEF CallOk, TokenHeld, SameToken
    <3>5. adRemote.settings = d.before /\ d.ask = ask
      BY <1>1, <1>2, <1>3, <2>2, <3>1 DEF CallOk, Effect, SameRequest
    <3>6. o = "success" => InForce(adPlatform, d.ask, d.before, adRemote.settings)
      BY <2>2, <3>5 DEF InForce, AskOps, Creations
    <3>7. Effect(adPlatform, adRemote.settings, d)
      BY <3>1, <3>5, <3>6 DEF Effect
    <3> QED
      BY <3>1, <3>2, <3>3, <3>4, <3>7 DEF CallOk
  <2>3. CASE d = [tried EXCEPT !.page = c.page + 1, !.tries = 0]
    <3>1. /\ CallShape(d) /\ SameRequest(c, d) /\ SameToken(c, d) /\ d.sends = 0 /\ d.real = c.real
          /\ d.outcome = c.outcome /\ d.ignored = c.ignored /\ d.tries = 0 /\ d.pc = "read"
      BY <1>5, <2>3 DEF CallShape, CallFields, SameRequest, SameToken
    <3> QED
      BY <2>1, <3>1
  <2>4. ASSUME ask.op \in {"fetch", "validateCredentials"}, NEW k, d = Ended([tried EXCEPT !.page = c.page + 1], "success", k)
        PROVE  CallOk(adPlatform, adRow, adRemote.settings, d)
    <3>1. PICK t : t = [tried EXCEPT !.page = c.page + 1]
      OBVIOUS
    <3>2. /\ CallShape(t) /\ SameRequest(c, t) /\ SameToken(c, t) /\ t.sends = 0 /\ t.real = c.real /\ t.tries \in 0..4
      BY <1>3, <1>5, <3>1 DEF CallShape, CallFields, SameRequest, SameToken
    <3>3. ask.op \in AskOps /\ d = Ended(t, "success", k)
      BY <2>4, <3>1 DEF AskOps
    <3> QED
      BY <2>2, <3>2, <3>3
  <2>5. CASE ask.op \notin {"fetch", "validateCredentials"} /\ d = [tried EXCEPT !.pc = "send"]
    <3>1. /\ CallShape(d) /\ SameRequest(c, d) /\ SameToken(c, d) /\ d.sends = 0 /\ d.real = c.real
          /\ d.outcome = c.outcome /\ d.ignored = c.ignored /\ d.tries \in 0..4 /\ d.pc = "send"
      BY <1>3, <1>5, <2>5 DEF CallShape, CallFields, SameRequest, SameToken
    <3> QED
      BY <1>3, <2>1, <2>5, <3>1
  <2>6. CASE tried.tries < 4 /\ d = tried
    BY <1>3, <1>5, <2>1, <2>6
  <2>7. ASSUME NEW o, NEW k, o # "success", d = Ended(tried, o, k)
        PROVE  CallOk(adPlatform, adRow, adRemote.settings, d)
    BY <1>3, <1>5, <2>2, <2>7
  <2> QED
    BY <1>6, <2>3, <2>4, <2>5, <2>6, <2>7
<1> QED
  BY <1>1, <1>2, <1>7 DEF ProviderInv


\* A request that the configuration refuses was not sent.
LEMMA RefusalKeeps ==
  ASSUME ProviderInv, ConfigRefuses
  PROVE  ProviderInv'
<1>1. PICK c, d : c = adCall /\ d = adCall'
  OBVIOUS
<1>2. PICK kind : d = FailedRead(c, kind)
  BY <1>1 DEF ConfigRefuses
<1>3. PICK o : d = Ended(c, o, kind) /\ o \in {"invalid", "thrown", "failed"}
  BY <1>2 DEF FailedRead
<1>4. CallOk(adPlatform, adRow, adRemote.settings, c) /\ c.pc \notin {"idle", "done"} /\ o # "success"
  BY <1>1, <1>3 DEF ProviderInv, ConfigRefuses
<1>5. CallOk(adPlatform, adRow, adRemote.settings, d)
  BY <1>3, <1>4, EndsWithout
<1> QED
  BY <1>1, <1>5 DEF ConfigRefuses, ProviderInv

\* What Written gives for the requests that are sent.
LEMMA WrittenInForce ==
  ASSUME NEW p \in Platforms, NEW ask, AskCarries(ask), NEW held \in HeldSettings, ask.op \in Updates,
         ask.op = "updateBidLimits" => ask.floor = None /\ ask.ceiling # None,
         ask.op = "updateBudget" /\ p = "GOOGLE_ADS" => ask.entity # "AD_SET"
  PROVE  Written(p, ask, held) \in HeldSettings /\ InForce(p, ask, held, Written(p, ask, held))
<1>1. PICK now : now = Written(p, ask, held)
  OBVIOUS
<1>2. ask.op \notin AskOps
  BY DEF AskOps, Updates, Creations
<1>3. CASE ask.op = "updateBudget"
  <2>1. now \in HeldSettings /\ BudgetInForce(p, ask, held, now)
    BY <1>1, <1>3, BudgetsReadBack
  <2> QED
    BY <1>1, <1>2, <1>3, <2>1 DEF InForce
<1>4. CASE ask.op = "updateBiddingStrategy"
  <2>1. now \in HeldSettings /\ StrategyInForce(p, ask, held, now)
    BY <1>1, <1>4, StrategiesInForce
  <2> QED
    BY <1>1, <1>2, <1>4, <2>1 DEF InForce
<1>5. CASE ask.op = "updateBidLimits"
  <2>1. now \in HeldSettings /\ LimitsInForce(p, ask, held, now)
    BY <1>1, <1>5, LimitsReadBack
  <2> QED
    BY <1>1, <1>2, <1>5, <2>1 DEF InForce
<1> QED
  BY <1>3, <1>4, <1>5 DEF Updates

LEMMA SendKeeps ==
  ASSUME ProviderInv, Send
  PROVE  ProviderInv'
<1>1. /\ adCall.pc = "send" /\ CallOk(adPlatform, adRow, adRemote.settings, adCall)
      /\ adPlatform \in Platforms /\ RowOk(adRow) /\ RemoteOk(adRemote) /\ UNCHANGED <<adPlatform, adRow>>
  BY DEF ProviderInv, Send
<1>2. PICK c, d, held, ask : c = adCall /\ d = adCall' /\ held = adRemote.settings /\ ask = c.ask
  OBVIOUS
<1>3. /\ AskCarries(ask) /\ ask.op \in Updates /\ CallShape(c) /\ c.sends = 0 /\ c.tries \in 0..4 /\ held = c.before
      /\ ask.op = "updateBidLimits" => ask.floor = None /\ ask.ceiling # None
      /\ ask.op = "updateBudget" /\ adPlatform = "GOOGLE_ADS" => ask.entity # "AD_SET"
      /\ held \in HeldSettings
  BY <1>1, <1>2 DEF CallOk, Asked, Counted, Effect, RemoteOk
<1>4. PICK new : new = Written(adPlatform, ask, held) /\ new \in HeldSettings /\ InForce(adPlatform, ask, held, new)
  BY <1>1, <1>3, WrittenInForce
<1>5. PICK done, unsure, ignored, o, k :
        /\ o # "success" /\ ~unsure => ~done
        /\ o = "success" /\ ~ignored => done
        /\ adRemote' = IF done THEN [adRemote EXCEPT !.settings = new] ELSE adRemote
        /\ d = [Ended(c, o, k) EXCEPT !.sends = 1, !.unsure = unsure, !.ignored = ignored]
  <2>1. PICK a, done :
          /\ done => IsOk(adPlatform, a) \/ a \in Unclear(adPlatform)
          /\ adRemote' = IF done THEN [adRemote EXCEPT !.settings = Written(adPlatform, c.ask, held)] ELSE adRemote
          /\ d = [Ended(c, IF IsOk(adPlatform, a) THEN "success" ELSE "failed",
                        IF IsOk(adPlatform, a) THEN "" ELSE KindOf(adPlatform, a))
                  EXCEPT !.sends = Ended(c, IF IsOk(adPlatform, a) THEN "success" ELSE "failed",
                                         IF IsOk(adPlatform, a) THEN "" ELSE KindOf(adPlatform, a)).sends + 1,
                         !.unsure = a \in Unclear(adPlatform), !.ignored = IsOk(adPlatform, a) /\ ~done]
    BY <1>2, Zenon DEF Send
  <2>2. PICK ok, unsure, ignored : /\ ok = IsOk(adPlatform, a) /\ unsure = (a \in Unclear(adPlatform))
                                   /\ ignored = (ok /\ ~done)
    OBVIOUS
  <2>3. PICK o, k : /\ o = (IF ok THEN "success" ELSE "failed")
                    /\ k = IF IsOk(adPlatform, a) THEN "" ELSE KindOf(adPlatform, a)
    OBVIOUS
  <2>4. adRemote' = IF done THEN [adRemote EXCEPT !.settings = new] ELSE adRemote
    BY <1>2, <1>4, <2>1
  <2>5. o # "success" /\ ~unsure => ~done
    BY <2>1, <2>2, <2>3, Zenon
  <2>6. o = "success" /\ ~ignored => done
    BY <2>2, <2>3, Zenon
  <2>7. d = [Ended(c, o, k) EXCEPT !.sends = Ended(c, o, k).sends + 1, !.unsure = unsure, !.ignored = ignored]
    BY <2>1, <2>2, <2>3, Zenon
  <2>8. Ended(c, o, k).sends + 1 = 1
    <3>1. PICK e : e = Ended(c, o, k)
      OBVIOUS
    <3>2. e.sends = 0
      BY <1>3, <3>1, EndedIs DEF SameCounts
    <3> QED
      BY <3>1, <3>2
  <2>9. d = [Ended(c, o, k) EXCEPT !.sends = 1, !.unsure = unsure, !.ignored = ignored]
    BY <2>7, <2>8
  <2> QED
    BY <2>4, <2>9, <2>5, <2>6
<1>6. RemoteOk(adRemote)' /\ adRemote'.settings = IF done THEN new ELSE held
  BY <1>1, <1>2, <1>4, <1>5 DEF RemoteOk
<1>7. /\ CallShape(d) /\ SameRequest(c, d) /\ SameToken(c, d) /\ d.tries = c.tries /\ d.sends = 1
      /\ d.pc = "done" /\ d.outcome = o /\ d.unsure = unsure /\ d.ignored = ignored
  <2>1. PICK e : e = Ended(c, o, k)
    OBVIOUS
  <2>2. /\ CallShape(e) /\ SameRequest(c, e) /\ SameToken(c, e) /\ SameCounts(c, e) /\ e.pc = "done" /\ e.outcome = o
    BY <1>3, <2>1, EndedIs
  <2> QED
    BY <1>5, <2>1, <2>2 DEF CallShape, CallFields, SameRequest, SameToken, SameCounts
<1>8. Counted(d)
  BY <1>3, <1>7 DEF Counted, Unread
<1>9. Asked(adPlatform, d)
  BY <1>2, <1>3, <1>7 DEF Asked, SameRequest, Loading
<1>10. TokenHeld(adPlatform, adRow, d)
  BY <1>1, <1>2, <1>7 DEF CallOk, TokenHeld, SameToken
<1>11. Effect(adPlatform, adRemote'.settings, d)
  <2>1. d.outcome # "success" /\ ~d.unsure => ~done
    BY <1>5, <1>7
  <2>2. d.outcome = "success" /\ ~d.ignored => done
    BY <1>5, <1>7
  <2>3. d.before = held /\ d.ask = ask
    BY <1>2, <1>3, <1>7 DEF SameRequest
  <2> QED
    BY <1>4, <1>6, <1>7, <2>1, <2>2, <2>3 DEF Effect
<1>12. CallOk(adPlatform, adRow, adRemote'.settings, d)
  BY <1>7, <1>8, <1>9, <1>10, <1>11 DEF CallOk
<1> QED
  BY <1>1, <1>2, <1>6, <1>12 DEF ProviderInv

LEMMA DisconnectKeeps ==
  ASSUME ProviderInv, Disconnect
  PROVE  ProviderInv'
<1>1. RowOk(adRow)' /\ adRow'.token = adRow.token
  BY DEF ProviderInv, Disconnect, RowOk
<1>2. TokenHeld(adPlatform, adRow', adCall)
  BY <1>1 DEF ProviderInv, CallOk, TokenHeld
<1> QED
  BY <1>1, <1>2 DEF ProviderInv, Disconnect, CallOk

LEMMA ProviderInitInv == ProviderInit => ProviderInv
<1> SUFFICES ASSUME ProviderInit PROVE ProviderInv
  OBVIOUS
<1>1. RowOk(adRow)
  BY DEF ProviderInit, RowOk
<1>2. "" \in StrategyWords
  BY Zenon DEF StrategyWords
<1>3. PICK word \in StrategyWords :
        adRemote.settings = [budget |-> [e \in Levels |-> 1], strategy |-> word, bid |-> 1, target |-> 1, ceiling |-> 1]
  <2>1. PICK word : word = ""
    OBVIOUS
  <2>2. adRemote.settings \in {[budget |-> [e \in Levels |-> 1], strategy |-> word, bid |-> 1, target |-> 1, ceiling |-> 1]}
    BY <2>1, Zenon DEF ProviderInit, Levels
  <2> QED
    BY <1>2, <2>1, <2>2
<1>4. RemoteOk(adRemote)
  <2>1. PICK held : held = adRemote.settings
    OBVIOUS
  <2>2. held \in HeldSettings
    BY <1>3, <2>1 DEF HeldSettings
  <2>3. adRemote \in [settings : {held}, accepts : SUBSET {"old", "new"}, pages : Nat]
    <3>1. PICK init : /\ adRemote \in [settings : {init}, accepts : IF adRow.due THEN {{}, {"old"}} ELSE {{"old"}},
                                      pages : PagesHeld]
      BY Zenon DEF ProviderInit
    <3>2. (IF adRow.due THEN {{}, {"old"}} ELSE {{"old"}}) \subseteq SUBSET {"old", "new"}
      OBVIOUS
    <3>3. PICK tokens : tokens = IF adRow.due THEN {{}, {"old"}} ELSE {{"old"}}
      OBVIOUS
    <3>4. adRemote \in [settings : {init}, accepts : tokens, pages : PagesHeld] /\ tokens \subseteq SUBSET {"old", "new"}
      BY <3>1, <3>2, <3>3
    <3> QED
      BY <2>1, <3>4, ProvidersAssumption
  <2> QED
    BY <2>2, <2>3 DEF RemoteOk
<1>5. CallOk(adPlatform, adRow, adRemote.settings, Idle)
  BY IdleIs DEF CallOk, Counted, Asked, TokenHeld, Effect, Unread, Loading
<1> QED
  BY <1>1, <1>4, <1>5, Zenon DEF ProviderInit, ProviderInv

LEMMA ProviderStepInv == ProviderInv /\ [ProviderNext]_providerVars => ProviderInv'
<1> SUFFICES ASSUME ProviderInv, [ProviderNext]_providerVars PROVE ProviderInv'
  OBVIOUS
<1>1. ASSUME NEW ask \in Asks, Begin(ask) PROVE ProviderInv'
  BY <1>1, BeginKeeps
<1>2. CASE Mock
  BY <1>2, MockKeeps
<1>3. CASE LoadOrMock
  BY <1>3, LoadKeeps
<1>4. CASE CheckToken
  BY <1>4, CheckKeeps
<1>5. CASE Reload
  BY <1>5, ReloadKeeps
<1>6. CASE Gate
  BY <1>6, GateKeeps
<1>7. CASE ForceRefresh
  BY <1>7, ForceRefreshKeeps
<1>8. CASE Read \/ ConfigRefuses
  BY <1>8, AnswerReadKeeps, RefusalKeeps
<1>9. CASE Send
  BY <1>9, SendKeeps
<1>10. CASE Disconnect
  BY <1>10, DisconnectKeeps
<1>11. CASE UNCHANGED providerVars
  BY <1>11 DEF providerVars, ProviderInv
<1> QED
  BY <1>1, <1>2, <1>3, <1>4, <1>5, <1>6, <1>7, <1>8, <1>9, <1>10, <1>11 DEF ProviderNext

LEMMA ProviderInvHonest == ProviderInv => ProviderIsHonest
<1> SUFFICES ASSUME ProviderInv PROVE ProviderIsHonest
  OBVIOUS
<1>1. PICK c, ask, old, now, p : /\ c = adCall /\ ask = c.ask /\ old = c.before /\ now = adRemote.settings /\ p = adPlatform
  OBVIOUS
<1>2. CallOk(p, adRow, now, c)
  BY <1>1 DEF ProviderInv
<1>3. SuccessIsReal
  <2>1. SUFFICES ASSUME adCall.outcome = "success", adCall.real, ~adCall.ignored
                 PROVE  CASE ask.op = "updateBudget" ->
                               /\ Within(HeldBudget(ask.entity), ask.amount, 5)
                               /\ \A e \in DOMAIN now.budget \ {ask.entity} : now.budget[e] = old.budget[e]
                               /\ [now EXCEPT !.budget = old.budget] = old
                          [] ask.op = "updateBiddingStrategy" ->
                               /\ <<adPlatform, ask.strategy>> \in Lossy \/ HeldStrategy = ask.strategy
                               /\ ask.strategy = "BID_CAP" /\ ask.amount # None /\ adPlatform # "GOOGLE_ADS" =>
                                    Within(HeldBid, ask.amount, 5)
                               /\ now.budget = old.budget
                          [] ask.op = "updateBidLimits" ->
                               /\ ask.floor = None
                               /\ IF ask.ceiling = None THEN now = old
                                  ELSE Within(HeldBid, ask.ceiling, 5) /\ now.budget = old.budget
                          [] OTHER -> now = old
    BY <1>1, Zenon DEF SuccessIsReal
  <2>2. InForce(p, ask, old, now) /\ AskCarries(ask)
    <3>1. c.pc # "idle"
      BY <1>1, <1>2, <2>1 DEF CallOk, Effect
    <3> QED
      BY <1>1, <1>2, <2>1, <3>1 DEF CallOk, Effect, Asked
  <2>3. /\ \A e : HeldBudget(e) = InMoney(p, now.budget[e])
        /\ HeldBid = BidOf(p, now) /\ HeldStrategy = StrategyOf(p, now) /\ p \in Platforms
    <3>1. p \in Platforms
      BY <1>1 DEF ProviderInv
    <3>2. \A e : HeldBudget(e) = InMoney(p, now.budget[e])
      BY <1>1, <3>1 DEF HeldBudget, InMoney, Platforms
    <3>3. HeldBid = BidOf(p, now)
      BY <1>1, <3>1 DEF HeldBid, BidOf, InMoney, Platforms
    <3>4. HeldStrategy = StrategyOf(p, now)
      BY <1>1, <3>1 DEF HeldStrategy, StrategyOf, Platforms
    <3> QED
      BY <3>1, <3>2, <3>3, <3>4
  <2>4. CASE ask.op = "updateBudget"
    BY <1>1, <2>2, <2>3, <2>4, Zenon DEF InForce, BudgetInForce
  <2>5. CASE ask.op = "updateBiddingStrategy"
    BY <1>1, <2>2, <2>3, <2>5, Zenon DEF InForce, StrategyInForce
  <2>6. CASE ask.op = "updateBidLimits"
    BY <1>1, <2>2, <2>3, <2>6, Zenon DEF InForce, LimitsInForce
  <2>7. CASE ask.op \in AskOps
    <3>1. now = old /\ ask.op \notin Updates
      BY <2>2, <2>7 DEF InForce, AskOps, Updates, Creations
    <3> QED
      BY <3>1, Zenon DEF Updates
  <2> QED
    BY <2>2, <2>4, <2>5, <2>6, <2>7, Zenon DEF AskCarries, Updates
<1>4. c.sends <= 1 /\ c.tries <= 4
  BY <1>2 DEF CallOk, Counted
<1>5. c.pc = "done" /\ c.outcome # "success" /\ ~c.unsure => now = old
  BY <1>1, <1>2 DEF CallOk, Effect
<1>6. c.sends = 0 => ask = None \/ now = old
  BY <1>1, <1>2 DEF CallOk, Effect, Asked
<1>7. p = "GOOGLE_ADS" /\ c.rotated /\ c.pc \in {"read", "send"} => c.token = "new"
  BY <1>2 DEF CallOk, TokenHeld
<1> QED
  BY <1>1, <1>3, <1>4, <1>5, <1>6, <1>7 DEF ProviderIsHonest

\* A write an adapter reports done is in force on the platform as a sync would read it,
\* sent once at most; without a success or an unclear answer nothing moved; and Google's
\* call goes on with the token its own check rotated (meta.provider.ts 179-322,
\* google-ads.provider.ts 208-471, tiktok.provider.ts 165-295, snapchat.provider.ts
\* 157-345, retry.ts 18-53).
THEOREM ProviderCorrect == ProviderSpec => []ProviderIsHonest
<1>1. ProviderInv /\ [ProviderNext]_providerVars => ProviderInv'
  BY ProviderStepInv
<1> QED
  BY <1>1, ProviderInitInv, ProviderInvHonest, PTL DEF ProviderSpec


-----------------------------------------------------------------------------
(* Types: every variable of a service is in its domain *)

LEMMA KnownPeople ==
  registered \subseteq People /\ MemberInv /\ [MemberNext]_memberVars => (registered \subseteq People)'
<1> SUFFICES ASSUME registered \subseteq People, MemberInv, [MemberNext]_memberVars
             PROVE  (registered \subseteq People)'
  OBVIOUS
<1>1. \A r \in MemberCalls : CreateUser(r) => (registered \subseteq People)'
  <2> TAKE r \in MemberCalls
  <2> HAVE CreateUser(r)
  <2>1. call[r].pc = "user" /\ InOrder(call[r])
    BY DEF CreateUser, MemberInv
  <2>2. call[r].target \in People
    BY <2>1 DEF InOrder, Requested
  <2> QED
    BY <2>2 DEF CreateUser
<1> QED
  BY <1>1 DEF MemberNext, memberVars, CreateOrg, Guarded, Invite, FindMembership, ReadTarget, Seat, WriteRole,
              DeleteMember, CallDies

\* Who is known, and what the rows and requests hold (organizations.service.ts 23-175).
THEOREM MemberTypeCorrect == MemberSpec => []MemberTypeOK
<1>1. MemberInit => registered \subseteq People
  BY DEF MemberInit
<1>2. MemberInv /\ registered \subseteq People => MemberTypeOK
  BY DEF MemberInv, MemberTypeOK
<1> QED
  BY <1>1, <1>2, KnownPeople, MemberInitInv, MemberNextInv, PTL DEF MemberSpec

\* A finished step, and the plans the route took.
WizardTyped ==
  /\ \A t \in WizardTabs : wizard[t].pc \in {"closed", "open", "pending"} /\ wizard[t].acknowledged \in BOOLEAN
  /\ kept \in [step : 1..Final, draft : Content]
  /\ plans \in Seq([draft : Content]) /\ Len(plans) <= MaxPlans

LEMMA TypedMoves ==
  ASSUME WizardInv, WizardTyped, NEW t \in WizardTabs, NEW r, wizard' = [wizard EXCEPT ![t] = r],
         r.pc \in {"closed", "open", "pending"}, r.acknowledged \in BOOLEAN
  PROVE  \A u \in WizardTabs : wizard'[u].pc \in {"closed", "open", "pending"} /\ wizard'[u].acknowledged \in BOOLEAN
<1>1. wizard'[t] = r /\ \A u \in WizardTabs : u # t => wizard'[u] = wizard[u]
  BY DEF WizardInv
<1> QED
  BY <1>1 DEF WizardTyped

LEMMA StoredTypes ==
  ASSUME WizardInv, WizardTyped, NEW t \in WizardTabs, NEW n \in 1..Final, NEW d \in Content,
         NEW a \in BOOLEAN, Stored(t, n, d, a), UNCHANGED plans
  PROVE  WizardTyped'
<1> DEFINE r == [pc |-> "open", step |-> n, draft |-> d, acknowledged |-> a]
<1>1. wizard' = [wizard EXCEPT ![t] = r] /\ kept' = [step |-> n, draft |-> d]
  BY DEF Stored
<1>2. \A u \in WizardTabs : wizard'[u].pc \in {"closed", "open", "pending"} /\ wizard'[u].acknowledged \in BOOLEAN
  BY <1>1, TypedMoves
<1> QED
  BY <1>1, <1>2 DEF WizardTyped

LEMMA CreatedTypes ==
  ASSUME WizardInv, WizardTyped, NEW t \in WizardTabs, Created(t)
  PROVE  plans' \in Seq([draft : Content]) /\ Len(plans') <= MaxPlans
<1>1. wizard[t].draft \in Content
  BY DEF WizardInv, InWizard, Position
<1>2. plans' = Append(plans, [draft |-> wizard[t].draft]) /\ Len(plans) < MaxPlans
  BY DEF Created
<1>3. [draft |-> wizard[t].draft] \in [draft : Content]
  BY <1>1
<1>4. Len(plans') = Len(plans) + 1 /\ plans' \in Seq([draft : Content]) /\ Len(plans) \in Nat
  BY <1>2, <1>3 DEF WizardTyped
<1> QED
  BY <1>2, <1>4, WizardAssumption

LEMMA WizardTypes == WizardInv /\ WizardTyped /\ [WizardNext]_wizardVars => WizardTyped'
<1> SUFFICES ASSUME WizardInv, WizardTyped, [WizardNext]_wizardVars PROVE WizardTyped'
  OBVIOUS
<1>1. CASE UNCHANGED wizardVars
  BY <1>1 DEF WizardTyped, wizardVars
<1>2. CASE WizardNext
  <2> PICK t \in WizardTabs : \/ OpenWizard(t) \/ Acknowledge(t) \/ GoNext(t) \/ GoBack(t) \/ SubmitWizard(t)
                              \/ WizardDone(t) \/ WizardFails(t)
                              \/ \E value \in {"open", "fine", "odd"} : PatchForm(t, value)
    BY <1>2 DEF WizardNext
  <2> PICK a, b, c, d : wizard[t] = [pc |-> a, step |-> b, draft |-> c, acknowledged |-> d]
    BY DEF WizardInv, InWizard, WizardShape
  <2>1. b \in 1..Final /\ c \in Content /\ a \in {"closed", "open", "pending"} /\ d \in BOOLEAN /\ Final \in Nat
    BY StepsAreNumbered DEF WizardInv, InWizard, Position, WizardTyped
  <2>2. CASE OpenWizard(t)
    <3> DEFINE r == [pc |-> "open", step |-> kept.step, draft |-> kept.draft, acknowledged |-> FALSE]
    <3>1. wizard' = [wizard EXCEPT ![t] = r] /\ UNCHANGED <<kept, plans>>
      BY <2>2 DEF OpenWizard
    <3>2. r.pc = "open" /\ r.acknowledged = FALSE
      OBVIOUS
    <3> QED
      BY <3>1, <3>2, TypedMoves DEF WizardTyped
  <2>3. CASE Acknowledge(t)
    <3> DEFINE r == [pc |-> a, step |-> b, draft |-> c, acknowledged |-> ~d]
    <3>1. wizard' = [wizard EXCEPT ![t].acknowledged = ~@] /\ UNCHANGED <<kept, plans>>
      BY <2>3 DEF Acknowledge
    <3>2. wizard' = [wizard EXCEPT ![t] = [wizard[t] EXCEPT !.acknowledged = ~@]]
      BY <3>1
    <3>3. [wizard[t] EXCEPT !.acknowledged = ~@] = r
      OBVIOUS
    <3>4. wizard' = [wizard EXCEPT ![t] = r]
      BY <3>2, <3>3
    <3>5. r.pc = a /\ r.acknowledged = ~d
      OBVIOUS
    <3> HIDE DEF r
    <3>6. r.pc \in {"closed", "open", "pending"} /\ r.acknowledged \in BOOLEAN
      BY <2>1, <3>5
    <3> QED
      BY <3>1, <3>4, <3>6, TypedMoves DEF WizardTyped
  <2>4. CASE SubmitWizard(t)
    <3> DEFINE r == [pc |-> "pending", step |-> b, draft |-> c, acknowledged |-> d]
    <3>1. wizard' = [wizard EXCEPT ![t].pc = "pending"] /\ UNCHANGED <<kept, plans>>
      BY <2>4 DEF SubmitWizard
    <3>2. wizard' = [wizard EXCEPT ![t] = [wizard[t] EXCEPT !.pc = "pending"]] /\ [wizard[t] EXCEPT !.pc = "pending"] = r
      BY <3>1
    <3>3. r.pc = "pending" /\ r.acknowledged \in BOOLEAN
      BY <2>1
    <3> HIDE DEF r
    <3> QED
      BY <3>1, <3>2, <3>3, TypedMoves DEF WizardTyped
  <2>5. CASE GoNext(t)
    <3>1. b + 1 \in 1..Final /\ Stored(t, b + 1, c, d) /\ UNCHANGED plans
      BY <2>1, <2>5 DEF GoNext
    <3> QED
      BY <2>1, <3>1, StoredTypes
  <2>6. CASE GoBack(t)
    <3>1. b - 1 \in 1..Final /\ Stored(t, b - 1, c, d) /\ UNCHANGED plans
      BY <2>1, <2>6 DEF GoBack
    <3> QED
      BY <2>1, <3>1, StoredTypes
  <2>7. CASE WizardDone(t)
    <3>1. wizard' = [wizard EXCEPT ![t] = ClosedTab] /\ kept' = Fresh /\ Created(t)
      BY <2>7 DEF WizardDone
    <3>2. ClosedTab.pc = "closed" /\ ClosedTab.acknowledged = FALSE /\ Fresh \in [step : 1..Final, draft : Content]
      BY StepsAreNumbered DEF ClosedTab, Fresh, INITIAL_DRAFT, Content
    <3> QED
      BY <3>1, <3>2, TypedMoves, CreatedTypes DEF WizardTyped
  <2>8. CASE WizardFails(t)
    <3> DEFINE r == [pc |-> "open", step |-> b, draft |-> c, acknowledged |-> d]
    <3>1. wizard' = [wizard EXCEPT ![t].pc = "open"] /\ UNCHANGED kept /\ (Created(t) \/ UNCHANGED plans)
      BY <2>8 DEF WizardFails
    <3>2. wizard' = [wizard EXCEPT ![t] = [wizard[t] EXCEPT !.pc = "open"]] /\ [wizard[t] EXCEPT !.pc = "open"] = r
      BY <3>1
    <3>3. r.pc = "open" /\ r.acknowledged \in BOOLEAN
      BY <2>1
    <3> HIDE DEF r
    <3> QED
      BY <3>1, <3>2, <3>3, TypedMoves, CreatedTypes DEF WizardTyped
  <2>9. ASSUME NEW value \in {"open", "fine", "odd"}, PatchForm(t, value) PROVE WizardTyped'
    <3> DEFINE new == [c EXCEPT ![WIZARD_STEPS[b]] = value]
    <3>1. Stored(t, b, new, d) /\ UNCHANGED plans
      BY <2>9 DEF PatchForm
    <3>2. new \in Content
      BY <2>1 DEF Content
    <3> QED
      BY <2>1, <3>1, <3>2, StoredTypes
  <2> QED
    BY <2>2, <2>3, <2>4, <2>5, <2>6, <2>7, <2>8, <2>9
<1> QED
  BY <1>1, <1>2

\* The step, the draft and the state of each tab, and what storage keeps (wizard.store.ts,
\* new/page.tsx).
THEOREM WizardTypeCorrect == WizardSpec => []WizardTypeOK
<1>1. WizardInit => WizardTyped
  <2> SUFFICES ASSUME WizardInit PROVE WizardTyped
    OBVIOUS
  <2>1. Fresh \in [step : 1..Final, draft : Content]
    BY StepsAreNumbered DEF Fresh, INITIAL_DRAFT, Content
  <2>2. \A t \in WizardTabs : wizard[t].pc = "closed" /\ wizard[t].acknowledged = FALSE
    BY DEF WizardInit, ClosedTab
  <2>3. plans \in Seq([draft : Content]) /\ Len(plans) = 0
    BY DEF WizardInit
  <2>4. 0 <= MaxPlans
    BY WizardAssumption
  <2> QED
    BY <2>1, <2>2, <2>3, <2>4 DEF WizardInit, WizardTyped
<1>2. WizardInv /\ WizardTyped => WizardTypeOK
  <2> SUFFICES ASSUME WizardInv, WizardTyped PROVE WizardTypeOK
    OBVIOUS
  <2>1. ASSUME NEW t \in WizardTabs
        PROVE  wizard[t] \in [pc : {"closed", "open", "pending"}, step : 1..Final, draft : Content, acknowledged : BOOLEAN]
    <3> PICK a, b, c, d : wizard[t] = [pc |-> a, step |-> b, draft |-> c, acknowledged |-> d]
      BY DEF WizardInv, InWizard, WizardShape
    <3>1. b \in 1..Final /\ c \in Content /\ a \in {"closed", "open", "pending"} /\ d \in BOOLEAN
      BY DEF WizardInv, InWizard, Position, WizardTyped
    <3> QED
      BY <3>1
  <2> QED
    BY <2>1 DEF WizardInv, WizardTyped, WizardTypeOK
<1> QED
  BY <1>1, <1>2, WizardTypes, WizardInitInv, WizardNextInv, PTL DEF WizardSpec

\* No more alerts than are made, here and on the page; what is looked for is a key.
AlertTyped ==
  /\ Len(alert) <= MaxAlerts
  /\ \A r \in Raisers : raiser[r].found <= MaxAlerts
  /\ clearing \subseteq AlertKeys
  /\ alertPage \in Seq(AlertRows) /\ Len(alertPage) <= MaxAlerts

LEMMA AlertTypes == AlertInv /\ AlertInv' /\ AlertTyped /\ [AlertNext]_alertVars => AlertTyped'
<1> SUFFICES ASSUME AlertInv, AlertInv', AlertTyped, [AlertNext]_alertVars PROVE AlertTyped'
  OBVIOUS
<1>1. alert \in Seq(AlertRows) /\ alert' \in Seq(AlertRows) /\ RaisersFit /\ RaisersFit' /\ MaxAlerts \in Nat
  BY AlertsAssumption DEF AlertInv
<1>2. CASE UNCHANGED alertVars
  BY <1>2 DEF alertVars, AlertTyped
<1>3. CASE AutoResolve \/ FetchAlerts
  BY <1>1, <1>3 DEF AutoResolve, FetchAlerts, AlertTyped
<1>4. CASE MarkAllRead \/ \E i \in AlertIds : MarkRead(i)
  <2>1. DOMAIN alert' = DOMAIN alert /\ UNCHANGED <<raiser, clearing, alertPage>>
    BY <1>4 DEF MarkAllRead, MarkRead
  <2>2. Len(alert') = Len(alert)
    BY <1>1, <2>1
  <2> QED
    BY <2>1, <2>2 DEF AlertTyped
<1>5. ASSUME NEW ids, ResolveRows(ids) PROVE Len(alert') = Len(alert) /\ \A r \in Raisers : raiser'[r].found = raiser[r].found
  <2>1. DOMAIN alert' = DOMAIN alert
    BY <1>5 DEF ResolveRows
  <2>2. \A r \in Raisers : raiser'[r].found = raiser[r].found
    BY <1>5 DEF ResolveRows
  <2> QED
    BY <1>1, <2>1, <2>2
<1>6. ASSUME NEW key \in AlertKeys, AutoResolveKey(key) PROVE AlertTyped'
  <2>1. Len(alert') = Len(alert) /\ \A r \in Raisers : raiser'[r].found = raiser[r].found
    BY <1>5, <1>6 DEF AutoResolveKey
  <2> QED
    BY <1>6, <2>1 DEF AutoResolveKey, AlertTyped
<1>7. ASSUME NEW i \in AlertIds, Resolve(i) PROVE AlertTyped'
  <2>1. Len(alert') = Len(alert) /\ \A r \in Raisers : raiser'[r].found = raiser[r].found
    BY <1>5, <1>7 DEF Resolve
  <2> QED
    BY <1>7, <2>1 DEF Resolve, AlertTyped
<1>8. ASSUME NEW key \in AlertKeys, NEW r \in Raisers, FindActive(r, key) PROVE AlertTyped'
  <2>1. PICK i \in IF ActiveOf(alert, key) = {} THEN {0} ELSE ActiveOf(alert, key) :
          raiser' = [raiser EXCEPT ![r] = [pc |-> "found", key |-> key, found |-> i, disturbed |-> FALSE]]
    BY <1>8 DEF FindActive
  <2>2. i <= MaxAlerts
    <3>1. i = 0 \/ i \in 1..Len(alert)
      BY <1>1, <2>1 DEF ActiveOf
    <3> QED
      BY <1>1, <3>1 DEF AlertTyped
  <2>3. \A q \in Raisers : raiser'[q].found <= MaxAlerts
    BY <1>1, <2>1, <2>2 DEF RaisersFit, AlertTyped
  <2> QED
    BY <1>8, <2>3 DEF FindActive, AlertTyped
<1>9. ASSUME NEW r \in Raisers, WriteAlert(r) PROVE AlertTyped'
  <2>1. NotRaising.found = 0
    BY DEF NotRaising
  <2>2. \A q \in Raisers : raiser'[q].found <= MaxAlerts
    BY <1>1, <1>9, <2>1 DEF WriteAlert, RaisersFit, AlertTyped
  <2>3. Len(alert') <= MaxAlerts
    <3>1. CASE UNCHANGED alert
      BY <3>1 DEF AlertTyped
    <3>2. CASE Len(alert) < MaxAlerts /\ \E row : alert' = Append(alert, row)
      <4>1. Len(alert') = Len(alert) + 1 /\ Len(alert) \in Nat
        BY <1>1, <3>2
      <4> QED
        BY <1>1, <3>2, <4>1
    <3> QED
      BY <1>9, <3>1, <3>2 DEF WriteAlert
  <2> QED
    BY <1>9, <2>2, <2>3 DEF WriteAlert, AlertTyped
<1> QED
  BY <1>2, <1>3, <1>4, <1>6, <1>7, <1>8, <1>9 DEF AlertNext

LEMMA AlertInitTyped == AlertInit => AlertTyped
<1> SUFFICES ASSUME AlertInit PROVE AlertTyped
  OBVIOUS
<1>1. NotRaising.found = 0 /\ 0 <= MaxAlerts /\ Len(<<>>) = 0
  BY AlertsAssumption DEF NotRaising
<1> QED
  BY <1>1 DEF AlertInit, AlertTyped

LEMMA AlertInvTyped == AlertInv /\ AlertTyped => AlertTypeOK
<1> SUFFICES ASSUME AlertInv, AlertTyped PROVE AlertTypeOK
  OBVIOUS
<1>1. Len(alert) \in 0..MaxAlerts /\ alert \in [1..Len(alert) -> AlertRows]
  BY AlertsAssumption DEF AlertInv, AlertTyped
<1>2. Len(alertPage) \in 0..MaxAlerts /\ alertPage \in [1..Len(alertPage) -> AlertRows]
  BY AlertsAssumption DEF AlertTyped
<1>3. raiser \in [Raisers -> [pc : {"idle", "found"}, key : AlertKeys \cup {"none"}, found : 0..MaxAlerts, disturbed : BOOLEAN]]
  <2>1. ASSUME NEW r \in Raisers
        PROVE  raiser[r] \in [pc : {"idle", "found"}, key : AlertKeys \cup {"none"}, found : 0..MaxAlerts, disturbed : BOOLEAN]
    BY AlertsAssumption DEF AlertInv, RaisersFit, AlertTyped
  <2> QED
    BY <2>1 DEF AlertInv, RaisersFit
<1> QED
  BY <1>1, <1>2, <1>3 DEF AlertTyped, AlertTypeOK

\* The rows, the page's copy of them and the calls of raise (alerts.service.ts).
THEOREM AlertTypeCorrect == AlertSpec => []AlertTypeOK
<1>1. AlertInv /\ [AlertNext]_alertVars => AlertInv'
  BY AlertNextInv
<1> QED
  BY <1>1, AlertInitInv, AlertInitTyped, AlertInvTyped, AlertTypes, PTL DEF AlertSpec

\* Ages are followed up to Ancient, and one further where there is no snapshot.
RunTyped(r) ==
  /\ r.pc \in {"idle", "seal", "create", "compute", "write", "late", "stale"}
  /\ r.by \in {"nightly", "admin"} /\ r.basis <= Ancient
LearningTyped ==
  /\ \A c \in Finishers : finisher[c].last <= NoSnapshot
  /\ \A c \in Finishers : Len(sealed[c]) <= MaxOutcomes /\ \A i \in 1..Len(sealed[c]) : sealed[c][i] <= Ancient
  /\ \A r \in featureRow : r.age <= Ancient /\ r.isStale \in BOOLEAN
  /\ \A w \in Pipelines : RunTyped(pipeline[w])
  /\ overlapped \in BOOLEAN

LEMMA OlderIsNotBeyond == ASSUME NEW a \in Nat, a <= Ancient PROVE Older(a) \in Nat /\ Older(a) <= Ancient
  BY AncientIsFar DEF Older

LEMMA RestingTyped == RunTyped(Resting)
  BY AncientIsFar DEF Resting, RunTyped

\* One run goes on as r.
LEMMA RunsTyped ==
  ASSUME LearningInv, LearningTyped, NEW w \in Pipelines, NEW r, pipeline' = [pipeline EXCEPT ![w] = r], RunTyped(r)
  PROVE  \A v \in Pipelines : RunTyped(pipeline'[v])
<1>1. pipeline'[w] = r /\ \A v \in Pipelines : v # w => pipeline'[v] = pipeline[v]
  BY DEF LearningInv, RunsFit
<1> QED
  BY <1>1 DEF LearningTyped

LEMMA GoesOnTyped ==
  ASSUME LearningInv, LearningTyped, NEW w \in Pipelines, NEW pc, NEW todo, NEW at, NEW basis,
         Continues(w, pc, todo, at, basis), basis <= Ancient,
         pc \in {"idle", "seal", "create", "compute", "write", "late", "stale"}
  PROVE  \A v \in Pipelines : RunTyped(pipeline'[v])
<1> DEFINE r == [pc |-> pc, by |-> pipeline[w].by, todo |-> todo, at |-> at, basis |-> basis]
<1>1. pipeline' = [pipeline EXCEPT ![w] = r]
  BY DEF Continues
<1>2. RunTyped(r)
  BY DEF LearningTyped, RunTyped
<1> QED
  BY <1>1, <1>2, RunsTyped

LEMMA DayTyped == ASSUME LearningInv, LearningTyped, DayPasses PROVE LearningTyped'
<1>1. \A c \in Finishers : finisher'[c].last <= NoSnapshot
  <2> TAKE c \in Finishers
  <2>1. finisher[c].last \in Nat /\ finisher[c].last <= NoSnapshot
    BY DEF LearningInv, Recorded, LearningTyped
  <2>2. finisher'[c].last = IF finisher[c].last = NoSnapshot THEN NoSnapshot ELSE Older(finisher[c].last)
    BY DEF DayPasses
  <2> QED
    BY <2>1, <2>2, AncientIsFar DEF NoSnapshot, Older
<1>2. ASSUME NEW c \in Finishers PROVE Len(sealed'[c]) <= MaxOutcomes /\ \A i \in 1..Len(sealed'[c]) : sealed'[c][i] <= Ancient
  <2>1. sealed'[c] = [i \in 1..Len(sealed[c]) |-> Older(sealed[c][i])]
    BY DEF DayPasses
  <2>2. Len(sealed[c]) \in Nat /\ \A i \in 1..Len(sealed[c]) : sealed[c][i] \in Nat /\ sealed[c][i] <= Ancient
    BY DEF LearningInv, Recorded, LearningTyped
  <2>3. \A i \in 1..Len(sealed[c]) : Older(sealed[c][i]) \in Nat /\ Older(sealed[c][i]) <= Ancient
    BY <2>2, OlderIsNotBeyond
  <2>4. sealed'[c] \in [1..Len(sealed[c]) -> Nat]
    BY <2>1, <2>3
  <2>5. Len(sealed'[c]) = Len(sealed[c])
    BY <2>2, <2>4
  <2> QED
    BY <2>1, <2>3, <2>5 DEF LearningTyped
<1>3. ASSUME NEW r \in featureRow' PROVE r.age <= Ancient /\ r.isStale \in BOOLEAN
  <2>1. PICK q \in featureRow : r = [age |-> Older(q.age), basis |-> Older(q.basis), isStale |-> q.isStale]
    BY <1>3 DEF DayPasses
  <2>2. q.age \in Nat /\ q.age <= Ancient /\ q.isStale \in BOOLEAN
    BY DEF LearningInv, RowsFit, RowFits, LearningTyped
  <2> QED
    BY <2>1, <2>2, OlderIsNotBeyond
<1>4. ASSUME NEW w \in Pipelines PROVE RunTyped(pipeline'[w])
  <2>1. RunTyped(pipeline[w]) /\ pipeline[w].basis \in Nat
    BY DEF LearningInv, RunsFit, RunFits, ReadFits, LearningTyped
  <2>2. pipeline'[w] = IF pipeline[w].pc = "write"
                       THEN [pc |-> "late", by |-> pipeline[w].by, todo |-> {}, at |-> {}, basis |-> Older(pipeline[w].basis)]
                       ELSE pipeline[w]
    BY DEF DayPasses
  <2>3. Older(pipeline[w].basis) <= Ancient
    BY <2>1, OlderIsNotBeyond DEF RunTyped
  <2> QED
    BY <2>1, <2>2, <2>3 DEF RunTyped
<1>5. overlapped' \in BOOLEAN
  BY DEF DayPasses, LearningTyped
<1> QED
  BY <1>1, <1>2, <1>3, <1>4, <1>5 DEF LearningTyped

LEMMA RunStepTyped ==
  ASSUME LearningInv, LearningTyped, NEW w \in Pipelines,
         \/ StartRun(w, "nightly") \/ StartRun(w, "admin") \/ SealDone(w) \/ SealFails(w) \/ ReadOutcomes(w)
         \/ (\E c \in Finishers : SealCheck(w, c)) \/ RunDies(w)
  PROVE  LearningTyped'
<1>0. 0 <= Ancient /\ Ancient \in Nat
  BY AncientIsFar
<1>1. UNCHANGED <<finisher, sealed, featureRow>>
  BY DEF StartRun, SealDone, SealFails, ReadOutcomes, SealCheck, RunDies
<1>2. overlapped' \in BOOLEAN
  BY DEF StartRun, SealDone, SealFails, ReadOutcomes, SealCheck, RunDies, LearningTyped
<1>3. \A v \in Pipelines : RunTyped(pipeline'[v])
  <2>1. ASSUME NEW by \in {"nightly", "admin"}, StartRun(w, by) PROVE \A v \in Pipelines : RunTyped(pipeline'[v])
    <3> DEFINE r == [pc |-> "seal", by |-> by, todo |-> {c \in Finishers : Completed(c)}, at |-> {}, basis |-> 0]
    <3>1. pipeline' = [pipeline EXCEPT ![w] = r]
      BY <2>1 DEF StartRun
    <3>2. RunTyped(r)
      BY <1>0 DEF RunTyped
    <3> QED
      BY <3>1, <3>2, RunsTyped
  <2>2. CASE SealDone(w) \/ SealFails(w)
    BY <1>0, <2>2, GoesOnTyped DEF SealDone, SealFails
  <2>3. CASE RunDies(w)
    BY <2>3, RestingTyped, RunsTyped DEF RunDies
  <2>4. ASSUME NEW c \in Finishers, SealCheck(w, c) PROVE \A v \in Pipelines : RunTyped(pipeline'[v])
    BY <1>0, <2>4, GoesOnTyped DEF SealCheck
  <2>5. CASE ReadOutcomes(w)
    <3>1. CASE Continues(w, NextStage(w), {}, {}, 0)
      BY <1>0, <3>1, GoesOnTyped DEF NextStage
    <3>2. CASE ~Continues(w, NextStage(w), {}, {}, 0)
      <4>1. PICK a \in {b \in UNION {{sealed[c][i] : i \in 1..Len(sealed[c])} : c \in Finishers} : b <= WindowDays} :
              Continues(w, "write", {}, {}, a)
        BY <2>5, <3>2 DEF ReadOutcomes
      <4>2. PICK c \in Finishers : \E i \in 1..Len(sealed[c]) : a = sealed[c][i]
        OBVIOUS
      <4>3. a <= Ancient
        BY <4>2 DEF LearningTyped
      <4> QED
        BY <4>1, <4>3, GoesOnTyped
    <3> QED
      BY <3>1, <3>2
  <2> QED
    BY <2>1, <2>2, <2>3, <2>4, <2>5
<1> QED
  BY <1>1, <1>2, <1>3 DEF LearningTyped

LEMMA RowStepTyped ==
  ASSUME LearningInv, LearningTyped, NEW w \in Pipelines, WriteFeature(w) \/ MarkStale(w)
  PROVE  LearningTyped'
<1>0. 0 <= Ancient /\ Ancient \in Nat
  BY AncientIsFar
<1>1. UNCHANGED <<finisher, sealed, overlapped>>
  BY DEF WriteFeature, MarkStale
<1>2. \A v \in Pipelines : RunTyped(pipeline'[v])
  <2>1. CASE WriteFeature(w)
    BY <1>0, <2>1, GoesOnTyped DEF WriteFeature, NextStage
  <2>2. CASE MarkStale(w)
    BY <2>2, RestingTyped, RunsTyped DEF MarkStale
  <2> QED
    BY <2>1, <2>2
<1>3. ASSUME NEW r \in featureRow' PROVE r.age <= Ancient /\ r.isStale \in BOOLEAN
  <2>1. CASE r \in featureRow
    BY <2>1 DEF LearningTyped
  <2>2. CASE r = [age |-> 0, basis |-> pipeline[w].basis, isStale |-> FALSE]
    BY <1>0, <2>2
  <2>3. ASSUME NEW q \in featureRow, r = [age |-> q.age, basis |-> q.basis, isStale |-> q.isStale \/ q.age > StaleDays]
        PROVE  r.age <= Ancient /\ r.isStale \in BOOLEAN
    <3>1. q.age <= Ancient
      BY DEF LearningTyped
    <3> QED
      BY <2>3, <3>1
  <2> QED
    BY <1>3, <2>1, <2>2, <2>3 DEF WriteFeature, MarkStale
<1> QED
  BY <1>1, <1>2, <1>3 DEF LearningTyped

LEMMA SealCreateTyped ==
  ASSUME LearningInv, LearningTyped, NEW w \in Pipelines, SealCreate(w)
  PROVE  LearningTyped'
<1>0. 0 <= Ancient /\ Ancient \in Nat
  BY AncientIsFar
<1>1. UNCHANGED <<finisher, featureRow, overlapped>> /\ \A v \in Pipelines : RunTyped(pipeline'[v])
  BY <1>0, GoesOnTyped DEF SealCreate
<1>2. ASSUME NEW d \in Finishers PROVE Len(sealed'[d]) <= MaxOutcomes /\ \A i \in 1..Len(sealed'[d]) : sealed'[d][i] <= Ancient
  <2>1. sealed[d] \in Seq(Nat) /\ Len(sealed[d]) <= MaxOutcomes /\ \A i \in 1..Len(sealed[d]) : sealed[d][i] <= Ancient
    BY DEF LearningInv, Recorded, LearningTyped
  <2>2. CASE sealed'[d] = sealed[d]
    BY <2>1, <2>2
  <2>3. CASE sealed'[d] # sealed[d]
    <3>1. PICK c \in pipeline[w].at : /\ finisher[c].last # NoSnapshot /\ Len(sealed[c]) < MaxOutcomes
                                      /\ sealed' = [sealed EXCEPT ![c] = Append(sealed[c], finisher[c].last)]
      BY <2>3 DEF SealCreate
    <3>2. c \in Finishers
      BY DEF LearningInv, RunsFit, RunFits
    <3>3. c = d /\ sealed'[d] = Append(sealed[d], finisher[d].last)
      BY <2>3, <3>1, <3>2 DEF LearningInv, Recorded
    <3>4. finisher[d].last \in Nat /\ finisher[d].last <= Ancient
      <4>1. finisher[d].last \in Nat /\ finisher[d].last <= NoSnapshot /\ finisher[d].last # NoSnapshot
        BY <3>1, <3>3 DEF LearningInv, Recorded, LearningTyped
      <4> QED
        BY <1>0, <4>1 DEF NoSnapshot
    <3> DEFINE t == Append(sealed[d], finisher[d].last)
    <3>5. Len(t) = Len(sealed[d]) + 1 /\ Len(sealed[d]) \in Nat
          /\ \A i \in 1..Len(t) : t[i] = IF i <= Len(sealed[d]) THEN sealed[d][i] ELSE finisher[d].last
      BY <2>1, <3>4
    <3>6. \A i \in 1..Len(t) : t[i] <= Ancient
      <4> TAKE i \in 1..Len(t)
      <4> HIDE DEF t
      <4>1. CASE i <= Len(sealed[d])
        <5>1. i \in 1..Len(sealed[d])
          BY <3>5, <4>1
        <5> QED
          BY <2>1, <3>5, <4>1, <5>1
      <4>2. CASE ~(i <= Len(sealed[d]))
        BY <3>4, <3>5, <4>2
      <4> QED
        BY <4>1, <4>2
    <3>7. Len(t) <= MaxOutcomes
      BY <3>1, <3>3, <3>5, LearningAssumption
    <3> QED
      BY <3>3, <3>6, <3>7
  <2> QED
    BY <2>2, <2>3
<1> QED
  BY <1>1, <1>2 DEF LearningTyped

LEMMA LearningTypes == LearningInv /\ LearningTyped /\ [LearningNext]_learningVars => LearningTyped'
<1> SUFFICES ASSUME LearningInv, LearningTyped, [LearningNext]_learningVars PROVE LearningTyped'
  OBVIOUS
<1>1. CASE UNCHANGED learningVars
  BY <1>1 DEF learningVars, LearningTyped
<1>2. ASSUME NEW c \in Finishers, CampaignMoves(c) PROVE LearningTyped'
  <2>1. UNCHANGED <<sealed, featureRow, pipeline, overlapped>>
    BY <1>2 DEF CampaignMoves
  <2>2. \A d \in Finishers : finisher'[d].last <= NoSnapshot
    <3> TAKE d \in Finishers
    <3>1. 0 <= NoSnapshot /\ finisher[d].last <= NoSnapshot
      BY AncientIsFar DEF LearningTyped
    <3>2. DOMAIN finisher = Finishers
      BY DEF LearningInv, Recorded
    <3>3. PICK f : finisher' = [finisher EXCEPT ![c] = f] /\ f.last \in {finisher[c].last, 0}
      <4>1. CASE finisher' = [finisher EXCEPT ![c] = [status |-> "ACTIVE", quiet |-> finisher[c].quiet, last |-> 0]]
        <5>1. PICK f : f = [status |-> "ACTIVE", quiet |-> finisher[c].quiet, last |-> 0]
          OBVIOUS
        <5>2. finisher' = [finisher EXCEPT ![c] = f]
          BY <4>1, <5>1, Zenon
        <5>3. f.last = 0
          BY <5>1
        <5> QED
          BY <5>2, <5>3, Zenon
      <4>2. ASSUME NEW s, finisher' = [finisher EXCEPT ![c] = [status |-> s, quiet |-> 0, last |-> finisher[c].last]]
            PROVE  \E f : finisher' = [finisher EXCEPT ![c] = f] /\ f.last \in {finisher[c].last, 0}
        <5>1. PICK f : f = [status |-> s, quiet |-> 0, last |-> finisher[c].last]
          OBVIOUS
        <5>2. finisher' = [finisher EXCEPT ![c] = f]
          BY <4>2, <5>1, Zenon
        <5>3. f.last = finisher[c].last
          BY <5>1
        <5> QED
          BY <5>2, <5>3, Zenon
      <4> QED
        BY <1>2, <4>1, <4>2 DEF CampaignMoves
    <3>4. finisher'[d].last = finisher[d].last \/ finisher'[d].last = 0
      <4>1. CASE d = c
        BY <3>2, <3>3, <4>1
      <4>2. CASE d # c
        BY <3>3, <4>2
      <4> QED
        BY <4>1, <4>2
    <3> QED
      BY <3>1, <3>4
  <2> QED
    BY <2>1, <2>2 DEF LearningTyped
<1> QED
  BY <1>1, <1>2, DayTyped, RunStepTyped, RowStepTyped, SealCreateTyped DEF LearningNext

LEMMA LearningInitTyped == LearningInit => LearningTyped
<1> SUFFICES ASSUME LearningInit PROVE LearningTyped
  OBVIOUS
<1>1. \A c \in Finishers : finisher[c].last = NoSnapshot /\ sealed[c] = <<>>
  BY DEF LearningInit
<1>2. NoSnapshot <= NoSnapshot /\ 0 <= MaxOutcomes /\ Len(<<>>) = 0 /\ 1..0 = {}
  BY AncientIsFar, LearningAssumption
<1>3. \A c \in Finishers : Len(sealed[c]) <= MaxOutcomes /\ \A i \in 1..Len(sealed[c]) : sealed[c][i] <= Ancient
  BY <1>1, <1>2
<1>4. \A w \in Pipelines : RunTyped(pipeline[w])
  BY RestingTyped DEF LearningInit
<1> QED
  BY <1>1, <1>2, <1>3, <1>4 DEF LearningInit, LearningTyped

LEMMA LearningInvTyped == LearningInv /\ LearningTyped => LearningTypeOK
<1> SUFFICES ASSUME LearningInv, LearningTyped PROVE LearningTypeOK
  OBVIOUS
<1>0. Ancient \in Nat
  BY AncientIsFar
<1>1. finisher \in [Finishers -> [status : {"ACTIVE", "PAUSED", "ARCHIVED"}, quiet : 0..1, last : 0..Ancient + 1]]
  <2>1. ASSUME NEW c \in Finishers PROVE finisher[c] \in [status : {"ACTIVE", "PAUSED", "ARCHIVED"}, quiet : 0..1, last : 0..Ancient + 1]
    BY <1>0 DEF LearningInv, Recorded, LearningTyped, NoSnapshot
  <2> QED
    BY <2>1 DEF LearningInv, Recorded
<1>2. ASSUME NEW c \in Finishers PROVE sealed[c] \in Seq(0..Ancient) /\ Len(sealed[c]) <= MaxOutcomes
  <2>1. sealed[c] \in Seq(Nat) /\ \A i \in 1..Len(sealed[c]) : sealed[c][i] <= Ancient
    BY DEF LearningInv, Recorded, LearningTyped
  <2>2. /\ Len(sealed[c]) \in Nat /\ sealed[c] = [i \in 1..Len(sealed[c]) |-> sealed[c][i]]
        /\ \A i \in 1..Len(sealed[c]) : sealed[c][i] \in 0..Ancient
    BY <1>0, <2>1
  <2>3. sealed[c] \in Seq(0..Ancient)
    BY <2>2, RowsAreSeq
  <2> QED
    BY <2>3 DEF LearningTyped
<1>3. featureRow \subseteq [age : 0..Ancient, basis : 0..Ancient, isStale : BOOLEAN]
  <2> SUFFICES ASSUME NEW r \in featureRow PROVE r \in [age : 0..Ancient, basis : 0..Ancient, isStale : BOOLEAN]
    OBVIOUS
  <2>1. RowFits(r) /\ r.age <= Ancient /\ r.isStale \in BOOLEAN
    BY DEF LearningInv, RowsFit, LearningTyped
  <2> QED
    BY <1>0, <2>1 DEF RowFits
<1>4. pipeline \in [Pipelines -> [pc : {"idle", "seal", "create", "compute", "write", "late", "stale"},
                                  by : {"nightly", "admin"}, todo : SUBSET Finishers,
                                  at : SUBSET Finishers, basis : 0..Ancient]]
  <2>1. ASSUME NEW w \in Pipelines
        PROVE  pipeline[w] \in [pc : {"idle", "seal", "create", "compute", "write", "late", "stale"}, by : {"nightly", "admin"},
                                todo : SUBSET Finishers, at : SUBSET Finishers, basis : 0..Ancient]
    <3>1. RunFits(pipeline[w]) /\ RunTyped(pipeline[w])
      BY DEF LearningInv, RunsFit, LearningTyped
    <3> QED
      BY <1>0, <3>1 DEF RunFits, RunShape, ReadFits, RunTyped
  <2> QED
    BY <2>1 DEF LearningInv, RunsFit
<1> QED
  BY <1>1, <1>2, <1>3, <1>4 DEF LearningTyped, LearningTypeOK

\* The campaigns' ages, the outcomes, the row and the runs (historical-learning/).
THEOREM LearningTypeCorrect == LearningSpec => []LearningTypeOK
  BY LearningInitInv, LearningInitTyped, LearningNextInv, LearningTypes, LearningInvTyped, PTL DEF LearningSpec

\* A token that is held, in a tab or in storage, was issued to a user; a login's answer
\* brings one.
Seen == Viewers \cup {Nobody}
TabStates == {"idle", "login", "sent", "refused", "refreshing", "granted", "denied", "retried"}
HeldOf(o, n) == n = Nobody \/ (n \in Pairs /\ o[n] \in Users)
TabTyped(o, r) ==
  /\ r.pc \in TabStates /\ r.user \in Seen /\ r.me \in Seen /\ HeldOf(o, r.sent)
  /\ r.pc = "login" => r.sent # Nobody
StorageTyped(o, s) == HeldOf(o, s.access) /\ HeldOf(o, s.refresh) /\ s.user \in Seen
UsersTyped == account \in [Users -> {"none", "active", "inactive"}] /\ sysadmin \in [Users -> BOOLEAN]
RowsTyped ==
  /\ refreshToken \subseteq [tokenHash : Hashes, userId : Users, revoked : BOOLEAN]
  /\ owner \in [Pairs -> Users \cup {Nobody}] /\ lapsed \subseteq {"access", "refresh"} \X Pairs
SessionTyped ==
  /\ UsersTyped /\ RowsTyped /\ StorageTyped(owner, storage)
  /\ \A t \in Tabs : TabTyped(owner, tab[t])

LEMMA NobodyIsNoToken == Nobody \notin Users /\ \A n \in Pairs : n # Nobody
  BY SessionsAssumption DEF Pairs

\* One tab goes on as r.
LEMMA TabMovesTyped ==
  ASSUME SessionInv, SessionTyped, NEW t \in Tabs, NEW r, tab' = [tab EXCEPT ![t] = r],
         UNCHANGED <<account, sysadmin, refreshToken, owner, lapsed>>, TabTyped(owner, r),
         StorageTyped(owner, storage')
  PROVE  SessionTyped'
<1>1. tab'[t] = r /\ \A u \in Tabs : u # t => tab'[u] = tab[u]
  BY DEF SessionInv
<1>2. \A u \in Tabs : TabTyped(owner, tab'[u])
  BY <1>1 DEF SessionTyped
<1>3. UsersTyped' /\ RowsTyped'
  BY DEF SessionTyped, UsersTyped, RowsTyped
<1> QED
  BY <1>2, <1>3 DEF SessionTyped

LEMMA QuietTyped == TabTyped(owner, Quiet) /\ \A user \in Seen : TabTyped(owner, [Quiet EXCEPT !.user = user])
<1>1. TabTyped(owner, Quiet)
  BY DEF Quiet, TabTyped, HeldOf, Seen, TabStates
<1>2. ASSUME NEW user \in Seen PROVE TabTyped(owner, [Quiet EXCEPT !.user = user])
  <2>1. [Quiet EXCEPT !.user = user] = [pc |-> "idle", user |-> user, sent |-> Nobody, me |-> Nobody]
    BY DEF Quiet
  <2> QED
    BY <2>1 DEF TabTyped, HeldOf, Seen, TabStates
<1> QED
  BY <1>1, <1>2

LEMMA PcSentTyped ==
  ASSUME SessionInv, SessionTyped, NEW t \in Tabs, NEW p \in TabStates, NEW n, HeldOf(owner, n), p # "login"
  PROVE  TabTyped(owner, PcSent(tab[t], p, n))
<1> PICK a, b, c, d : tab[t] = [pc |-> a, user |-> b, sent |-> c, me |-> d]
  BY DEF SessionInv, TabShape
<1> DEFINE x == [tab[t] EXCEPT !.pc = p]
<1>1. PcSent(tab[t], p, n) = [x EXCEPT !.sent = n]
  BY DEF PcSent
<1>2. x = [pc |-> p, user |-> b, sent |-> c, me |-> d]
  OBVIOUS
<1> HIDE DEF x
<1>3. PcSent(tab[t], p, n) = [pc |-> p, user |-> b, sent |-> n, me |-> d]
  BY <1>1, <1>2
<1>4. b \in Seen /\ d \in Seen
  BY DEF SessionTyped, TabTyped
<1> QED
  BY <1>3, <1>4 DEF TabTyped

LEMMA PcTyped ==
  ASSUME SessionInv, SessionTyped, NEW t \in Tabs, NEW p \in TabStates, p # "login"
  PROVE  TabTyped(owner, [tab[t] EXCEPT !.pc = p])
<1> PICK a, b, c, d : tab[t] = [pc |-> a, user |-> b, sent |-> c, me |-> d]
  BY DEF SessionInv, TabShape
<1>1. b \in Seen /\ d \in Seen /\ HeldOf(owner, c)
  BY DEF SessionTyped, TabTyped
<1>2. [tab[t] EXCEPT !.pc = p] = [pc |-> p, user |-> b, sent |-> c, me |-> d]
  OBVIOUS
<1> QED
  BY <1>1, <1>2 DEF TabTyped

LEMMA ServiceTyped ==
  ASSUME SessionInv, SessionTyped, UserRowChanges \/ TokenLapses \/ \E u \in Users : Register(u)
  PROVE  SessionTyped'
<1>1. UNCHANGED <<refreshToken, owner, storage, tab>>
  BY DEF UserRowChanges, TokenLapses, Register
<1>2. UsersTyped'
  BY DEF UserRowChanges, TokenLapses, Register, SessionTyped, UsersTyped
<1>3. lapsed' \subseteq {"access", "refresh"} \X Pairs
  BY DEF UserRowChanges, TokenLapses, Register, SessionTyped, RowsTyped
<1> QED
  BY <1>1, <1>2, <1>3 DEF SessionTyped, RowsTyped

LEMMA LoginTyped ==
  ASSUME SessionInv, SessionTyped, NEW t \in Tabs, NEW u \in Users, Login(t, u)
  PROVE  SessionTyped'
<1>1. PICK n \in Pairs : /\ GenerateTokenPair(n, u, refreshToken)
                         /\ tab' = [tab EXCEPT ![t].pc = "login", ![t].sent = n]
  BY DEF Login
<1>2. UNCHANGED <<account, sysadmin, lapsed, storage>>
  BY DEF Login
<1>3. /\ owner[n] = Nobody /\ owner' = [owner EXCEPT ![n] = u]
      /\ refreshToken' = refreshToken \cup {[tokenHash |-> <<"rawRefreshToken", n>>, userId |-> u, revoked |-> FALSE]}
  BY <1>1 DEF GenerateTokenPair, StoredHash
<1>4. <<"rawRefreshToken", n>> \in Hashes
  BY DEF Hashes
<1>5. RowsTyped' /\ UsersTyped'
  <2> DEFINE row == [tokenHash |-> <<"rawRefreshToken", n>>, userId |-> u, revoked |-> FALSE]
  <2>1. row \in [tokenHash : Hashes, userId : Users, revoked : BOOLEAN]
    BY <1>4
  <2> HIDE DEF row
  <2>2. refreshToken' \subseteq [tokenHash : Hashes, userId : Users, revoked : BOOLEAN]
    BY <1>3, <2>1 DEF row, SessionTyped, RowsTyped
  <2>3. owner' \in [Pairs -> Users \cup {Nobody}]
    BY <1>3 DEF SessionTyped, RowsTyped
  <2>4. UsersTyped' /\ lapsed' \subseteq {"access", "refresh"} \X Pairs
    BY <1>2 DEF SessionTyped, RowsTyped, UsersTyped
  <2> QED
    BY <2>2, <2>3, <2>4 DEF RowsTyped
<1>6. owner'[n] = u /\ \A m \in Pairs : owner[m] \in Users => owner'[m] = owner[m]
  BY <1>3, NobodyIsNoToken DEF SessionTyped, RowsTyped
<1>7. \A m : HeldOf(owner, m) => HeldOf(owner', m)
  BY <1>6 DEF HeldOf
<1>8. \A r : TabTyped(owner, r) => TabTyped(owner', r)
  BY <1>7 DEF TabTyped
<1>9. StorageTyped(owner', storage')
  BY <1>2, <1>7 DEF SessionTyped, StorageTyped
<1>10. ASSUME NEW s \in Tabs PROVE TabTyped(owner', tab'[s])
  <2>1. tab' = [tab EXCEPT ![t] = PcSent(tab[t], "login", n)]
    <3>1. tab' = Writes(t, "login", n)
      BY <1>1 DEF Writes
    <3> QED
      BY <3>1, TwoTabFields
  <2>2. CASE s # t
    BY <1>8, <2>1, <2>2 DEF SessionInv, SessionTyped
  <2>3. CASE s = t
    <3> PICK a, b, c, d : tab[t] = [pc |-> a, user |-> b, sent |-> c, me |-> d]
      BY DEF SessionInv, TabShape
    <3> DEFINE x == [tab[t] EXCEPT !.pc = "login"]
    <3>1. PcSent(tab[t], "login", n) = [x EXCEPT !.sent = n]
      BY DEF PcSent
    <3>2. x = [pc |-> "login", user |-> b, sent |-> c, me |-> d]
      OBVIOUS
    <3> HIDE DEF x
    <3>3. tab'[t] = [pc |-> "login", user |-> b, sent |-> n, me |-> d]
      BY <2>1, <3>1, <3>2 DEF SessionInv
    <3>4. b \in Seen /\ d \in Seen
      BY DEF SessionTyped, TabTyped
    <3>5. HeldOf(owner', n) /\ n # Nobody
      BY <1>6, NobodyIsNoToken DEF HeldOf
    <3> QED
      BY <2>3, <3>3, <3>4, <3>5 DEF TabTyped, TabStates
  <2> QED
    BY <2>2, <2>3
<1> QED
  BY <1>5, <1>9, <1>10 DEF SessionTyped

LEMMA StoreLoginTyped ==
  ASSUME SessionInv, SessionTyped, NEW t \in Tabs, StoreLogin(t)
  PROVE  SessionTyped'
<1> DEFINE n == tab[t].sent
           seen == [sub |-> owner[n], isSystemAdmin |-> sysadmin[owner[n]]]
<1>1. /\ storage' = [access |-> n, refresh |-> n, user |-> seen] /\ tab[t].pc = "login"
      /\ tab' = [tab EXCEPT ![t] = [Quiet EXCEPT !.user = seen]]
      /\ UNCHANGED <<account, sysadmin, refreshToken, owner, lapsed>>
  BY DEF StoreLogin
<1>2. HeldOf(owner, n) /\ n # Nobody
  BY <1>1 DEF SessionTyped, TabTyped
<1>3. owner[n] \in Users
  BY <1>2 DEF HeldOf
<1>4. seen \in Seen
  BY <1>3 DEF SessionTyped, UsersTyped, Seen, Viewers
<1>5. StorageTyped(owner, storage')
  BY <1>1, <1>2, <1>4 DEF StorageTyped
<1>6. TabTyped(owner, [Quiet EXCEPT !.user = seen])
  BY <1>4, QuietTyped
<1> DEFINE r == [Quiet EXCEPT !.user = seen]
<1> HIDE DEF r, n
<1> QED
  BY <1>1, <1>5, <1>6, TabMovesTyped DEF r

\* The steps of a tab that leave storage and the rows alone.
LEMMA QuietTabTyped ==
  ASSUME SessionInv, SessionTyped, NEW t \in Tabs,
         LoginLost(t) \/ Load(t) \/ Call(t) \/ TryRefresh(t) \/ RefreshLost(t) \/ Refresh(t)
  PROVE  SessionTyped'
<1>1. \A n : RowOf(n) = {}
  BY DEF RowOf, SessionInv, HashedRaw
<1>2. UNCHANGED <<account, sysadmin, refreshToken, owner, lapsed, storage>>
  BY <1>1 DEF LoginLost, Load, Call, TryRefresh, RefreshLost, Refresh
<1>3. StorageTyped(owner, storage) /\ StorageTyped(owner, storage')
  BY <1>2 DEF SessionTyped
<1>4. PICK r : tab' = [tab EXCEPT ![t] = r] /\ TabTyped(owner, r)
  <2>1. CASE LoginLost(t)
    <3>1. tab' = Writes(t, "idle", Nobody)
      BY <2>1 DEF LoginLost, Writes
    <3>2. TabTyped(owner, PcSent(tab[t], "idle", Nobody))
      BY PcSentTyped DEF HeldOf, TabStates
    <3> QED
      BY <3>1, <3>2, TwoTabFields
  <2>2. CASE Load(t)
    <3> DEFINE r == [pc |-> "sent", user |-> storage.user, sent |-> storage.access, me |-> storage.user]
    <3>1. tab' = [tab EXCEPT ![t] = Quiet] \/ tab' = [tab EXCEPT ![t] = r]
      BY <2>2 DEF Load
    <3>2. TabTyped(owner, r)
      BY <1>3 DEF StorageTyped, TabTyped, TabStates
    <3> HIDE DEF r
    <3> QED
      BY <3>1, <3>2, QuietTyped
  <2>3. CASE Call(t)
    <3>1. tab' = Writes(t, "sent", storage.access)
      BY <2>3 DEF Call, Writes
    <3>2. TabTyped(owner, PcSent(tab[t], "sent", storage.access))
      BY <1>3, PcSentTyped DEF StorageTyped, TabStates
    <3> QED
      BY <3>1, <3>2, TwoTabFields
  <2>4. CASE TryRefresh(t)
    <3>1. tab' = [tab EXCEPT ![t] = Quiet] \/ tab' = [tab EXCEPT ![t] = PcSent(tab[t], "refreshing", storage.refresh)]
      BY <2>4 DEF TryRefresh, PcSent
    <3>2. TabTyped(owner, PcSent(tab[t], "refreshing", storage.refresh))
      BY <1>3, PcSentTyped DEF StorageTyped, TabStates
    <3> QED
      BY <3>1, <3>2, QuietTyped
  <2>5. CASE RefreshLost(t) \/ Refresh(t)
    <3>1. tab' = [tab EXCEPT ![t] = [tab[t] EXCEPT !.pc = "denied"]]
      BY <1>1, <2>5 DEF RefreshLost, Refresh
    <3>2. TabTyped(owner, [tab[t] EXCEPT !.pc = "denied"])
      BY PcTyped DEF TabStates
    <3> QED
      BY <3>1, <3>2
  <2> QED
    BY <2>1, <2>2, <2>3, <2>4, <2>5
<1> QED
  BY <1>2, <1>3, <1>4, TabMovesTyped

\* The user an answer leaves in the tab.
UserAnswered(t) ==
  LET flag == sysadmin[owner[tab[t].sent]]
  IN IF tab[t].me # Nobody /\ tab[t].me.isSystemAdmin # flag THEN [tab[t].me EXCEPT !.isSystemAdmin = flag] ELSE tab[t].user

LEMMA AnswerTyped ==
  ASSUME SessionInv, SessionTyped, NEW t \in Tabs, Answer(t)
  PROVE  SessionTyped'
<1>1. UNCHANGED <<account, sysadmin, refreshToken, owner, lapsed>>
  BY DEF Answer
<1>2. tab[t].user \in Seen /\ StorageTyped(owner, storage)
  BY DEF SessionTyped, TabTyped
<1>3. CASE ~Admitted(tab[t].sent)
  <2>1. UNCHANGED storage /\ \/ tab' = [tab EXCEPT ![t] = [tab[t] EXCEPT !.pc = "refused"]]
                             \/ tab' = [tab EXCEPT ![t] = [Quiet EXCEPT !.user = tab[t].user]]
    BY <1>3 DEF Answer
  <2>2. TabTyped(owner, [tab[t] EXCEPT !.pc = "refused"])
    BY PcTyped DEF TabStates
  <2>3. TabTyped(owner, [Quiet EXCEPT !.user = tab[t].user])
    BY <1>2, QuietTyped
  <2>4. PICK r : tab' = [tab EXCEPT ![t] = r] /\ TabTyped(owner, r)
    BY <2>1, <2>2, <2>3
  <2>5. StorageTyped(owner, storage')
    BY <1>2, <2>1
  <2> QED
    BY <1>1, <2>4, <2>5, TabMovesTyped
<1>4. CASE Admitted(tab[t].sent)
  <2>1. /\ tab' = [tab EXCEPT ![t] = [Quiet EXCEPT !.user = UserAnswered(t)]]
        /\ storage' = storage \/ storage' = [storage EXCEPT !.user = UserAnswered(t)]
    BY <1>4 DEF Answer, UserAnswered
  <2>2. tab[t].sent \in Pairs /\ owner[tab[t].sent] \in Users
    BY <1>4 DEF Admitted, SessionTyped, TabTyped, HeldOf
  <2>3. UserAnswered(t) \in Seen
    <3>1. sysadmin[owner[tab[t].sent]] \in BOOLEAN
      BY <2>2 DEF SessionTyped, UsersTyped
    <3>2. tab[t].me \in Seen
      BY DEF SessionTyped, TabTyped
    <3>3. tab[t].me # Nobody => \A f \in BOOLEAN : [tab[t].me EXCEPT !.isSystemAdmin = f] \in Viewers
      BY <3>2 DEF Seen, Viewers
    <3> QED
      BY <1>2, <3>1, <3>3 DEF UserAnswered, Seen
  <2>4. TabTyped(owner, [Quiet EXCEPT !.user = UserAnswered(t)])
    BY <2>3, QuietTyped
  <2>5. StorageTyped(owner, storage')
    <3> PICK a, b, c : storage = [access |-> a, refresh |-> b, user |-> c]
      BY DEF SessionInv, StorageShape
    <3>1. HeldOf(owner, a) /\ HeldOf(owner, b)
      BY <1>2 DEF StorageTyped
    <3>2. [storage EXCEPT !.user = UserAnswered(t)] = [access |-> a, refresh |-> b, user |-> UserAnswered(t)]
      OBVIOUS
    <3> QED
      BY <1>2, <2>1, <2>3, <3>1, <3>2 DEF StorageTyped
  <2> DEFINE r == [Quiet EXCEPT !.user = UserAnswered(t)]
  <2> HIDE DEF r
  <2> QED
    BY <1>1, <2>1, <2>4, <2>5, TabMovesTyped DEF r
<1> QED
  BY <1>3, <1>4

LEMMA RefreshedTyped ==
  ASSUME SessionInv, SessionTyped, NEW t \in Tabs, Refreshed(t)
  PROVE  SessionTyped'
<1>1. tab[t].pc = "denied"
  BY DEF Refreshed, SessionInv
<1>2. /\ storage' = [storage EXCEPT !.access = Nobody, !.refresh = Nobody]
      /\ tab' = [tab EXCEPT ![t] = Quiet] /\ UNCHANGED <<account, sysadmin, refreshToken, owner, lapsed>>
  BY <1>1 DEF Refreshed
<1>3. StorageTyped(owner, storage')
  <2> PICK a, b, c : storage = [access |-> a, refresh |-> b, user |-> c]
    BY DEF SessionInv, StorageShape
  <2> DEFINE x == [storage EXCEPT !.access = Nobody]
  <2>1. storage' = [x EXCEPT !.refresh = Nobody]
    BY <1>2
  <2>2. x = [access |-> Nobody, refresh |-> b, user |-> c]
    OBVIOUS
  <2> HIDE DEF x
  <2>3. storage' = [access |-> Nobody, refresh |-> Nobody, user |-> c]
    BY <2>1, <2>2
  <2>4. c \in Seen
    BY DEF SessionTyped, StorageTyped
  <2> QED
    BY <2>3, <2>4 DEF StorageTyped, HeldOf
<1> QED
  BY <1>2, <1>3, QuietTyped, TabMovesTyped

LEMMA SignOutTyped ==
  ASSUME SessionInv, SessionTyped, NEW t \in Tabs, SignOut(t)
  PROVE  SessionTyped'
<1>1. /\ storage' = [access |-> Nobody, refresh |-> Nobody, user |-> Nobody]
      /\ tab' = [tab EXCEPT ![t] = [tab[t] EXCEPT !.user = Nobody]]
      /\ UNCHANGED <<account, sysadmin, refreshToken, owner, lapsed>>
  BY DEF SignOut
<1>2. StorageTyped(owner, storage')
  BY <1>1 DEF StorageTyped, HeldOf, Seen
<1> PICK a, b, c, d : tab[t] = [pc |-> a, user |-> b, sent |-> c, me |-> d]
  BY DEF SessionInv, TabShape
<1> DEFINE r == [pc |-> a, user |-> Nobody, sent |-> c, me |-> d]
<1>3. [tab[t] EXCEPT !.user = Nobody] = r
  OBVIOUS
<1>4. TabTyped(owner, r)
  BY DEF SessionTyped, TabTyped, Seen
<1> HIDE DEF r
<1> QED
  BY <1>1, <1>2, <1>3, <1>4, TabMovesTyped

LEMMA SessionTypes == SessionInv /\ SessionTyped /\ [SessionNext]_sessionVars => SessionTyped'
<1> SUFFICES ASSUME SessionInv, SessionTyped, [SessionNext]_sessionVars PROVE SessionTyped'
  OBVIOUS
<1>1. CASE UNCHANGED sessionVars
  BY <1>1 DEF sessionVars, SessionTyped, UsersTyped, RowsTyped
<1> QED
  BY <1>1, ServiceTyped, LoginTyped, StoreLoginTyped, QuietTabTyped, AnswerTyped, RefreshedTyped, SignOutTyped
     DEF SessionNext

LEMMA SessionInitTyped == SessionInit => SessionTyped
<1> SUFFICES ASSUME SessionInit PROVE SessionTyped
  OBVIOUS
<1>1. UsersTyped /\ RowsTyped
  BY DEF SessionInit, UsersTyped, RowsTyped
<1>2. StorageTyped(owner, storage)
  BY DEF SessionInit, StorageTyped, HeldOf, Seen
<1>3. \A t \in Tabs : TabTyped(owner, tab[t])
  BY QuietTyped DEF SessionInit
<1> QED
  BY <1>1, <1>2, <1>3 DEF SessionTyped

LEMMA SessionInvTyped == SessionInv /\ SessionTyped => SessionTypeOK
<1> SUFFICES ASSUME SessionInv, SessionTyped PROVE SessionTypeOK
  OBVIOUS
<1>1. storage \in [access : Token, refresh : Token, user : Viewers \cup {Nobody}]
  BY DEF SessionInv, StorageShape, SessionTyped, StorageTyped, HeldOf, Token, Seen
<1>2. ASSUME NEW t \in Tabs PROVE tab[t] \in TabRows
  <2>1. TabShape(tab[t]) /\ TabTyped(owner, tab[t])
    BY DEF SessionInv, SessionTyped
  <2> QED
    BY <2>1 DEF TabShape, TabTyped, TabRows, TabStates, HeldOf, Token, Seen
<1>3. tab \in [Tabs -> TabRows]
  BY <1>2 DEF SessionInv
<1> QED
  BY <1>1, <1>3 DEF SessionTyped, UsersTyped, RowsTyped, SessionTypeOK

\* The users and token rows, and a browser whose every token was issued to a user
\* (auth.service.ts, lib/api/client.ts 37-58).
THEOREM SessionTypeCorrect == SessionSpec => []SessionTypeOK
<1>1. SessionInv /\ [SessionNext]_sessionVars => SessionInv'
  BY SessionStepHolds
<1> QED
  BY <1>1, SessionInitInv, SessionInitTyped, SessionTypes, SessionInvTyped, PTL DEF SessionSpec

=============================================================================
