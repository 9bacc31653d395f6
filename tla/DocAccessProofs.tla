--------------------------- MODULE DocAccessProofs ---------------------------
(***************************************************************************)
(* Proofs about DocAccess, for any number of users and requests: the       *)
(* types, that nobody becomes an owner out of nothing, that a document     *)
(* without owners stays without, and that otherwise it has the one owner   *)
(* it names; and that the sharing panel shows the roles as they are.  For  *)
(* the one owner, the invariant follows every transfer through its three   *)
(* parallel writes, and every other request from what it has read of the   *)
(* owner to what it writes; for the panel, every request of the panel from *)
(* the row it concerns to what its answer will make the panel show.        *)
(***************************************************************************)
EXTENDS DocAccess, TLAPS

-----------------------------------------------------------------------------
(* The requests and the panel keep their types.                            *)

Maybe == Request \cup {Idle}

\* A request that is not idle is one.
LEMMA InFlightType ==
  ASSUME TypeOK, NEW r \in Requests, reqs[r].pc # "idle"
  PROVE  reqs[r] \in Request
BY DEF TypeOK, Idle

LEMMA NewType ==
  ASSUME NEW kind \in Kinds, NEW u \in Users, NEW t \in Users,
         NEW new \in Given
  PROVE  /\ New(kind, u, t, new) \in Request
         /\ [New(kind, u, t, new) EXCEPT !.mine = TRUE] \in Request
         /\ \A pc \in {"check", "read", "write"} :
              /\ [New(kind, u, t, new) EXCEPT !.pc = pc] \in Request
              /\ \A exact \in BOOLEAN :
                   [New(kind, u, t, new) EXCEPT !.pc = pc, !.exact = exact]
                     \in Request
BY DEF New, Request, Rows, NoRows, Roles, NoRole

LEMMA AnsweredType ==
  ASSUME NEW q \in Request, NEW ok \in BOOLEAN
  PROVE  Answered(q, ok) \in Maybe
BY DEF Answered, Maybe, Request

LEMMA UnmountedType ==
  ASSUME NEW q \in Request
  PROVE  Unmounted(q) \in Maybe
BY DEF Unmounted, Maybe, Request

LEMMA SettledType ==
  ASSUME NEW q \in Request, NEW w \in Writes
  PROVE  Settled(q, w) \in Maybe
<1> DEFINE left == [q EXCEPT !.pending = q.pending \ {w}]
<1>1. left \in Request
  BY DEF Request
<1>2. Answered(left, q.pc = "write") \in Maybe
  BY <1>1, AnsweredType
<1> QED BY <1>1, <1>2 DEF Settled, Maybe

\* One request changes.
LEMMA UpdateType ==
  ASSUME TypeOK, NEW r \in Requests, NEW q \in Maybe,
         reqs' = [reqs EXCEPT ![r] = q]
  PROVE  reqs' \in [Requests -> Maybe]
BY DEF TypeOK, Maybe

LEMMA TypeOKSplit ==
  TypeOK <=> /\ owner \in Users \cup {None}
             /\ role \in Rows
             /\ reqs \in [Requests -> Maybe]
             /\ panel \in Panel
             /\ calm \in BOOLEAN
             /\ sharing \in 0..MaxSharing
             /\ failures \in 0..MaxFailures
BY DEF TypeOK, Maybe

LEMMA SeenType ==
  ASSUME TypeOK, NEW r \in Requests, Seen(r)
  PROVE  panel' \in Panel
BY DEF TypeOK, Seen, Panel

LEMMA ClosedType == Closed \in Panel
BY DEF Closed, Panel, Rows, NoRows, Roles, NoRole

LEMMA ShownType ==
  ASSUME TypeOK, NEW q \in Request
  PROVE  Shown(q) \in Rows
<1>1. panel.list \in Rows
  BY DEF TypeOK, Panel
<1>2. /\ q.rows \in Rows /\ q.role \in Roles \cup {NoRole}
      /\ q.target \in Users
  BY DEF Request, Given, Roles
<1>3. \A u \in Users, new \in Roles \cup {NoRole} :
        [panel.list EXCEPT ![u] = new] \in Rows
  BY <1>1 DEF Rows
<1>4. \A new \in Roles : (IF panel.list[q.target] = NoRole THEN NoRole
                          ELSE new) \in Roles \cup {NoRole}
  OBVIOUS
<1>5. [panel.list EXCEPT ![Me] = IF panel.list[Me] = NoRole THEN NoRole
                                 ELSE "editor"] \in Rows
  BY <1>3, MeIsUser DEF Roles
<1>6. [panel.list EXCEPT
         ![Me] = IF panel.list[Me] = NoRole THEN NoRole ELSE "editor",
         ![q.target] = IF panel.list[q.target] = NoRole THEN NoRole
                       ELSE "owner"] \in Rows
  BY <1>2, <1>5 DEF Rows, Roles
<1>7. [panel.list EXCEPT ![q.target] =
         IF panel.list[q.target] = NoRole THEN NoRole ELSE q.role] \in Rows
  BY <1>2, <1>3, <1>4
<1>8. [panel.list EXCEPT ![q.target] = NoRole] \in Rows
  BY <1>2, <1>3
<1>9. [panel.list EXCEPT ![q.target] = q.role] \in Rows
  BY <1>2, <1>3
<1> QED BY <1>2, <1>6, <1>7, <1>8, <1>9 DEF Shown

LEMMA ToldType ==
  ASSUME TypeOK, NEW q \in Request, NEW ok \in BOOLEAN
  PROVE  Told(q, ok) \in Panel
<1> DEFINE list == IF ok THEN Shown(q) ELSE panel.list
           updating == IF q.kind \in {"list", "invite"} THEN panel.updating
                       ELSE None
           busy == panel.busy /\ q.kind # "invite"
           sole == panel.sole /\ (ok \/ q.kind # "list")
<1>1. panel \in Panel
  BY DEF TypeOK
<1>2. list \in Rows /\ updating \in Users \cup {None}
  BY <1>1, ShownType DEF Panel
<1>3. busy \in BOOLEAN /\ sole \in BOOLEAN
  OBVIOUS
<1>4. Told(q, ok) = [panel EXCEPT !.list = list, !.updating = updating,
                                  !.busy = busy, !.sole = sole]
  BY Zenon DEF Told
<1> HIDE DEF list, updating, busy, sole
<1> QED BY <1>1, <1>2, <1>3, <1>4 DEF Panel

\* A role written to a row, by a route or by a transfer.
LEMMA RoleWritten ==
  ASSUME TypeOK, NEW u, NEW new \in Roles \cup {NoRole}
  PROVE  [role EXCEPT ![u] = new] \in Rows
BY DEF TypeOK, Rows

LEMMA NewRoleType ==
  ASSUME TypeOK, NEW q \in Request
  PROVE  NewRole(q) \in Given \cup {NoRole}
BY DEF NewRole, Request

LEMMA TransferEffectType ==
  ASSUME TypeOK, NEW q \in Request, NEW w \in Writes,
         TransferEffect(q, w)
  PROVE  owner' \in Users \cup {None} /\ role' \in Rows
<1>1. q.target \in Users
  BY DEF Request
<1>2. /\ [role EXCEPT ![q.previous] = "editor"] \in Rows
      /\ [role EXCEPT ![q.target] = "owner"] \in Rows
  BY <1>1, RoleWritten DEF Roles
<1> QED BY <1>1, <1>2 DEF TransferEffect, TypeOK, Writes

-----------------------------------------------------------------------------
(* Every handler keeps the types.                                          *)

LEMMA AnswerType ==
  ASSUME TypeOK, NEW r \in Requests, reqs[r].pc # "idle",
         NEW ok \in BOOLEAN, Answer(r, ok)
  PROVE  reqs' \in [Requests -> Maybe]
BY InFlightType, AnsweredType, UpdateType DEF Answer

LEMMA GotoType ==
  ASSUME TypeOK, NEW r \in Requests, reqs[r].pc # "idle",
         NEW pc \in {"read", "target", "write"}, Goto(r, pc)
  PROVE  reqs' \in [Requests -> Maybe]
<1> DEFINE q == [reqs[r] EXCEPT !.pc = pc]
<1>1. q \in Maybe
  BY InFlightType DEF Request, Maybe
<1>2. reqs' = [reqs EXCEPT ![r] = q]
  BY DEF Goto
<1> HIDE DEF q
<1> QED BY <1>1, <1>2, UpdateType

LEMMA FirstCallType ==
  ASSUME NEW kind
  PROVE  FirstCall(kind) \in {"read", "write"}
BY DEF FirstCall

LEMMA CreateType ==
  ASSUME TypeOK, NEW r \in Requests, NEW u \in Users, Create(r, u)
  PROVE  TypeOK'
<1>1. [New("create", u, u, "viewer") EXCEPT !.pc = "write"] \in Maybe
  BY NewType DEF Kinds, Given, Maybe
<1>2. reqs' \in [Requests -> Maybe]
  BY <1>1, UpdateType DEF Create
<1> QED BY <1>2, TypeOKSplit DEF Create, counts, TypeOK, Maybe

LEMMA CreatePermissionType ==
  ASSUME TypeOK, NEW r \in Requests, CreatePermission(r)
  PROVE  TypeOK'
<1>1. reqs[r].pc = "write"
  BY DEF CreatePermission, At
<1>2. reqs' \in [Requests -> Maybe]
  BY <1>1, AnswerType DEF CreatePermission
<1>3. role' \in Rows
  BY RoleWritten DEF CreatePermission, Roles
<1>4. panel' \in Panel
  BY SeenType DEF CreatePermission
<1> QED BY <1>2, <1>3, <1>4 DEF CreatePermission, counts, TypeOK, Maybe

LEMMA AskType ==
  ASSUME TypeOK, NEW r \in Requests, NEW kind \in Kinds, NEW u \in Users,
         NEW t \in Users, NEW new \in Given, NEW exact \in BOOLEAN,
         Ask(r, kind, u, t, new, exact)
  PROVE  TypeOK'
<1>1. [New(kind, u, t, new) EXCEPT !.pc = FirstCall(kind), !.exact = exact]
        \in Maybe
  BY NewType, FirstCallType DEF Maybe
<1>2. reqs' \in [Requests -> Maybe]
  BY <1>1, UpdateType DEF Ask
<1>3. sharing' \in 0..MaxSharing
  BY BoundsAreNumbers DEF Ask, TypeOK
<1>4. calm' \in BOOLEAN
  BY DEF Ask, TypeOK
<1> QED BY <1>2, <1>3, <1>4 DEF Ask, TypeOK, Maybe

LEMMA CheckType ==
  ASSUME TypeOK, NEW r \in Requests, Check(r)
  PROVE  TypeOK'
<1>1. reqs[r].pc = "check"
  BY DEF Check
<1>2. reqs' \in [Requests -> Maybe]
  BY <1>1, AnswerType, GotoType, FirstCallType DEF Check
<1> QED BY <1>2 DEF Check, counts, TypeOK, Maybe

LEMMA ReadStepType ==
  ASSUME TypeOK, NEW r \in Requests, Read(r)
  PROVE  TypeOK'
<1>1. reqs[r].pc = "read"
  BY DEF Read
<1> DEFINE q == [[reqs[r] EXCEPT !.pc = "target"] EXCEPT !.previous = owner]
<1>2. CASE reqs' = [reqs EXCEPT ![r].pc = "target", ![r].previous = owner]
  <2>1. q \in Maybe
    <3>1. reqs[r] \in Request /\ owner \in Users \cup {None}
      BY <1>1, InFlightType DEF TypeOK
    <3> QED BY <3>1 DEF Request, Maybe
  <2>2. reqs' = [reqs EXCEPT ![r] = q]
    BY <1>2 DEF TypeOK
  <2> HIDE DEF q
  <2>3. reqs' \in [Requests -> Maybe]
    BY <2>1, <2>2, UpdateType
  <2> QED BY <2>3 DEF Read, counts, TypeOK, Maybe
<1>3. CASE Answer(r, FALSE) \/ Goto(r, "write")
  <2>1. reqs' \in [Requests -> Maybe]
    BY <1>1, <1>3, AnswerType, GotoType
  <2> QED BY <2>1 DEF Read, counts, TypeOK, Maybe
<1> QED BY <1>2, <1>3 DEF Read

LEMMA ReadTargetType ==
  ASSUME TypeOK, NEW r \in Requests, ReadTarget(r)
  PROVE  TypeOK'
<1>1. reqs[r].pc = "target"
  BY DEF ReadTarget
<1> DEFINE q == [[reqs[r] EXCEPT !.pc = "write"] EXCEPT !.pending = Writes]
<1>2. CASE reqs' = [reqs EXCEPT ![r].pc = "write", ![r].pending = Writes]
  <2>1. q \in Maybe
    <3>1. reqs[r] \in Request /\ owner \in Users \cup {None}
      BY <1>1, InFlightType DEF TypeOK
    <3> QED BY <3>1 DEF Request, Maybe
  <2>2. reqs' = [reqs EXCEPT ![r] = q]
    BY <1>2 DEF TypeOK
  <2> HIDE DEF q
  <2>3. reqs' \in [Requests -> Maybe]
    BY <2>1, <2>2, UpdateType
  <2> QED BY <2>3 DEF ReadTarget, counts, TypeOK, Maybe
<1>3. CASE Answer(r, FALSE)
  <2>1. reqs' \in [Requests -> Maybe]
    BY <1>1, <1>3, AnswerType
  <2> QED BY <2>1 DEF ReadTarget, counts, TypeOK, Maybe
<1> QED BY <1>2, <1>3 DEF ReadTarget

LEMMA WriteRoleType ==
  ASSUME TypeOK, NEW r \in Requests, WriteRole(r) \/ AnswerLost(r)
  PROVE  TypeOK'
<1>1. reqs[r].pc = "write" /\ reqs[r] \in Request
  BY InFlightType DEF WriteRole, AnswerLost, At
<1>2. reqs' \in [Requests -> Maybe]
  BY <1>1, AnswerType DEF WriteRole, AnswerLost
<1>3. role' \in Rows
  <2>1. NewRole(reqs[r]) \in Roles \cup {NoRole}
    BY <1>1, NewRoleType DEF Given, Roles
  <2>2. role' = [role EXCEPT ![reqs[r].target] = NewRole(reqs[r])]
    BY Zenon DEF WriteRole, AnswerLost
  <2> QED BY <2>1, <2>2, RoleWritten
<1>4. panel' \in Panel
  <2>1. [panel EXCEPT !.sole = FALSE] \in Panel
    BY DEF TypeOK, Panel
  <2> QED BY <2>1, SeenType DEF WriteRole, AnswerLost
<1>5. calm' \in BOOLEAN
  BY DEF WriteRole, AnswerLost, TypeOK
<1>6. failures' \in 0..MaxFailures /\ sharing' = sharing /\ owner' = owner
  <2>1. /\ sharing' = sharing /\ owner' = owner
        /\ \/ failures' = failures
           \/ failures < MaxFailures /\ failures' = failures + 1
    BY Zenon DEF WriteRole, AnswerLost, counts
  <2> QED BY <2>1, BoundsAreNumbers DEF TypeOK
<1> QED BY <1>2, <1>3, <1>4, <1>5, <1>6 DEF TypeOK, Maybe

LEMMA ReadRowsType ==
  ASSUME TypeOK, NEW r \in Requests, ReadRows(r)
  PROVE  TypeOK'
<1> DEFINE q == [reqs[r] EXCEPT !.rows = role]
<1>1. reqs[r] \in Request
  BY InFlightType DEF ReadRows, At
<1>2. q \in Request
  BY <1>1 DEF Request, TypeOK
<1>3. reqs' = [reqs EXCEPT ![r] = Answered(q, TRUE)]
  BY DEF ReadRows
<1> HIDE DEF q
<1>4. reqs' \in [Requests -> Maybe]
  BY <1>2, <1>3, AnsweredType, UpdateType
<1> QED BY <1>4 DEF ReadRows, counts, TypeOK, Maybe

LEMMA TransferWriteType ==
  ASSUME TypeOK, NEW r \in Requests, NEW w \in Writes,
         TransferWrite(r, w) \/ TransferWriteFails(r, w)
  PROVE  TypeOK'
<1>1. reqs[r] \in Request
  BY InFlightType DEF TransferWrite, TransferWriteFails
<1>2. reqs' \in [Requests -> Maybe]
  <2> DEFINE q == [reqs[r] EXCEPT !.pending = reqs[r].pending \ {w}]
  <2>1. q \in Request
    BY <1>1 DEF Request
  <2>2. \/ reqs' = [reqs EXCEPT ![r] = Answered(q, FALSE)]
        \/ reqs' = [reqs EXCEPT ![r] = Settled(reqs[r], w)]
    BY DEF TransferWrite, TransferWriteFails
  <2> HIDE DEF q
  <2> QED BY <1>1, <2>1, <2>2, AnsweredType, SettledType, UpdateType
<1>3. owner' \in Users \cup {None} /\ role' \in Rows
  <2>1. owner \in Users \cup {None} /\ role \in Rows
    BY DEF TypeOK
  <2> QED BY <1>1, <2>1, TransferEffectType
          DEF TransferWrite, TransferWriteFails
<1>4. panel' \in Panel
  <2>1. [panel EXCEPT !.sole = FALSE] \in Panel
    BY DEF TypeOK, Panel
  <2> QED BY <2>1, SeenType DEF TransferWrite, TransferWriteFails
<1>5. calm' \in BOOLEAN
  BY DEF TransferWrite, TransferWriteFails, TypeOK
<1>6. failures' \in 0..MaxFailures /\ sharing' = sharing
  <2>1. /\ sharing' = sharing
        /\ \/ failures' = failures
           \/ failures < MaxFailures /\ failures' = failures + 1
    BY Zenon DEF TransferWrite, TransferWriteFails, counts
  <2> QED BY <2>1, BoundsAreNumbers DEF TypeOK
<1> QED BY <1>2, <1>3, <1>4, <1>5, <1>6 DEF TypeOK, Maybe

LEMMA CallFailsType ==
  ASSUME TypeOK, NEW r \in Requests, CallFails(r)
  PROVE  TypeOK'
<1>1. reqs' \in [Requests -> Maybe]
  BY AnswerType DEF CallFails
<1>2. calm' \in BOOLEAN
  BY DEF CallFails, TypeOK
<1>3. failures' \in 0..MaxFailures
  BY BoundsAreNumbers DEF CallFails, TypeOK
<1> QED BY <1>1, <1>2, <1>3 DEF CallFails, TypeOK, Maybe

LEMMA PageType ==
  ASSUME TypeOK, LoadPage \/ ClosePanel \/ \E r \in Requests : OpenPanel(r)
  PROVE  TypeOK'
<1>1. \A o \in BOOLEAN : [Closed EXCEPT !.isOwner = o] \in Panel
  BY ClosedType DEF Panel
<1>2. panel.isOwner \in BOOLEAN /\ (role[Me] = "owner") \in BOOLEAN
  BY DEF TypeOK, Panel
<1>3. CASE LoadPage
  BY <1>1, <1>2, <1>3 DEF LoadPage, counts, TypeOK
<1>4. CASE ClosePanel
  <2>1. \A r \in InFlight : Unmounted(reqs[r]) \in Maybe
    BY InFlightType, UnmountedType DEF InFlight
  <2>2. \A r \in Requests : reqs[r] \in Maybe
    BY DEF TypeOK, Maybe
  <2>3. reqs' \in [Requests -> Maybe]
    BY <1>4, <2>1, <2>2 DEF ClosePanel
  <2> QED BY <1>1, <1>2, <1>4, <2>3 DEF ClosePanel, counts, TypeOK, Maybe
<1>5. CASE \E r \in Requests : OpenPanel(r)
  <2> PICK r \in Requests : OpenPanel(r)
    BY <1>5
  <2>1. [New("list", Me, Me, "viewer") EXCEPT !.mine = TRUE] \in Maybe
    BY NewType, MeIsUser DEF Kinds, Given, Maybe
  <2>2. reqs' \in [Requests -> Maybe]
    BY <2>1, UpdateType DEF OpenPanel
  <2>3. [Closed EXCEPT !.open = TRUE, !.sole = TRUE,
                       !.isOwner = panel.isOwner] \in Panel
    BY <1>2, ClosedType DEF Panel
  <2> QED BY <2>2, <2>3 DEF OpenPanel, counts, TypeOK, Maybe
<1> QED BY <1>3, <1>4, <1>5

LEMMA SendType ==
  ASSUME TypeOK, NEW r \in Requests, NEW kind \in Kinds, NEW t \in Users,
         NEW new \in Given, Send(r, kind, t, new)
  PROVE  TypeOK'
<1>1. [New(kind, Me, t, new) EXCEPT !.mine = TRUE] \in Maybe
  BY NewType, MeIsUser DEF Maybe
<1>2. reqs' \in [Requests -> Maybe]
  BY <1>1, UpdateType DEF Send
<1>3. sharing' \in 0..MaxSharing
  BY BoundsAreNumbers DEF Send, TypeOK
<1>4. calm' \in BOOLEAN
  BY DEF Send, TypeOK
<1>5. panel' \in Panel
  <2> DEFINE quiet == \A s \in Mine : /\ reqs[s].target # t
                                      /\ reqs[s].kind # "list"
  <2>1. panel' = [panel EXCEPT
          !.updating = IF kind = "invite" THEN panel.updating ELSE t,
          !.busy = (panel.busy \/ kind = "invite"),
          !.sole = panel.sole /\ quiet]
    BY DEF Send
  <2>2. quiet \in BOOLEAN
    OBVIOUS
  <2> HIDE DEF quiet
  <2>3. panel \in Panel
    BY DEF TypeOK
  <2> QED BY <2>1, <2>2, <2>3 DEF Panel
<1> QED BY <1>2, <1>3, <1>4, <1>5 DEF Send, TypeOK, Maybe

LEMMA ReceiveType ==
  ASSUME TypeOK, NEW r \in Requests, Receive(r)
  PROVE  TypeOK'
<1>1. reqs[r] \in Request
  BY InFlightType DEF Receive
<1>2. [[reqs[r] EXCEPT !.pc = "over"] EXCEPT !.mine = FALSE] \in Maybe
  BY <1>1 DEF Request, Maybe
<1>3. reqs' \in [Requests -> Maybe]
  <2>1. Idle \in Maybe
    BY DEF Maybe
  <2> QED BY <1>2, <2>1, UpdateType DEF Receive
<1>4. panel' \in Panel
  <2>1. reqs[r].ok \in BOOLEAN
    BY <1>1 DEF Request
  <2> QED BY <1>1, <2>1, ToldType DEF Receive
<1> QED BY <1>3, <1>4 DEF Receive, counts, TypeOK, Maybe

LEMMA TimeOutType ==
  ASSUME TypeOK, NEW r \in Requests, TimeOut(r)
  PROVE  TypeOK'
<1>1. reqs[r] \in Request
  BY InFlightType DEF TimeOut, Mine, InFlight
<1>2. reqs' \in [Requests -> Maybe]
  BY <1>1, UnmountedType, UpdateType DEF TimeOut
<1>3. Told(reqs[r], FALSE) \in Panel
  BY <1>1, ToldType
<1>4. panel' \in Panel
  BY <1>3 DEF TimeOut, Panel
<1>5. failures' \in 0..MaxFailures
  BY BoundsAreNumbers DEF TimeOut, TypeOK
<1> QED BY <1>2, <1>4, <1>5 DEF TimeOut, TypeOK, Maybe

LEMMA InitType == Init => TypeOK
BY BoundsAreNumbers, ClosedType
   DEF Init, TypeOK, Rows, NoRows, NoRole, Roles

LEMMA NextType ==
  ASSUME TypeOK, [Next]_vars
  PROVE  TypeOK'
<1>1. CASE UNCHANGED vars
  BY <1>1 DEF vars, counts, TypeOK
<1>2. CASE LoadPage \/ ClosePanel
  BY <1>2, PageType
<1>3. ASSUME NEW r \in Requests,
             \/ \E u \in Users : Create(r, u)
             \/ \E kind \in Kinds \ {"create", "list"}, u, t \in Users,
                   new \in Given, exact \in BOOLEAN :
                  Ask(r, kind, u, t, new, exact)
             \/ CreatePermission(r) \/ Check(r) \/ Read(r) \/ ReadTarget(r)
             \/ WriteRole(r) \/ ReadRows(r) \/ CallFails(r) \/ AnswerLost(r)
             \/ TimeOut(r) \/ OpenPanel(r) \/ Receive(r)
             \/ \E w \in Writes : \/ TransferWrite(r, w)
                                  \/ TransferWriteFails(r, w)
      PROVE  TypeOK'
  BY <1>3, CreateType, AskType, CreatePermissionType, CheckType,
     ReadStepType, ReadTargetType, WriteRoleType, ReadRowsType,
     CallFailsType, TimeOutType, PageType, ReceiveType, TransferWriteType
<1>4. ASSUME NEW r \in Requests, NEW t \in Users, NEW new \in Given,
             \/ SubmitInvite(r, t, new)
             \/ \E kind \in Kinds : PressRow(r, kind, t, new)
      PROVE  TypeOK'
  BY <1>4, SendType DEF SubmitInvite, PressRow, Kinds
<1> QED BY <1>1, <1>2, <1>3, <1>4 DEF Next

\* The rows, the requests and the panel keep their types.
THEOREM TypeCorrect == Spec => []TypeOK
BY InitType, NextType, PTL DEF Spec

-----------------------------------------------------------------------------
(* Nobody without access becomes an owner.                                 *)

\* What a write of a transfer does to a row.
LEMMA TransferRow ==
  ASSUME TypeOK, NEW q, NEW w \in Writes, TransferEffect(q, w), NEW u \in Users
  PROVE  \/ role'[u] = role[u]
         \/ /\ role[u] # NoRole
            /\ \/ w = "demote" /\ u = q.previous /\ role'[u] = "editor"
               \/ w = "promote" /\ u = q.target /\ role'[u] = "owner"
BY DEF TypeOK, Rows, TransferEffect, Writes

\* Every step leaves the rows alone, writes one that is not an owner's, takes
\* part in a transfer, or is the last of a creation.
LEMMA RowSteps ==
  ASSUME TypeOK, [Next]_vars
  PROVE  \/ UNCHANGED role
         \/ \E r \in Requests : CreatePermission(r)
         \/ \E r \in Requests : WriteRole(r) \/ AnswerLost(r)
         \/ \E r \in Requests, w \in Writes :
              TransferWrite(r, w) \/ TransferWriteFails(r, w)
<1>1. CASE UNCHANGED vars \/ LoadPage \/ ClosePanel
  BY <1>1 DEF vars, LoadPage, ClosePanel
<1>2. ASSUME NEW r \in Requests,
             \/ \E u \in Users : Create(r, u)
             \/ \E kind \in Kinds \ {"create", "list"}, u, t \in Users,
                   new \in Given, exact \in BOOLEAN :
                  Ask(r, kind, u, t, new, exact)
             \/ Check(r) \/ Read(r) \/ ReadTarget(r)
             \/ ReadRows(r) \/ CallFails(r)
             \/ TimeOut(r) \/ OpenPanel(r) \/ Receive(r)
      PROVE  UNCHANGED role
  BY <1>2 DEF Create, Ask, Check, Read, ReadTarget, ReadRows, CallFails,
     TimeOut, OpenPanel, Receive
<1>3. ASSUME NEW r \in Requests, NEW t \in Users, NEW new \in Given,
             \/ SubmitInvite(r, t, new)
             \/ \E kind \in Kinds : PressRow(r, kind, t, new)
      PROVE  UNCHANGED role
  BY <1>3 DEF SubmitInvite, PressRow, Send
<1> QED BY <1>1, <1>2, <1>3 DEF Next

LEMMA WriteRoleRow ==
  ASSUME TypeOK, NEW r \in Requests, WriteRole(r) \/ AnswerLost(r),
         NEW u \in Users
  PROVE  /\ reqs[r] \in Request
         /\ \/ role'[u] = role[u]
            \/ u = reqs[r].target /\ role'[u] \in Given \cup {NoRole}
<1>1. reqs[r].pc = "write"
  BY DEF WriteRole, AnswerLost, At
<1>2. reqs[r] \in Request
  BY <1>1, InFlightType
<1>3. NewRole(reqs[r]) \in Given \cup {NoRole}
  BY <1>2, NewRoleType
<1>4. role' = [role EXCEPT ![reqs[r].target] = NewRole(reqs[r])]
  BY Zenon DEF WriteRole, AnswerLost
<1> QED BY <1>2, <1>3, <1>4 DEF TypeOK, Rows

LEMMA OwnerStep ==
  ASSUME TypeOK, [Next]_vars, NEW u \in Users,
         role[u] = NoRole, role'[u] = "owner"
  PROVE  \E r \in Requests : At(r, "write", {"create"})
<1>1. CASE UNCHANGED role
  BY <1>1 DEF NoRole
<1>2. CASE \E r \in Requests : CreatePermission(r)
  BY <1>2 DEF CreatePermission
<1>3. CASE \E r \in Requests : WriteRole(r) \/ AnswerLost(r)
  BY <1>3, WriteRoleRow DEF Given, NoRole
<1>4. ASSUME NEW r \in Requests, NEW w \in Writes,
             TransferWrite(r, w) \/ TransferWriteFails(r, w)
      PROVE  FALSE
  BY <1>4, TransferRow DEF TransferWrite, TransferWriteFails, NoRole
<1> QED BY <1>1, <1>2, <1>3, <1>4, RowSteps

\* POST /transfer-ownership, and every other route, makes nobody an owner who
\* has no access at that moment, the creation of the document excepted.
THEOREM AccessBeforeOwnership == Spec => OwnersHadAccess
<1>1. TypeOK /\ [Next]_vars =>
        [\A u \in Users : role[u] = NoRole /\ role'[u] = "owner"
           => \E r \in Requests : At(r, "write", {"create"})]_vars
  BY OwnerStep
<1> QED BY <1>1, TypeCorrect, PTL DEF Spec, OwnersHadAccess

-----------------------------------------------------------------------------
(* A document without owners stays without.                                *)

\* The panel's fetch is the request it seems to be.
ListOK ==
  \A r \in Requests : reqs[r].pc # "idle" /\ reqs[r].kind = "list" =>
    reqs[r].pending = {} /\ reqs[r].pc \notin {"read", "target"}

\* Only the owner passes the middleware of a route that changes something.
LEMMA OnlyOwners ==
  ASSUME TypeOK, NEW u \in Users, NEW kind, kind # "list", May(u, kind)
  PROVE  role[u] = "owner"
BY DEF TypeOK, Rows, Roles, NoRole, May, MinRole, Rank

\* An answer does not change what a request is about.
LEMMA AnsweredFields ==
  ASSUME NEW q \in Request, NEW ok \in BOOLEAN
  PROVE  \/ Answered(q, ok) = Idle /\ q.pending = {} /\ ~q.mine
         \/ /\ Answered(q, ok) \in Request
            /\ Answered(q, ok).pc \in {"answered", "over"}
            /\ Answered(q, ok).kind = q.kind
            /\ Answered(q, ok).actor = q.actor
            /\ Answered(q, ok).target = q.target
            /\ Answered(q, ok).previous = q.previous
            /\ Answered(q, ok).pending = q.pending
            /\ Answered(q, ok).mine = q.mine
BY DEF Answered, Request

LEMMA UnmountedFields ==
  ASSUME NEW q \in Request
  PROVE  \/ Unmounted(q) = Idle /\ q.pending = {} /\ q.pc = "answered"
         \/ /\ Unmounted(q) \in Request
            /\ Unmounted(q).pc \in {q.pc, "over"}
            /\ Unmounted(q).pc = q.pc \/ q.pc = "answered"
            /\ Unmounted(q).kind = q.kind
            /\ Unmounted(q).actor = q.actor
            /\ Unmounted(q).target = q.target
            /\ Unmounted(q).previous = q.previous
            /\ Unmounted(q).pending = q.pending
            /\ ~Unmounted(q).mine
BY DEF Unmounted, Request

LEMMA NewFields ==
  ASSUME NEW kind, NEW u, NEW t, NEW new, NEW pc, NEW exact
  PROVE  LET q == [New(kind, u, t, new) EXCEPT !.pc = pc]
             e == [New(kind, u, t, new) EXCEPT !.pc = pc, !.exact = exact]
             p == [New(kind, u, t, new) EXCEPT !.mine = TRUE]
         IN /\ q.pc = pc /\ q.kind = kind /\ q.actor = u /\ q.target = t
            /\ q.pending = {} /\ q.previous = None /\ ~q.mine
            /\ e.pc = pc /\ e.kind = kind /\ e.actor = u /\ e.target = t
            /\ e.pending = {} /\ e.previous = None /\ ~e.mine
            /\ p.pc = "check" /\ p.kind = kind /\ p.actor = u
            /\ p.target = t /\ p.pending = {} /\ p.previous = None
BY DEF New
-----------------------------------------------------------------------------
(* What the handlers do to the requests.                                   *)

\* s is the request q later on: about the same, answered or not.
Further(q, s) ==
  \/ s = Idle /\ q.pending = {}
  \/ /\ s \in Request
     /\ s.pc \in {q.pc, "answered", "over"}
     /\ s.kind = q.kind /\ s.actor = q.actor /\ s.target = q.target
     /\ s.previous = q.previous /\ s.pending = q.pending
     /\ s.mine => q.mine

\* The requests are as before or further on.
Carried ==
  \A s \in Requests : \/ reqs'[s] = reqs[s]
                      \/ reqs[s].pc # "idle" /\ Further(reqs[s], reqs'[s])

\* The document, and the requests that create it, are left alone.
Quiet ==
  /\ UNCHANGED <<owner, role>> /\ Carried
  /\ calm' => calm
  /\ panel'.open => panel.open
  /\ \A s \in Requests :
       calm' /\ reqs[s].kind = "create" /\ reqs[s].pc = "write"
         /\ ~reqs[s].mine /\ ~panel.open => reqs'[s] = reqs[s]

\* A check that answers with an error.
Refused(r) ==
  /\ Check(r) \/ Read(r) \/ ReadTarget(r)
  /\ Answer(r, FALSE)

LEMMA AnswerCarries ==
  ASSUME TypeOK, NEW r \in Requests, reqs[r].pc # "idle",
         NEW ok \in BOOLEAN, Answer(r, ok)
  PROVE  /\ Carried
         /\ \A s \in Requests : s # r => reqs'[s] = reqs[s]
<1>1. reqs[r] \in Request
  BY InFlightType
<1>2. Further(reqs[r], Answered(reqs[r], ok))
  BY <1>1, AnsweredFields DEF Further
<1> QED BY <1>2 DEF Answer, Carried, TypeOK

LEMMA QuietHandlers ==
  ASSUME TypeOK,
         \/ UNCHANGED vars \/ LoadPage \/ ClosePanel
         \/ \E r \in Requests : \/ ReadRows(r) \/ CallFails(r) \/ Receive(r)
                                \/ TimeOut(r) \/ Refused(r)
  PROVE  Quiet
<1> USE DEF Quiet
<1>1. CASE UNCHANGED vars
  BY <1>1 DEF vars, Carried
<1>2. CASE LoadPage
  BY <1>2 DEF LoadPage, Carried, Closed
<1>3. CASE ClosePanel
  <2>1. Carried
    BY <1>3, InFlightType, UnmountedFields
       DEF ClosePanel, Carried, Further, InFlight
  <2> QED BY <1>3, <2>1 DEF ClosePanel
<1>4. ASSUME NEW r \in Requests, ReadRows(r) PROVE Quiet
  <2> DEFINE q == [reqs[r] EXCEPT !.rows = role]
  <2>1. reqs[r] \in Request /\ reqs[r].kind = "list" /\ reqs[r].pc # "idle"
    BY <1>4, InFlightType DEF ReadRows, At
  <2>2. /\ q \in Request /\ q.pc = reqs[r].pc /\ q.kind = reqs[r].kind
        /\ q.actor = reqs[r].actor /\ q.target = reqs[r].target
        /\ q.previous = reqs[r].previous /\ q.pending = reqs[r].pending
        /\ q.mine = reqs[r].mine
    BY <2>1 DEF Request, TypeOK
  <2>3. reqs' = [reqs EXCEPT ![r] = Answered(q, TRUE)]
    BY <1>4 DEF ReadRows
  <2> HIDE DEF q
  <2>4. Further(reqs[r], Answered(q, TRUE))
    BY <2>2, AnsweredFields DEF Further
  <2>5. Carried /\ \A s \in Requests : s # r => reqs'[s] = reqs[s]
    BY <2>1, <2>3, <2>4 DEF Carried, TypeOK
  <2> QED BY <1>4, <2>1, <2>5 DEF ReadRows
<1>5. ASSUME NEW r \in Requests, CallFails(r) PROVE Quiet
  <2>1. reqs[r].pc # "idle" /\ Answer(r, FALSE)
    BY <1>5 DEF CallFails
  <2>2. Carried /\ \A s \in Requests : s # r => reqs'[s] = reqs[s]
    BY <2>1, AnswerCarries
  <2>3. /\ UNCHANGED <<owner, role, panel>>
        /\ calm' => calm /\ reqs[r].kind # "create"
    BY <1>5 DEF CallFails
  <2> QED BY <2>2, <2>3
<1>6. ASSUME NEW r \in Requests, Receive(r) PROVE Quiet
  <2>1. reqs[r] \in Request /\ reqs[r].pc = "answered"
    BY <1>6, InFlightType DEF Receive
  <2> DEFINE q == [[reqs[r] EXCEPT !.pc = "over"] EXCEPT !.mine = FALSE]
  <2>2. Further(reqs[r], q)
    BY <2>1 DEF Further, Request
  <2>3. reqs' = [reqs EXCEPT ![r] = IF reqs[r].pending = {} THEN Idle ELSE q]
    BY <1>6 DEF Receive
  <2> HIDE DEF q
  <2>4. Carried /\ \A s \in Requests : s # r => reqs'[s] = reqs[s]
    BY <2>1, <2>2, <2>3 DEF Carried, TypeOK, Further
  <2>5. panel'.open = panel.open
    BY <1>6 DEF Receive, Told, TypeOK, Panel
  <2> QED BY <1>6, <2>1, <2>4, <2>5 DEF Receive
<1>7. ASSUME NEW r \in Requests, TimeOut(r) PROVE Quiet
  <2>1. reqs[r] \in Request /\ reqs[r].mine /\ reqs[r].pc # "idle"
    BY <1>7, InFlightType DEF TimeOut, Mine, InFlight
  <2>2. Further(reqs[r], Unmounted(reqs[r]))
    BY <2>1, UnmountedFields DEF Further
  <2>3. reqs' = [reqs EXCEPT ![r] = Unmounted(reqs[r])]
    BY <1>7 DEF TimeOut
  <2>4. Carried /\ \A s \in Requests : s # r => reqs'[s] = reqs[s]
    BY <2>1, <2>2, <2>3 DEF Carried, TypeOK
  <2>5. panel'.open = panel.open
    BY <1>7 DEF TimeOut, Told, TypeOK, Panel
  <2> QED BY <1>7, <2>1, <2>4, <2>5 DEF TimeOut
<1>8. ASSUME NEW r \in Requests, Refused(r) PROVE Quiet
  <2>1. /\ reqs[r].pc \in {"check", "read", "target"} /\ Answer(r, FALSE)
        /\ UNCHANGED <<owner, role, panel>>
    BY <1>8 DEF Refused, Check, Read, ReadTarget
  <2>2. Carried /\ \A s \in Requests : s # r => reqs'[s] = reqs[s]
    BY <2>1, AnswerCarries
  <2>3. calm' => calm
    BY <1>8, Zenon DEF Refused, Check, Read, ReadTarget
  <2> QED BY <2>1, <2>2, <2>3
<1> QED BY <1>1, <1>2, <1>3, <1>4, <1>5, <1>6, <1>7, <1>8

\* A request goes on to its next call.
GoesOn(r, q) ==
  /\ UNCHANGED <<owner, role, panel>> /\ (calm' => calm)
  /\ reqs' = [reqs EXCEPT ![r] = q]
  /\ q \in Request /\ q.kind = reqs[r].kind /\ q.actor = reqs[r].actor
  /\ q.target = reqs[r].target /\ q.mine = reqs[r].mine
  /\ \/ /\ reqs[r].pc = "check" /\ q.pc = FirstCall(q.kind)
        /\ q.pending = reqs[r].pending /\ q.previous = reqs[r].previous
        /\ May(q.actor, q.kind)
     \/ /\ reqs[r].pc = "read" /\ q.pc = "write" /\ q.kind # "transfer"
        /\ q.pending = reqs[r].pending /\ q.previous = reqs[r].previous
        /\ calm' => q.target # IF q.kind = "invite" THEN q.actor ELSE owner
     \/ /\ reqs[r].pc = "read" /\ q.pc = "target" /\ q.kind = "transfer"
        /\ q.pending = reqs[r].pending /\ q.previous = owner
        /\ calm' => q.target # owner
     \/ /\ reqs[r].pc = "target" /\ q.pc = "write"
        /\ q.pending = Writes /\ q.previous = reqs[r].previous
        /\ role[q.target] # NoRole

LEMMA ChecksGoOn ==
  ASSUME TypeOK, NEW r \in Requests, Check(r) \/ Read(r) \/ ReadTarget(r)
  PROVE  Refused(r) \/ \E q \in Request : GoesOn(r, q)
<1>1. reqs[r] \in Request /\ reqs[r].pc \in {"check", "read", "target"}
  BY InFlightType DEF Check, Read, ReadTarget
<1>2. ASSUME NEW pc \in {"read", "write"}, Goto(r, pc)
      PROVE  LET q == [reqs[r] EXCEPT !.pc = pc]
             IN /\ reqs' = [reqs EXCEPT ![r] = q]
                /\ q \in Request /\ q.kind = reqs[r].kind
                /\ q.actor = reqs[r].actor /\ q.target = reqs[r].target
                /\ q.mine = reqs[r].mine /\ q.pending = reqs[r].pending
                /\ q.previous = reqs[r].previous /\ q.pc = pc
  BY <1>1, <1>2 DEF Goto, Request
<1>3. CASE Check(r)
  <2>1. CASE Answer(r, FALSE)
    BY <1>3, <2>1 DEF Refused
  <2>2. CASE May(reqs[r].actor, reqs[r].kind)
             /\ Goto(r, FirstCall(reqs[r].kind))
    <3> DEFINE q == [reqs[r] EXCEPT !.pc = FirstCall(reqs[r].kind)]
    <3>1. FirstCall(reqs[r].kind) \in {"read", "write"}
      BY FirstCallType
    <3>2. /\ reqs' = [reqs EXCEPT ![r] = q]
          /\ q \in Request /\ q.kind = reqs[r].kind
          /\ q.actor = reqs[r].actor /\ q.target = reqs[r].target
          /\ q.mine = reqs[r].mine /\ q.pending = reqs[r].pending
          /\ q.previous = reqs[r].previous
          /\ q.pc = FirstCall(reqs[r].kind)
      BY <1>2, <2>2, <3>1
    <3> HIDE DEF q
    <3>3. GoesOn(r, q)
      BY <1>3, <2>2, <3>2 DEF GoesOn, Check
    <3> QED BY <3>2, <3>3
  <2> QED BY <1>3, <2>1, <2>2 DEF Check
<1>4. CASE Read(r)
  <2> DEFINE to == [reqs[r] EXCEPT !.pc = "write"]
             at == [[reqs[r] EXCEPT !.pc = "target"] EXCEPT !.previous = owner]
             named == reqs[r].target = IF reqs[r].kind = "invite"
                                       THEN reqs[r].actor ELSE owner
  <2>1. CASE Answer(r, FALSE)
    BY <1>4, <2>1 DEF Refused
  <2>2. CASE /\ reqs[r].kind # "transfer" /\ Goto(r, "write")
             /\ ~(named /\ reqs[r].exact)
    <3>1. /\ reqs' = [reqs EXCEPT ![r] = to]
          /\ to \in Request /\ to.kind = reqs[r].kind
          /\ to.actor = reqs[r].actor /\ to.target = reqs[r].target
          /\ to.mine = reqs[r].mine /\ to.pending = reqs[r].pending
          /\ to.previous = reqs[r].previous /\ to.pc = "write"
      BY <1>2, <2>2
    <3> HIDE DEF to
    <3>2. GoesOn(r, to)
      BY <1>4, <2>2, <3>1 DEF GoesOn, Read
    <3> QED BY <3>1, <3>2
  <2>3. CASE /\ reqs[r].kind = "transfer" /\ ~(named /\ reqs[r].exact)
             /\ reqs' = [reqs EXCEPT ![r].pc = "target", ![r].previous = owner]
    <3>1. /\ at \in Request /\ at.kind = reqs[r].kind
          /\ at.actor = reqs[r].actor /\ at.target = reqs[r].target
          /\ at.mine = reqs[r].mine /\ at.pending = reqs[r].pending
          /\ at.previous = owner /\ at.pc = "target"
      BY <1>1 DEF Request, TypeOK
    <3>2. reqs' = [reqs EXCEPT ![r] = at]
      BY <2>3 DEF TypeOK
    <3> HIDE DEF at
    <3>3. GoesOn(r, at)
      BY <1>4, <2>3, <3>1, <3>2 DEF GoesOn, Read
    <3> QED BY <3>1, <3>3
  <2> HIDE DEF to, at
  <2> QED BY <1>4, <2>1, <2>2, <2>3 DEF Read
<1>5. CASE ReadTarget(r)
  <2> DEFINE q == [[reqs[r] EXCEPT !.pc = "write"] EXCEPT !.pending = Writes]
  <2>1. CASE Answer(r, FALSE)
    BY <1>5, <2>1 DEF Refused
  <2>2. CASE /\ role[reqs[r].target] # NoRole
             /\ reqs' = [reqs EXCEPT ![r].pc = "write", ![r].pending = Writes]
    <3>1. /\ q \in Request /\ q.kind = reqs[r].kind
          /\ q.actor = reqs[r].actor /\ q.target = reqs[r].target
          /\ q.mine = reqs[r].mine /\ q.pending = Writes
          /\ q.previous = reqs[r].previous /\ q.pc = "write"
      BY <1>1 DEF Request
    <3>2. reqs' = [reqs EXCEPT ![r] = q]
      BY <2>2 DEF TypeOK
    <3> HIDE DEF q
    <3>3. GoesOn(r, q)
      BY <1>5, <2>2, <3>1, <3>2 DEF GoesOn, ReadTarget
    <3> QED BY <3>1, <3>3
  <2> QED BY <1>5, <2>1, <2>2 DEF ReadTarget
<1> QED BY <1>3, <1>4, <1>5
\* A new request.
Opens(r, q) ==
  /\ UNCHANGED <<owner, role>>
  /\ reqs[r].pc = "idle" /\ reqs' = [reqs EXCEPT ![r] = q]
  /\ q \in Request /\ q.pending = {} /\ q.kind # "create"
  /\ \/ q.pc = "check"
     \/ q.pc = FirstCall(q.kind) /\ May(q.actor, q.kind) /\ q.kind # "list"
  /\ panel.open \/ \E u \in Users : role[u] # NoRole
  /\ panel'.open => panel.open \/ \E u \in Users : role[u] # NoRole
  /\ calm' => calm /\ ~Conflict(q.kind, q.target)

LEMMA NewRequests ==
  ASSUME TypeOK, NEW r \in Requests,
         \/ OpenPanel(r)
         \/ \E kind \in Kinds \ {"create", "list"}, u, t \in Users,
               new \in Given, exact \in BOOLEAN :
              Ask(r, kind, u, t, new, exact)
         \/ \E t \in Users, new \in Given :
              \/ SubmitInvite(r, t, new)
              \/ \E kind \in Kinds : PressRow(r, kind, t, new)
  PROVE  \E q \in Request : Opens(r, q)
<1>1. CASE OpenPanel(r)
  <2> DEFINE q == [New("list", Me, Me, "viewer") EXCEPT !.mine = TRUE]
  <2>1. q \in Request
    BY NewType, MeIsUser DEF Kinds, Given
  <2>2. /\ q.pc = "check" /\ q.kind = "list" /\ q.target = Me
        /\ q.pending = {}
    BY NewFields
  <2>3. reqs' = [reqs EXCEPT ![r] = q]
    BY <1>1 DEF OpenPanel
  <2>4. ~Conflict("list", Me)
    BY DEF Conflict
  <2> HIDE DEF q
  <2>5. Opens(r, q)
    BY <1>1, <2>1, <2>2, <2>3, <2>4, MeIsUser DEF OpenPanel, Opens
  <2> QED BY <2>1, <2>5
<1>2. ASSUME NEW kind \in Kinds \ {"create", "list"}, NEW u \in Users,
             NEW t \in Users, NEW new \in Given, NEW exact \in BOOLEAN,
             Ask(r, kind, u, t, new, exact)
      PROVE  \E q \in Request : Opens(r, q)
  <2> DEFINE q == [New(kind, u, t, new)
                     EXCEPT !.pc = FirstCall(kind), !.exact = exact]
  <2>1. q \in Request
    BY NewType, FirstCallType
  <2>2. /\ q.pc = FirstCall(kind) /\ q.kind = kind /\ q.target = t
        /\ q.actor = u /\ q.pending = {}
    BY NewFields
  <2>3. reqs' = [reqs EXCEPT ![r] = q] /\ May(u, kind)
    BY <1>2 DEF Ask
  <2>4. role[u] # NoRole
    BY <2>3, OnlyOwners DEF NoRole
  <2> HIDE DEF q
  <2>5. Opens(r, q)
    BY <1>2, <2>1, <2>2, <2>3, <2>4 DEF Ask, Opens
  <2> QED BY <2>1, <2>5
<1>3. ASSUME NEW kind \in Kinds \ {"create", "list"}, NEW t \in Users,
             NEW new \in Given, panel.open, Send(r, kind, t, new)
      PROVE  \E q \in Request : Opens(r, q)
  <2> DEFINE q == [New(kind, Me, t, new) EXCEPT !.mine = TRUE]
  <2>1. q \in Request
    BY NewType, MeIsUser
  <2>2. q.pc = "check" /\ q.kind = kind /\ q.target = t /\ q.pending = {}
    BY NewFields
  <2>3. reqs' = [reqs EXCEPT ![r] = q]
    BY <1>3 DEF Send
  <2> HIDE DEF q
  <2>4. Opens(r, q)
    BY <1>3, <2>1, <2>2, <2>3 DEF Send, Opens
  <2> QED BY <2>1, <2>4
<1> QED BY <1>1, <1>2, <1>3 DEF SubmitInvite, PressRow, Kinds

\* Every step is one of these.
LEMMA StepKinds ==
  ASSUME TypeOK, [Next]_vars
  PROVE  \/ Quiet
         \/ \E r \in Requests :
              \/ \E u \in Users : Create(r, u)
              \/ CreatePermission(r)
              \/ \E q \in Request : Opens(r, q) \/ GoesOn(r, q)
              \/ WriteRole(r) \/ AnswerLost(r)
              \/ \E w \in Writes : TransferWrite(r, w)
                                   \/ TransferWriteFails(r, w)
BY QuietHandlers, ChecksGoOn, NewRequests DEF Next

\* s is what is left of the transfer q after its write w.
Rest(q, w, s) ==
  \/ s = Idle /\ q.pending \ {w} = {}
  \/ /\ s \in Request
     /\ s.pc \in {q.pc, "answered", "over"}
     /\ s.kind = q.kind /\ s.actor = q.actor /\ s.target = q.target
     /\ s.previous = q.previous /\ s.pending = q.pending \ {w}
     /\ s.mine = q.mine

LEMMA SettledFields ==
  ASSUME NEW q \in Request, NEW w \in Writes
  PROVE  /\ Rest(q, w, Settled(q, w))
         /\ Rest(q, w, Answered([q EXCEPT !.pending = q.pending \ {w}], FALSE))
<1> DEFINE left == [q EXCEPT !.pending = q.pending \ {w}]
<1>1. /\ left \in Request /\ left.pc = q.pc /\ left.kind = q.kind
      /\ left.actor = q.actor /\ left.target = q.target
      /\ left.previous = q.previous /\ left.pending = q.pending \ {w}
      /\ left.mine = q.mine
  BY DEF Request
<1>2. \/ Settled(q, w) = left
      \/ Settled(q, w) = Idle /\ left.pending = {}
      \/ \E ok \in BOOLEAN : Settled(q, w) = Answered(left, ok)
  BY DEF Settled
<1> HIDE DEF left
<1>3. Rest(q, w, left)
  BY <1>1 DEF Rest
<1>4. left.pending = {} => Rest(q, w, Idle)
  BY <1>1 DEF Rest
<1>5. \A ok \in BOOLEAN : Rest(q, w, Answered(left, ok))
  BY <1>1, AnsweredFields DEF Rest
<1>6. Rest(q, w, Settled(q, w))
  BY <1>2, <1>3, <1>4, <1>5
<1>7. Rest(q, w, Answered(left, FALSE))
  BY <1>5
<1> QED BY <1>6, <1>7 DEF left

LEMMA TransferRequests ==
  ASSUME TypeOK, NEW r \in Requests, NEW w \in Writes,
         TransferWrite(r, w) \/ TransferWriteFails(r, w)
  PROVE  /\ reqs[r] \in Request /\ w \in reqs[r].pending
         /\ \A s \in Requests : s # r => reqs'[s] = reqs[s]
         /\ Rest(reqs[r], w, reqs'[r])
<1>1. reqs[r] \in Request /\ w \in reqs[r].pending
  BY InFlightType DEF TransferWrite, TransferWriteFails
<1> DEFINE left == [reqs[r] EXCEPT !.pending = reqs[r].pending \ {w}]
<1>2. \/ reqs' = [reqs EXCEPT ![r] = Settled(reqs[r], w)]
      \/ reqs' = [reqs EXCEPT ![r] = Answered(left, FALSE)]
  BY DEF TransferWrite, TransferWriteFails
<1>3. reqs'[r] = Settled(reqs[r], w) \/ reqs'[r] = Answered(left, FALSE)
  BY <1>2 DEF TypeOK
<1>4. \A s \in Requests : s # r => reqs'[s] = reqs[s]
  BY <1>2 DEF TypeOK
<1>5. /\ Rest(reqs[r], w, Settled(reqs[r], w))
      /\ Rest(reqs[r], w, Answered(left, FALSE))
  BY <1>1, SettledFields
<1>6. Rest(reqs[r], w, reqs'[r])
  BY <1>3, <1>5
<1> QED BY <1>1, <1>4, <1>6

\* The panel's fetch stays what it is.
LEMMA ListStep ==
  ASSUME TypeOK, ListOK, [Next]_vars
  PROVE  ListOK'
<1>1. CASE Quiet
  BY <1>1 DEF Quiet, Carried, Further, ListOK, Idle
<1>2. ASSUME NEW r \in Requests, NEW u \in Users, Create(r, u)
      PROVE  ListOK'
  <2> DEFINE q == [New("create", u, u, "viewer") EXCEPT !.pc = "write"]
  <2>1. q.kind = "create"
    BY NewFields
  <2>2. reqs' = [reqs EXCEPT ![r] = q]
    BY <1>2 DEF Create
  <2> HIDE DEF q
  <2> QED BY <2>1, <2>2 DEF ListOK, TypeOK
<1>3. ASSUME NEW r \in Requests,
             CreatePermission(r) \/ WriteRole(r) \/ AnswerLost(r)
      PROVE  ListOK'
  <2>1. /\ reqs[r].pc = "write"
        /\ \E ok \in BOOLEAN : Answer(r, ok)
    BY <1>3 DEF CreatePermission, WriteRole, AnswerLost, At
  <2>2. Carried
    BY <2>1, AnswerCarries
  <2> QED BY <2>2 DEF Carried, Further, ListOK, Idle
<1>4. ASSUME NEW r \in Requests, NEW q \in Request, Opens(r, q)
      PROVE  ListOK'
  <2>1. q.kind = "list" => q.pc = "check" /\ q.pending = {}
    BY <1>4 DEF Opens
  <2> QED BY <1>4, <2>1 DEF Opens, ListOK, TypeOK
<1>5. ASSUME NEW r \in Requests, NEW q \in Request, GoesOn(r, q)
      PROVE  ListOK'
  <2>1. q.kind = "list" => q.pc = "write" /\ q.pending = {}
    BY <1>5 DEF GoesOn, FirstCall, ListOK
  <2> QED BY <1>5, <2>1 DEF GoesOn, ListOK, TypeOK
<1>6. ASSUME NEW r \in Requests, NEW w \in Writes,
             TransferWrite(r, w) \/ TransferWriteFails(r, w)
      PROVE  ListOK'
  <2>1. reqs[r].kind # "list"
    BY <1>6, TransferRequests
       DEF ListOK, TransferWrite, TransferWriteFails
  <2> QED BY <1>6, <2>1, TransferRequests DEF ListOK, Idle, Rest
<1> QED BY <1>1, <1>2, <1>3, <1>4, <1>5, <1>6, StepKinds

\* Without an owner nobody passes the middleware again.
LEMMA OwnerlessStep ==
  ASSUME TypeOK, ListOK, [Next]_vars, Ownerless
  PROVE  Ownerless'
<1>1. /\ owner # None /\ \A u \in Users : role[u] # "owner"
      /\ \A s \in Requests : reqs[s].pc # "idle" /\ reqs[s].kind # "list" =>
           /\ reqs[s].pc \notin {"read", "target", "write"}
           /\ reqs[s].pending = {}
  BY DEF Ownerless, Owners, OwnersAdmitted, InFlight
<1>2. SUFFICES
        /\ UNCHANGED <<owner, role>>
        /\ \A s \in Requests : reqs'[s].pc # "idle" /\ reqs'[s].kind # "list" =>
             /\ reqs'[s].pc \notin {"read", "target", "write"}
             /\ reqs'[s].pending = {}
  BY <1>1 DEF Ownerless, Owners, OwnersAdmitted, InFlight
<1>3. CASE Quiet
  BY <1>1, <1>3 DEF Quiet, Carried, Further, Idle
<1>4. ASSUME NEW r \in Requests,
             \/ \E u \in Users : Create(r, u)
             \/ CreatePermission(r) \/ WriteRole(r) \/ AnswerLost(r)
      PROVE  FALSE
  BY <1>1, <1>4 DEF Create, CreatePermission, WriteRole, AnswerLost, At
<1>5. ASSUME NEW r \in Requests, NEW q \in Request, Opens(r, q)
      PROVE  /\ q.pending = {}
             /\ q.kind # "list" => q.pc = "check"
             /\ UNCHANGED <<owner, role>> /\ reqs' = [reqs EXCEPT ![r] = q]
  <2>1. q.actor \in Users
    BY DEF Request
  <2> QED BY <1>1, <1>5, <2>1, OnlyOwners DEF Opens
<1>6. ASSUME NEW r \in Requests, NEW q \in Request, GoesOn(r, q)
      PROVE  /\ q.kind = "list"
             /\ UNCHANGED <<owner, role>> /\ reqs' = [reqs EXCEPT ![r] = q]
  <2>1. q.actor \in Users
    BY DEF Request
  <2>2. \/ reqs[r].pc = "check" /\ May(q.actor, q.kind)
        \/ q.kind = "list"
    BY <1>1, <1>6 DEF GoesOn
  <2> QED BY <1>1, <1>6, <2>1, <2>2, OnlyOwners DEF GoesOn
<1>7. ASSUME NEW r \in Requests, NEW w \in Writes,
             TransferWrite(r, w) \/ TransferWriteFails(r, w)
      PROVE  FALSE
  BY <1>1, <1>7, TransferRequests
     DEF ListOK, TransferWrite, TransferWriteFails
<1> QED BY <1>1, <1>3, <1>4, <1>5, <1>6, <1>7, StepKinds DEF TypeOK

\* A document that has lost its owners never gets one again.
THEOREM OwnersAreNotRegained == Spec => LostOwnersStayLost
<1>1. Init => ListOK
  BY DEF Init, ListOK, Idle
<1>2. TypeOK /\ ListOK /\ [Next]_vars => ListOK'
  BY ListStep
<1>3. TypeOK /\ ListOK /\ [Next]_vars => [Ownerless => Ownerless']_vars
  BY OwnerlessStep
<1> QED BY <1>1, <1>2, <1>3, TypeCorrect, PTL DEF Spec, LostOwnersStayLost
-----------------------------------------------------------------------------
(* The document has one owner, and it is the one it names.                 *)

\* Before the document exists nobody does anything with it.
BeforeCreation == owner = None => role = NoRows /\ InFlight = {} /\ ~panel.open

\* While it is created the creator's request is the only one.
DuringCreation ==
  \A r \in InFlight : reqs[r].kind = "create" =>
    /\ reqs[r].pc = "write" /\ ~reqs[r].mine
    /\ reqs[r].actor = owner /\ reqs[r].pending = {}
    /\ role = NoRows /\ ~panel.open
    /\ \A s \in InFlight : s = r

\* No transfer overlaps with another, or with a request about its target.
TransfersApart ==
  \A r, s \in InFlight : r # s /\ reqs[r].kind = "transfer" =>
    /\ reqs[s].kind # "transfer"
    /\ reqs[s].kind \in {"share", "invite", "role", "remove"} =>
         reqs[s].target # reqs[r].target

\* Only transfers have parallel writes; what was read of the owner still
\* holds when it is used.
OwnerStillRead ==
  \A r \in InFlight :
    /\ reqs[r].pending # {} =>
         /\ reqs[r].kind = "transfer"
         /\ reqs[r].pc \notin {"check", "read", "target"}
    /\ reqs[r].pc = "target" =>
         /\ reqs[r].kind = "transfer"
         /\ reqs[r].previous = owner /\ owner # reqs[r].target
    /\ reqs[r].kind \in {"role", "remove"} /\ reqs[r].pc = "write" =>
         reqs[r].target # owner

\* In the middle of a transfer from p to t.
HalfWay ==
  \A r \in InFlight : reqs[r].pending # {} =>
    LET p == reqs[r].previous
        t == reqs[r].target
        left == reqs[r].pending
    IN /\ p # t
       /\ \A u \in Users : role[u] = "owner" => u \in {p, t}
       /\ "demote" \notin left /\ p \in Users => role[p] # "owner"
       /\ "promote" \notin left => role[t] = "owner"
       /\ "promote" \in left => role[t] # NoRole
       /\ owner = IF "save" \in left THEN p ELSE t

\* An invitation does not name the owner, unless it is refused because it
\* comes from the owner itself or a transfer is taking the ownership away.
InvitesSpareOwner ==
  \A r \in InFlight :
    reqs[r].kind = "invite" /\ reqs[r].pc \in {"read", "write"} =>
      \/ reqs[r].target # owner
      \/ reqs[r].pc = "read" /\ reqs[r].target = reqs[r].actor
      \/ \E s \in InFlight : reqs[s].pending # {}
                             /\ reqs[s].previous = reqs[r].target

Settles ==
  owner # None /\ (\A r \in InFlight : reqs[r].kind # "create"
                                       /\ reqs[r].pending = {}) =>
    \A u \in Users : role[u] = "owner" <=> u = owner

CalmInv ==
  /\ BeforeCreation /\ DuringCreation /\ TransfersApart /\ OwnerStillRead
  /\ HalfWay /\ InvitesSpareOwner /\ Settles

IInv == TypeOK /\ ListOK /\ (calm => CalmInv)

LEMMA InitCalm == Init => CalmInv
BY DEF Init, CalmInv, BeforeCreation, DuringCreation, TransfersApart,
   OwnerStillRead, HalfWay, InvitesSpareOwner, Settles, InFlight, Idle, Closed

\* Steps that neither the document nor a creation notices.
LEMMA QuietCalm ==
  ASSUME TypeOK, CalmInv, Quiet, calm'
  PROVE  CalmInv'
<1>1. UNCHANGED <<owner, role>> /\ (panel'.open => panel.open)
  BY DEF Quiet
<1>2. \A s \in Requests : reqs'[s].pc # "idle" =>
        /\ reqs[s].pc # "idle"
        /\ reqs'[s].pc \in {reqs[s].pc, "answered", "over"}
        /\ reqs'[s].kind = reqs[s].kind /\ reqs'[s].actor = reqs[s].actor
        /\ reqs'[s].target = reqs[s].target
        /\ reqs'[s].previous = reqs[s].previous
        /\ reqs'[s].pending = reqs[s].pending
        /\ reqs'[s].mine => reqs[s].mine
  BY DEF Quiet, Carried, Further, Idle
<1>3. \A s \in Requests : reqs[s].pc # "idle" /\ reqs'[s].pc = "idle" =>
        reqs[s].pending = {}
  BY DEF Quiet, Carried, Further, Request
<1>4. \A s \in InFlight : reqs[s].kind = "create" =>
        /\ reqs'[s] = reqs[s]
  BY DEF Quiet, CalmInv, DuringCreation, InFlight
<1>5. InFlight' \subseteq InFlight
  BY <1>2 DEF InFlight
<1>6. \A s \in InFlight : reqs[s].pending # {} =>
        s \in InFlight' /\ reqs'[s].pending = reqs[s].pending
        /\ reqs'[s].previous = reqs[s].previous
  BY <1>2, <1>3 DEF InFlight
<1>7. \A s \in InFlight' :
        /\ reqs'[s].pc \in {reqs[s].pc, "answered", "over"}
        /\ reqs'[s].kind = reqs[s].kind /\ reqs'[s].actor = reqs[s].actor
        /\ reqs'[s].target = reqs[s].target
        /\ reqs'[s].previous = reqs[s].previous
        /\ reqs'[s].pending = reqs[s].pending
        /\ reqs'[s].mine => reqs[s].mine
  BY <1>2 DEF InFlight
<1>8. BeforeCreation'
  BY <1>1, <1>5 DEF CalmInv, BeforeCreation
<1>9. DuringCreation'
  BY <1>1, <1>4, <1>5, <1>7 DEF CalmInv, DuringCreation
<1>10. TransfersApart'
  BY <1>5, <1>7 DEF CalmInv, TransfersApart
<1>11. OwnerStillRead'
  BY <1>1, <1>5, <1>7 DEF CalmInv, OwnerStillRead
<1>12. HalfWay'
  BY <1>1, <1>5, <1>7 DEF CalmInv, HalfWay
<1>13. InvitesSpareOwner'
  BY <1>1, <1>5, <1>6, <1>7 DEF CalmInv, InvitesSpareOwner
<1>14. Settles'
  <2>1. ASSUME \A s \in InFlight' : /\ reqs'[s].kind # "create"
                                    /\ reqs'[s].pending = {}
        PROVE  \A s \in InFlight : /\ reqs[s].kind # "create"
                                   /\ reqs[s].pending = {}
    BY <1>4, <1>6, <1>7, <2>1 DEF InFlight
  <2> QED BY <1>1, <2>1 DEF CalmInv, Settles
<1> QED BY <1>8, <1>9, <1>10, <1>11, <1>12, <1>13, <1>14 DEF CalmInv

LEMMA CreateCalm ==
  ASSUME TypeOK, CalmInv, NEW r \in Requests, NEW u \in Users, Create(r, u)
  PROVE  CalmInv'
<1> DEFINE q == [New("create", u, u, "viewer") EXCEPT !.pc = "write"]
<1>1. /\ q.pc = "write" /\ q.kind = "create" /\ q.actor = u
      /\ q.pending = {} /\ ~q.mine
  BY NewFields
<1>2. /\ reqs' = [reqs EXCEPT ![r] = q] /\ owner = None /\ owner' = u
      /\ UNCHANGED <<role, panel>>
  BY DEF Create
<1>3. role = NoRows /\ InFlight = {} /\ ~panel.open
  BY <1>2 DEF CalmInv, BeforeCreation
<1> HIDE DEF q
<1>4. InFlight' = {r} /\ reqs'[r] = q
  BY <1>1, <1>2, <1>3 DEF InFlight, TypeOK
<1> QED BY <1>1, <1>2, <1>3, <1>4, NoneIsNobody
        DEF CalmInv, BeforeCreation, DuringCreation, TransfersApart,
            OwnerStillRead, HalfWay, InvitesSpareOwner, Settles

LEMMA CreatePermissionCalm ==
  ASSUME TypeOK, CalmInv, NEW r \in Requests, CreatePermission(r)
  PROVE  CalmInv'
<1>1. /\ reqs[r].pc = "write" /\ reqs[r].kind = "create"
      /\ Answer(r, TRUE) /\ owner' = owner
      /\ role' = [role EXCEPT ![reqs[r].actor] = "owner"]
  BY DEF CreatePermission, At
<1>2. /\ ~reqs[r].mine /\ reqs[r].actor = owner /\ reqs[r].pending = {}
      /\ role = NoRows /\ \A s \in InFlight : s = r
  BY <1>1 DEF CalmInv, DuringCreation, InFlight
<1>3. reqs' = [reqs EXCEPT ![r] = Idle]
  BY <1>1, <1>2 DEF Answer, Answered
<1>4. InFlight' = {}
  BY <1>2, <1>3 DEF InFlight, TypeOK, Idle
<1>5. owner # None
  BY <1>1 DEF CalmInv, BeforeCreation, InFlight
<1>6. \A u \in Users : role'[u] = "owner" <=> u = owner
  BY <1>1, <1>2 DEF NoRows, NoRole
<1> QED BY <1>1, <1>4, <1>5, <1>6
        DEF CalmInv, BeforeCreation, DuringCreation, TransfersApart,
            OwnerStillRead, HalfWay, InvitesSpareOwner, Settles
\* Once somebody has a role the document exists and is not being created.
LEMMA Created ==
  ASSUME CalmInv, panel.open \/ \E u \in Users : role[u] # NoRole
  PROVE  owner # None /\ \A s \in InFlight : reqs[s].kind # "create"
BY DEF CalmInv, BeforeCreation, DuringCreation, NoRows

\* So it is while a request other than the creation is in flight.
LEMMA Underway ==
  ASSUME CalmInv, NEW r \in InFlight, reqs[r].kind # "create"
  PROVE  owner # None /\ \A s \in InFlight : reqs[s].kind # "create"
BY DEF CalmInv, BeforeCreation, DuringCreation

\* An owner who invites does not name the owner, itself and one who is about
\* to lose the ownership excepted.
LEMMA OwnerInvites ==
  ASSUME CalmInv, owner # None,
         \A s \in InFlight : reqs[s].kind # "create",
         NEW u \in Users, role[u] = "owner", NEW t \in Users,
         \A s \in InFlight : reqs[s].pending # {} => reqs[s].target # t
  PROVE  \/ t # owner
         \/ t = u
         \/ \E s \in InFlight : reqs[s].pending # {} /\ reqs[s].previous = t
<1>1. CASE \A s \in InFlight : reqs[s].pending = {}
  BY <1>1 DEF CalmInv, Settles
<1>2. ASSUME NEW s \in InFlight, reqs[s].pending # {}
      PROVE  t # owner \/ reqs[s].previous = t
  BY <1>2 DEF CalmInv, HalfWay
<1> QED BY <1>1, <1>2

LEMMA OpensCalm ==
  ASSUME TypeOK, CalmInv, NEW r \in Requests, NEW q \in Request,
         Opens(r, q), calm'
  PROVE  CalmInv'
<1>1. /\ UNCHANGED <<owner, role>>
      /\ reqs[r].pc = "idle" /\ reqs' = [reqs EXCEPT ![r] = q]
      /\ q.pending = {} /\ q.kind # "create"
      /\ ~Conflict(q.kind, q.target)
  BY DEF Opens
<1>2. owner # None /\ \A s \in InFlight : reqs[s].kind # "create"
  BY Created DEF Opens
<1>3. q.pc \in {"check", "read", "write"}
  BY FirstCallType DEF Opens
<1>4. /\ InFlight' = InFlight \cup {r} /\ reqs'[r] = q /\ r \notin InFlight
      /\ \A s \in InFlight : reqs'[s] = reqs[s]
  BY <1>1, <1>3 DEF InFlight, TypeOK
<1>5. /\ q.kind = "transfer" => \A s \in InFlight : reqs[s].kind # "transfer"
      /\ \A s \in InFlight : reqs[s].target = q.target =>
           /\ q.kind = "transfer" =>
                reqs[s].kind \notin {"share", "invite", "role", "remove"}
           /\ reqs[s].kind = "transfer" =>
                q.kind \notin {"share", "invite", "role", "remove"}
  BY <1>1 DEF Conflict
<1>6. BeforeCreation' /\ DuringCreation'
  BY <1>1, <1>2, <1>4 DEF BeforeCreation, DuringCreation
<1>7. TransfersApart'
  BY <1>4, <1>5 DEF CalmInv, TransfersApart
<1>8. OwnerStillRead'
  <2>1. ~(q.kind \in {"role", "remove"} /\ q.pc = "write")
    BY DEF Opens, FirstCall
  <2> QED BY <1>1, <1>3, <1>4, <2>1 DEF CalmInv, OwnerStillRead
<1>9. HalfWay'
  BY <1>1, <1>4 DEF CalmInv, HalfWay
<1>10. InvitesSpareOwner'
  <2>1. ASSUME q.kind = "invite", q.pc \in {"read", "write"}
        PROVE  /\ q.pc = "read"
               /\ \/ q.target # owner \/ q.target = q.actor
                  \/ \E s \in InFlight : reqs[s].pending # {}
                                         /\ reqs[s].previous = q.target
    <3>1. q.pc = "read" /\ May(q.actor, q.kind)
      BY <2>1 DEF Opens, FirstCall
    <3>2. q.actor \in Users /\ q.target \in Users
      BY DEF Request
    <3>3. role[q.actor] = "owner"
      BY <2>1, <3>1, <3>2, OnlyOwners
    <3>4. \A s \in InFlight : reqs[s].pending # {} => reqs[s].target # q.target
      BY <1>5, <2>1 DEF CalmInv, OwnerStillRead
    <3> QED BY <1>2, <3>1, <3>2, <3>3, <3>4, OwnerInvites
  <2> QED BY <1>1, <1>4, <2>1 DEF CalmInv, InvitesSpareOwner
<1>11. Settles'
  BY <1>1, <1>2, <1>4 DEF CalmInv, Settles
<1> QED BY <1>6, <1>7, <1>8, <1>9, <1>10, <1>11 DEF CalmInv

LEMMA GoesOnCalm ==
  ASSUME TypeOK, CalmInv, NEW r \in Requests, NEW q \in Request, GoesOn(r, q),
         calm'
  PROVE  CalmInv'
<1>1. /\ UNCHANGED <<owner, role, panel>> /\ reqs' = [reqs EXCEPT ![r] = q]
      /\ q.kind = reqs[r].kind /\ q.actor = reqs[r].actor
      /\ q.target = reqs[r].target
      /\ reqs[r].pc \in {"check", "read", "target"}
      /\ q.pc \in {"read", "target", "write"}
  BY FirstCallType DEF GoesOn
<1>2. r \in InFlight /\ reqs[r].kind # "create" /\ reqs[r].pending = {}
  BY <1>1 DEF InFlight, CalmInv, DuringCreation, OwnerStillRead
<1>3. owner # None /\ \A s \in InFlight : reqs[s].kind # "create"
  BY <1>2, Underway
<1>4. /\ InFlight' = InFlight /\ reqs'[r] = q
      /\ \A s \in InFlight : s # r => reqs'[s] = reqs[s]
  BY <1>1 DEF InFlight, TypeOK
<1>5. \/ q.pending = {}
      \/ reqs[r].pc = "target" /\ q.kind = "transfer"
  <2>1. reqs[r].pc = "target" => reqs[r].kind = "transfer"
    BY <1>2 DEF CalmInv, OwnerStillRead
  <2>2. q.pending = reqs[r].pending \/ reqs[r].pc = "target"
    BY DEF GoesOn
  <2> QED BY <1>1, <1>2, <2>1, <2>2
<1>6. BeforeCreation' /\ DuringCreation'
  BY <1>1, <1>3, <1>4 DEF BeforeCreation, DuringCreation
<1>7. TransfersApart'
  BY <1>1, <1>2, <1>4 DEF CalmInv, TransfersApart
<1>8. OwnerStillRead'
  <2>1. q.pending # {} =>
          q.kind = "transfer" /\ q.pc \notin {"check", "read", "target"}
    BY <1>2, <1>5 DEF GoesOn
  <2>2. q.pc = "target" =>
          q.kind = "transfer" /\ q.previous = owner /\ owner # q.target
    BY <1>1 DEF GoesOn, FirstCall
  <2>3. q.kind \in {"role", "remove"} /\ q.pc = "write" => q.target # owner
    BY <1>1, <1>2 DEF GoesOn, FirstCall, CalmInv, OwnerStillRead
  <2> QED BY <1>1, <1>4, <2>1, <2>2, <2>3 DEF CalmInv, OwnerStillRead
<1>9. HalfWay'
  <2>1. ASSUME q.pending # {}
        PROVE  /\ q.pending = Writes /\ q.previous = owner
               /\ owner # q.target /\ role[q.target] # NoRole
               /\ \A s \in InFlight : reqs[s].pending = {}
    BY <1>1, <1>2, <1>5, <2>1
       DEF GoesOn, CalmInv, OwnerStillRead, TransfersApart
  <2>2. q.pending # {} => \A u \in Users : role[u] = "owner" <=> u = owner
    BY <1>3, <2>1 DEF CalmInv, Settles
  <2> QED BY <1>1, <1>4, <2>1, <2>2 DEF CalmInv, HalfWay, Writes
<1>10. InvitesSpareOwner'
  <2>1. \A s \in InFlight : reqs[s].pending # {} =>
          reqs'[s].pending # {} /\ reqs'[s].previous = reqs[s].previous
    BY <1>2, <1>4
  <2>2. ASSUME q.kind = "invite", reqs[r].pc = "check"
        PROVE  /\ q.pc = "read"
               /\ \/ q.target # owner \/ q.target = q.actor
                  \/ \E s \in InFlight : reqs[s].pending # {}
                                         /\ reqs[s].previous = q.target
    <3>1. q.pc = "read" /\ May(q.actor, q.kind)
      BY <2>2 DEF GoesOn, FirstCall
    <3>2. q.actor \in Users /\ q.target \in Users
      BY DEF Request
    <3>3. role[q.actor] = "owner"
      BY <2>2, <3>1, <3>2, OnlyOwners
    <3>4. \A s \in InFlight : reqs[s].pending # {} => reqs[s].target # q.target
      <4>1. \A s \in InFlight : reqs[s].pending # {} =>
              s # r /\ reqs[s].kind = "transfer"
        BY <1>2 DEF CalmInv, OwnerStillRead
      <4>2. reqs[r].kind = "invite" /\ reqs[r].target = q.target
        BY <1>1, <2>2
      <4> QED BY <1>2, <4>1, <4>2 DEF CalmInv, TransfersApart
    <3> QED BY <1>3, <3>1, <3>2, <3>3, <3>4, OwnerInvites
  <2>3. ASSUME q.kind = "invite", reqs[r].pc # "check"
        PROVE  \/ q.target # owner
               \/ \E s \in InFlight : reqs[s].pending # {}
                                      /\ reqs[s].previous = q.target
    <3>1. reqs[r].pc = "read" /\ q.target # q.actor
      BY <1>1, <1>2, <2>3 DEF GoesOn, CalmInv, OwnerStillRead
    <3> QED BY <1>1, <1>2, <2>3, <3>1 DEF CalmInv, InvitesSpareOwner
  <2>4. ASSUME NEW s \in InFlight, reqs'[s].kind = "invite",
               reqs'[s].pc \in {"read", "write"}
        PROVE  \/ reqs'[s].target # owner
               \/ reqs'[s].pc = "read" /\ reqs'[s].target = reqs'[s].actor
               \/ \E o \in InFlight : reqs'[o].pending # {}
                    /\ reqs'[o].previous = reqs'[s].target
    <3>1. CASE s = r
      BY <1>4, <2>1, <2>2, <2>3, <2>4, <3>1
    <3>2. CASE s # r
      BY <1>4, <2>1, <2>4, <3>2 DEF CalmInv, InvitesSpareOwner
    <3> QED BY <3>1, <3>2
  <2> QED BY <1>1, <1>4, <2>4 DEF InvitesSpareOwner
<1>11. Settles'
  BY <1>1, <1>2, <1>4 DEF CalmInv, Settles
<1> QED BY <1>6, <1>7, <1>8, <1>9, <1>10, <1>11 DEF CalmInv

LEMMA WriteRoleCalm ==
  ASSUME TypeOK, CalmInv, NEW r \in Requests, WriteRole(r) \/ AnswerLost(r),
         calm'
  PROVE  CalmInv'
<1>1. /\ reqs[r].pc = "write"
      /\ reqs[r].kind \in {"share", "invite", "role", "remove"}
      /\ owner' = owner
      /\ reqs[r].kind = "share" => reqs[r].target # owner
  BY DEF WriteRole, AnswerLost, At
<1>2. r \in InFlight /\ reqs[r].kind # "create" /\ reqs[r].pending = {}
  BY <1>1 DEF InFlight, CalmInv, OwnerStillRead
<1>3. owner # None /\ \A s \in InFlight : reqs[s].kind # "create"
  BY <1>2, Underway
<1>4. /\ \A u \in Users : u # reqs[r].target => role'[u] = role[u]
      /\ reqs[r].target \in Users
      /\ role'[reqs[r].target] # "owner"
  <2>1. NewRole(reqs[r]) \in Given \cup {NoRole} /\ reqs[r] \in Request
    BY <1>1, InFlightType, NewRoleType
  <2>2. role' = [role EXCEPT ![reqs[r].target] = NewRole(reqs[r])]
    BY Zenon DEF WriteRole, AnswerLost
  <2> QED BY <2>1, <2>2 DEF TypeOK, Rows, Given, NoRole, Request
<1>5. /\ \A s \in Requests : s # r => reqs'[s] = reqs[s]
      /\ reqs'[r].pc # "idle" =>
           /\ reqs'[r].pc \in {"answered", "over"}
           /\ reqs'[r].kind = reqs[r].kind
           /\ reqs'[r].target = reqs[r].target
           /\ reqs'[r].pending = {}
  <2>1. PICK ok \in BOOLEAN : Answer(r, ok)
    BY DEF WriteRole, AnswerLost
  <2>2. reqs' = [reqs EXCEPT ![r] = Answered(reqs[r], ok)]
    BY <2>1 DEF Answer
  <2> QED BY <1>1, <1>2, <2>2, InFlightType, AnsweredFields DEF TypeOK, Idle
<1>6. /\ InFlight' \subseteq InFlight
      /\ \A s \in InFlight : s # r => s \in InFlight' /\ reqs'[s] = reqs[s]
      /\ r \in InFlight' => /\ reqs'[r].pc \in {"answered", "over"}
                            /\ reqs'[r].kind = reqs[r].kind
                            /\ reqs'[r].target = reqs[r].target
                            /\ reqs'[r].pending = {}
  BY <1>2, <1>5 DEF InFlight
<1>7. BeforeCreation' /\ DuringCreation'
  <2>1. \A s \in InFlight' : reqs'[s].kind # "create"
    BY <1>2, <1>3, <1>6
  <2> QED BY <1>1, <1>3, <2>1 DEF BeforeCreation, DuringCreation
<1>8. TransfersApart'
  BY <1>2, <1>6 DEF CalmInv, TransfersApart
<1>9. OwnerStillRead'
  BY <1>1, <1>6 DEF CalmInv, OwnerStillRead
<1>10. HalfWay'
  <2>1. ASSUME NEW s \in InFlight', reqs'[s].pending # {}
        PROVE  /\ s \in InFlight /\ s # r /\ reqs'[s] = reqs[s]
               /\ reqs[s].target # reqs[r].target
    BY <1>1, <1>2, <1>6, <2>1 DEF CalmInv, TransfersApart, OwnerStillRead
  <2>2. ASSUME NEW s \in InFlight', reqs'[s].pending # {}
        PROVE  reqs'[s].target \in Users
    <3>1. reqs[s] \in Request
      BY <2>1, <2>2, InFlightType DEF InFlight
    <3> QED BY <2>1, <2>2, <3>1 DEF Request
  <2> QED BY <1>1, <1>4, <2>1, <2>2 DEF CalmInv, HalfWay
<1>11. InvitesSpareOwner'
  BY <1>1, <1>2, <1>6 DEF CalmInv, InvitesSpareOwner
<1>12. Settles'
  <2> SUFFICES ASSUME \A s \in InFlight' : reqs'[s].pending = {}
               PROVE  \A u \in Users : role'[u] = "owner" <=> u = owner
    BY <1>1 DEF Settles
  <2>1. \A s \in InFlight : reqs[s].pending = {}
    BY <1>2, <1>6
  <2>2. \A u \in Users : role[u] = "owner" <=> u = owner
    BY <1>3, <2>1 DEF CalmInv, Settles
  <2>3. reqs[r].target # owner
    BY <1>1, <1>2, <2>1 DEF CalmInv, OwnerStillRead, InvitesSpareOwner
  <2> QED BY <1>4, <2>2, <2>3
<1> QED BY <1>7, <1>8, <1>9, <1>10, <1>11, <1>12 DEF CalmInv

LEMMA TransferCalm ==
  ASSUME TypeOK, CalmInv, NEW r \in Requests, NEW w \in Writes,
         TransferWrite(r, w)
  PROVE  CalmInv'
<1> DEFINE p == reqs[r].previous
           t == reqs[r].target
           left == reqs[r].pending \ {w}
<1>1. /\ reqs[r] \in Request /\ w \in reqs[r].pending
      /\ TransferEffect(reqs[r], w)
      /\ reqs[r].pc \in {"write", "answered", "over"}
  BY TransferRequests DEF TransferWrite
<1>2. /\ r \in InFlight /\ reqs[r].kind = "transfer" /\ t \in Users
      /\ owner # None /\ \A s \in InFlight : reqs[s].kind # "create"
  <2>1. r \in InFlight /\ t \in Users
    BY <1>1 DEF InFlight, Request
  <2>2. reqs[r].kind = "transfer"
    BY <1>1, <2>1 DEF CalmInv, OwnerStillRead
  <2> QED BY <2>1, <2>2, Underway
<1>3. \A s \in InFlight : s # r =>
        /\ reqs[s].kind # "transfer" /\ reqs[s].pending = {}
        /\ reqs[s].kind \in {"share", "invite", "role", "remove"} =>
             reqs[s].target # t
  BY <1>2 DEF CalmInv, TransfersApart, OwnerStillRead
<1>4. /\ InFlight' \subseteq InFlight
      /\ \A s \in InFlight : s # r => s \in InFlight' /\ reqs'[s] = reqs[s]
      /\ r \in InFlight' =>
           /\ reqs'[r].pc \in {"write", "answered", "over"}
           /\ reqs'[r].kind = "transfer" /\ reqs'[r].target = t
           /\ reqs'[r].previous = p /\ reqs'[r].pending = left
      /\ r \notin InFlight' => left = {}
  BY <1>1, <1>2, TransferRequests DEF Rest, InFlight, Idle, Request
\* The ownership before this write, and after it.
<1>5. /\ p # t
      /\ \A u \in Users : role[u] = "owner" => u \in {p, t}
      /\ "demote" \notin reqs[r].pending /\ p \in Users => role[p] # "owner"
      /\ "promote" \notin reqs[r].pending => role[t] = "owner"
      /\ "promote" \in reqs[r].pending => role[t] # NoRole
      /\ owner = IF "save" \in reqs[r].pending THEN p ELSE t
  BY <1>1, <1>2 DEF CalmInv, HalfWay
<1>6. /\ \A u \in Users : role'[u] = "owner" => u \in {p, t}
      /\ "demote" \notin left /\ p \in Users => role'[p] # "owner"
      /\ "promote" \notin left => role'[t] = "owner"
      /\ "promote" \in left => role'[t] # NoRole
      /\ owner' = IF "save" \in left THEN p ELSE t
  <2>1. CASE w = "save"
    BY <1>1, <1>5, <2>1 DEF TransferEffect
  <2>2. CASE w = "demote"
    <3>1. /\ owner' = owner
          /\ \A u \in Users :
               role'[u] = IF u = p /\ role[u] # NoRole THEN "editor"
                          ELSE role[u]
      BY <1>1, <2>2 DEF TransferEffect, TypeOK, Rows
    <3> QED BY <1>2, <1>5, <2>2, <3>1 DEF NoRole
  <2>3. CASE w = "promote"
    <3>1. /\ owner' = owner
          /\ \A u \in Users :
               role'[u] = IF u = t /\ role[u] # NoRole THEN "owner"
                          ELSE role[u]
      BY <1>1, <2>3 DEF TransferEffect, TypeOK, Rows
    <3> QED BY <1>1, <1>2, <1>5, <2>3, <3>1 DEF NoRole
  <2> QED BY <2>1, <2>2, <2>3 DEF Writes
<1>7. owner' \in {owner, t} /\ owner' # None
  <2>1. owner' \in {owner, t}
    BY <1>5, <1>6
  <2> QED BY <1>2, <2>1, NoneIsNobody
<1> HIDE DEF p, t, left
<1>8. BeforeCreation' /\ DuringCreation'
  <2>1. \A s \in InFlight' : reqs'[s].kind # "create"
    BY <1>2, <1>4
  <2> QED BY <1>7, <2>1 DEF BeforeCreation, DuringCreation
<1>9. TransfersApart'
  BY <1>3, <1>4 DEF TransfersApart
<1>10. OwnerStillRead'
  <2>1. ASSUME NEW s \in InFlight', s # r
        PROVE  /\ reqs'[s] = reqs[s] /\ s \in InFlight
               /\ reqs[s].kind # "transfer" /\ reqs[s].pending = {}
    BY <1>3, <1>4, <2>1
  <2> QED BY <1>3, <1>4, <1>7, <2>1 DEF CalmInv, OwnerStillRead
<1>11. HalfWay'
  <2>1. \A s \in InFlight' : reqs'[s].pending # {} => s = r
    BY <1>3, <1>4
  <2> QED BY <1>4, <1>5, <1>6, <2>1 DEF HalfWay
<1>12. InvitesSpareOwner'
  <2> SUFFICES ASSUME NEW s \in InFlight', reqs'[s].kind = "invite",
                      reqs'[s].pc \in {"read", "write"}
               PROVE  \/ reqs'[s].target # owner'
                      \/ reqs'[s].pc = "read"
                         /\ reqs'[s].target = reqs'[s].actor
                      \/ \E o \in InFlight' :
                           /\ reqs'[o].pending # {}
                           /\ reqs'[o].previous = reqs'[s].target
    BY DEF InvitesSpareOwner
  <2>1. /\ s \in InFlight /\ s # r /\ reqs'[s] = reqs[s]
        /\ reqs[s].target # t
    BY <1>3, <1>4
  <2>2. CASE owner' = t
    BY <2>1, <2>2
  <2>3. CASE owner' # t
    <3>1. owner' = p /\ left # {} /\ r \in InFlight'
      BY <1>4, <1>6, <2>3
    <3> QED BY <1>4, <3>1
  <2> QED BY <2>2, <2>3
<1>13. Settles'
  <2> SUFFICES ASSUME \A s \in InFlight' : reqs'[s].pending = {}
               PROVE  \A u \in Users : role'[u] = "owner" <=> u = owner'
    BY DEF Settles
  <2>1. left = {}
    BY <1>4
  <2> QED BY <1>2, <1>5, <1>6, <2>1
<1> QED BY <1>8, <1>9, <1>10, <1>11, <1>12, <1>13 DEF CalmInv

LEMMA InitIInv == Init => IInv
BY InitType, InitCalm DEF IInv, Init, ListOK, Idle

LEMMA NextIInv ==
  ASSUME IInv, [Next]_vars
  PROVE  IInv'
<1>1. TypeOK /\ TypeOK' /\ ListOK'
  BY NextType, ListStep DEF IInv
<1> SUFFICES ASSUME calm' PROVE CalmInv'
  BY <1>1 DEF IInv
<1>2. CASE Quiet
  BY <1>1, <1>2, QuietCalm DEF Quiet, IInv
<1>3. ASSUME NEW r \in Requests, NEW u \in Users, Create(r, u)
      PROVE  CalmInv'
  BY <1>1, <1>3, CreateCalm DEF Create, IInv
<1>4. ASSUME NEW r \in Requests, CreatePermission(r) PROVE CalmInv'
  BY <1>1, <1>4, CreatePermissionCalm DEF CreatePermission, IInv
<1>5. ASSUME NEW r \in Requests, NEW q \in Request, Opens(r, q)
      PROVE  CalmInv'
  BY <1>1, <1>5, OpensCalm DEF Opens, IInv
<1>6. ASSUME NEW r \in Requests, NEW q \in Request, GoesOn(r, q)
      PROVE  CalmInv'
  BY <1>1, <1>6, GoesOnCalm DEF GoesOn, IInv
<1>7. ASSUME NEW r \in Requests, WriteRole(r) \/ AnswerLost(r)
      PROVE  CalmInv'
  <2>1. calm
    BY <1>7 DEF WriteRole, AnswerLost
  <2> QED BY <1>1, <1>7, <2>1, WriteRoleCalm DEF IInv
<1>8. ASSUME NEW r \in Requests, NEW w \in Writes,
             TransferWrite(r, w) \/ TransferWriteFails(r, w)
      PROVE  CalmInv'
  <2>1. TransferWrite(r, w) /\ calm
    BY <1>8 DEF TransferWrite, TransferWriteFails
  <2> QED BY <1>1, <2>1, TransferCalm DEF IInv
<1> QED BY <1>1, <1>2, <1>3, <1>4, <1>5, <1>6, <1>7, <1>8, StepKinds

\* The one owner is the one the document names, whatever number of users and
\* requests, unless something has happened that the routes do not expect.
THEOREM OwnerIsUnique == Spec => []OneOwner
<1>1. IInv => OneOwner
  BY DEF IInv, CalmInv, Settles, OneOwner, AtRest, Owners, TypeOK
<1> QED BY <1>1, InitIInv, NextIInv, PTL DEF Spec

-----------------------------------------------------------------------------
(* The panel shows the roles as they are.                                  *)

\* The panel's requests are what the panel sends; only they are answered to
\* somebody, and only while the panel is open.
MineOK ==
  /\ \A r \in Requests : reqs[r].pc = "answered" => reqs[r].mine
  /\ \A r \in Mine :
       /\ panel.open
       /\ reqs[r].actor = Me
       /\ reqs[r].kind \in {"list", "invite", "role", "remove", "transfer"}

\* A transfer takes the ownership from the one who asked for it, and is not
\* answered before its writes are done.
TransfersByOwner ==
  \A r \in InFlight : reqs[r].kind = "transfer" =>
    /\ reqs[r].pc \in {"read", "target"} => owner = reqs[r].actor
    /\ reqs[r].pending # {} =>
         reqs[r].previous = reqs[r].actor /\ reqs[r].pc = "write"

\* A request that has begun to change roles, and whose answer will say so.
Effective(q) == q.pending # {} \/ (q.pc = "answered" /\ q.ok)

\* The row of u is the business of q.
Concerns(q, u) == q.target = u \/ (q.kind = "transfer" /\ u = Me)

\* The panel's requests are about different rows, and its fetch is alone.
OneEach ==
  \A r, s \in Mine : r # s =>
    reqs[r].target # reqs[s].target /\ reqs[r].kind # "list"

\* What was fetched is still so.
FetchedRows ==
  \A r \in Mine :
    reqs[r].kind = "list" /\ reqs[r].pc = "answered" /\ reqs[r].ok =>
      reqs[r].rows = role

\* The rows that no effective request concerns are as they are shown.
OtherRows ==
  (\A r \in Mine : reqs[r].kind # "list") =>
    \A u \in Users :
      (\A r \in Mine : Effective(reqs[r]) => ~Concerns(reqs[r], u)) =>
        panel.list[u] = role[u]

\* The answer to an effective request q makes the panel show the roles.
WillShow(q) ==
  /\ q.kind = "invite" => role[q.target] = q.role
  /\ q.kind = "remove" => role[q.target] = NoRole
  /\ q.kind = "role" => panel.list[q.target] # NoRole
                        /\ role[q.target] = q.role
  /\ q.kind = "transfer" =>
       /\ panel.list[Me] = "owner" /\ panel.list[q.target] # NoRole
       /\ role[Me] # NoRole /\ role[q.target] # NoRole
       /\ "demote" \notin q.pending => role[Me] = "editor"
       /\ "promote" \notin q.pending => role[q.target] = "owner"

AnswersWillShow ==
  \A r \in Mine : Effective(reqs[r]) /\ reqs[r].kind # "list" =>
    WillShow(reqs[r])

\* A request about the user's own row comes to nothing.
ForOthers(q) ==
  q.target = Me /\ q.kind # "list" =>
    /\ ~Effective(q)
    /\ q.kind = "invite" => q.pc \in {"check", "read", "answered"}
    /\ q.kind # "invite" => /\ q.pc \in {"check", "answered"}
                            /\ role[Me] # "owner"

OwnRowIsSpared == \A r \in Mine : ForOthers(reqs[r])

PanelRight ==
  /\ OneEach /\ FetchedRows /\ OtherRows /\ AnswersWillShow
  /\ OwnRowIsSpared

PInv ==
  /\ IInv /\ MineOK
  /\ calm => TransfersByOwner
  /\ calm /\ panel.open /\ panel.sole => PanelRight

\* A transfer in flight is the only one, and nothing else has parallel writes.
LEMMA OneTransfer ==
  ASSUME CalmInv, NEW r \in InFlight, reqs[r].kind = "transfer",
         reqs[r].pending = {}
  PROVE  \A s \in InFlight : reqs[s].pending = {}
BY DEF CalmInv, TransfersApart, OwnerStillRead

\* An owner who asks while no transfer writes is the owner.
LEMMA OwnerAsks ==
  ASSUME TypeOK, CalmInv, owner # None,
         \A s \in InFlight : reqs[s].kind # "create" /\ reqs[s].pending = {},
         NEW u \in Users, NEW kind, kind # "list", May(u, kind)
  PROVE  owner = u
BY OnlyOwners DEF CalmInv, Settles

\* The writes of a transfer are waited for until the last is done.
LEMMA QuietWrites ==
  ASSUME TypeOK, ListOK,
         \/ UNCHANGED vars \/ LoadPage \/ ClosePanel
         \/ \E r \in Requests : \/ ReadRows(r) \/ CallFails(r) \/ Receive(r)
                                \/ TimeOut(r) \/ Refused(r),
         NEW s \in Requests, reqs[s].pc = "write", reqs[s].pending # {}
  PROVE  reqs'[s].pc = "write"
<1>1. CASE UNCHANGED vars \/ LoadPage
  BY <1>1 DEF vars, LoadPage
<1>2. Unmounted(reqs[s]).pc = "write"
  <2>1. reqs[s] \in Request
    BY InFlightType
  <2> QED BY <2>1, UnmountedFields
<1>3. CASE ClosePanel
  BY <1>2, <1>3 DEF ClosePanel, InFlight
<1>4. ASSUME NEW r \in Requests,
             ReadRows(r) \/ CallFails(r) \/ Receive(r) \/ Refused(r)
      PROVE  r # s /\ reqs'[s] = reqs[s]
  <2>1. r # s
    BY <1>4 DEF ReadRows, CallFails, Receive, Refused, Check, Read,
       ReadTarget, ListOK, At
  <2> QED BY <1>4, <2>1
          DEF ReadRows, CallFails, Receive, Refused, Answer, TypeOK
<1>5. ASSUME NEW r \in Requests, TimeOut(r) PROVE reqs'[s].pc = "write"
  BY <1>2, <1>5 DEF TimeOut, TypeOK
<1> QED BY <1>1, <1>3, <1>4, <1>5

LEMMA TransfersStep ==
  ASSUME IInv, calm => TransfersByOwner, [Next]_vars, calm'
  PROVE  TransfersByOwner'
<1>1. TypeOK /\ ListOK /\ (calm => CalmInv)
  BY DEF IInv
<1>2. CASE \/ UNCHANGED vars \/ LoadPage \/ ClosePanel
           \/ \E r \in Requests : \/ ReadRows(r) \/ CallFails(r) \/ Receive(r)
                                  \/ TimeOut(r) \/ Refused(r)
  <2>1. Quiet
    BY <1>1, <1>2, QuietHandlers
  <2>2. TransfersByOwner /\ UNCHANGED owner
    BY <2>1 DEF Quiet
  <2>3. ASSUME NEW s \in InFlight', reqs'[s].kind = "transfer"
        PROVE  /\ reqs'[s].pc \in {"read", "target"} =>
                    owner' = reqs'[s].actor
               /\ reqs'[s].pending # {} =>
                    /\ reqs'[s].previous = reqs'[s].actor
                    /\ reqs'[s].pc = "write"
    <3>1. /\ s \in InFlight
          /\ reqs'[s].kind = reqs[s].kind /\ reqs'[s].actor = reqs[s].actor
          /\ reqs'[s].previous = reqs[s].previous
          /\ reqs'[s].pending = reqs[s].pending
          /\ reqs'[s].pc \in {reqs[s].pc, "answered", "over"}
      BY <2>1, <2>3 DEF Quiet, Carried, Further, InFlight, Idle
    <3>2. reqs'[s].pending # {} => reqs'[s].pc = "write"
      BY <1>1, <1>2, <2>2, <2>3, <3>1, QuietWrites
         DEF TransfersByOwner, InFlight
    <3> QED BY <2>2, <2>3, <3>1, <3>2 DEF TransfersByOwner
  <2> QED BY <2>3 DEF TransfersByOwner
<1>3. ASSUME NEW r \in Requests, NEW u \in Users, Create(r, u)
      PROVE  TransfersByOwner'
  <2> DEFINE q == [New("create", u, u, "viewer") EXCEPT !.pc = "write"]
  <2>1. q.kind = "create"
    BY NewFields
  <2>2. reqs' = [reqs EXCEPT ![r] = q] /\ owner = None /\ calm
    BY <1>3 DEF Create
  <2> HIDE DEF q
  <2>3. InFlight = {}
    BY <1>1, <2>2 DEF CalmInv, BeforeCreation
  <2> QED BY <1>1, <2>1, <2>2, <2>3 DEF TransfersByOwner, InFlight, TypeOK
<1>4. ASSUME NEW r \in Requests,
             CreatePermission(r) \/ WriteRole(r) \/ AnswerLost(r)
      PROVE  TransfersByOwner'
  <2>1. /\ reqs[r].pc = "write" /\ reqs[r].kind # "transfer"
        /\ \E ok \in BOOLEAN : Answer(r, ok)
        /\ calm /\ UNCHANGED owner
    BY <1>4 DEF CreatePermission, WriteRole, AnswerLost, At
  <2>2. Carried /\ \A s \in Requests : s # r => reqs'[s] = reqs[s]
    BY <1>1, <2>1, AnswerCarries
  <2> QED BY <2>1, <2>2
          DEF TransfersByOwner, Carried, Further, InFlight, Idle
<1>5. ASSUME NEW r \in Requests, NEW q \in Request, Opens(r, q)
      PROVE  TransfersByOwner'
  <2>1. /\ UNCHANGED owner /\ reqs' = [reqs EXCEPT ![r] = q]
        /\ q.pending = {} /\ calm /\ ~Conflict(q.kind, q.target)
    BY <1>5 DEF Opens
  <2>2. owner # None /\ \A s \in InFlight : reqs[s].kind # "create"
    BY <1>1, <1>5, <2>1, Created DEF Opens
  <2>3. ASSUME q.kind = "transfer", q.pc \in {"read", "target"}
        PROVE  owner = q.actor
    <3>1. \A s \in InFlight : reqs[s].pending = {}
      BY <1>1, <2>1, <2>3 DEF Conflict, CalmInv, OwnerStillRead
    <3>2. May(q.actor, q.kind) /\ q.actor \in Users
      BY <1>5, <2>3 DEF Opens, Request
    <3> QED BY <1>1, <2>1, <2>2, <2>3, <3>1, <3>2, OwnerAsks
  <2> QED BY <1>1, <2>1, <2>3 DEF TransfersByOwner, InFlight, TypeOK
<1>6. ASSUME NEW r \in Requests, NEW q \in Request, GoesOn(r, q)
      PROVE  TransfersByOwner'
  <2>1. /\ UNCHANGED owner /\ reqs' = [reqs EXCEPT ![r] = q] /\ calm
        /\ q.kind = reqs[r].kind /\ q.actor = reqs[r].actor
        /\ reqs[r].pc \in {"check", "read", "target"}
    BY <1>6 DEF GoesOn
  <2>2. r \in InFlight /\ reqs[r].pending = {} /\ reqs[r].kind # "create"
    BY <1>1, <2>1 DEF InFlight, CalmInv, OwnerStillRead, DuringCreation
  <2>3. owner # None /\ \A s \in InFlight : reqs[s].kind # "create"
    BY <1>1, <2>1, <2>2, Underway
  <2>4. ASSUME q.kind = "transfer", q.pc \in {"read", "target"}
        PROVE  owner = q.actor
    <3>1. CASE reqs[r].pc = "check"
      <4>1. \A s \in InFlight : reqs[s].pending = {}
        BY <1>1, <2>1, <2>2, <2>4, OneTransfer
      <4>2. May(q.actor, q.kind) /\ q.actor \in Users
        BY <1>6, <3>1 DEF GoesOn, Request
      <4> QED BY <1>1, <2>1, <2>3, <2>4, <4>1, <4>2, OwnerAsks
    <3>2. CASE reqs[r].pc # "check"
      BY <2>1, <2>2, <2>4, <3>2 DEF TransfersByOwner
    <3> QED BY <3>1, <3>2
  <2>5. ASSUME q.kind = "transfer", q.pending # {}
        PROVE  q.previous = q.actor /\ q.pc = "write"
    <3>1. /\ reqs[r].pc = "target" /\ q.pc = "write"
          /\ q.previous = reqs[r].previous
      BY <1>6, <2>2, <2>5 DEF GoesOn
    <3>2. reqs[r].previous = owner /\ owner = reqs[r].actor
      BY <1>1, <2>1, <2>2, <2>5, <3>1
         DEF TransfersByOwner, CalmInv, OwnerStillRead
    <3> QED BY <2>1, <3>1, <3>2
  <2> QED BY <1>1, <2>1, <2>4, <2>5 DEF TransfersByOwner, InFlight, TypeOK
<1>7. ASSUME NEW r \in Requests, NEW w \in Writes,
             TransferWrite(r, w) \/ TransferWriteFails(r, w)
      PROVE  TransfersByOwner'
  <2>1. TransferWrite(r, w) /\ calm
    BY <1>7 DEF TransferWrite, TransferWriteFails
  <2>2. /\ reqs[r] \in Request /\ w \in reqs[r].pending
        /\ \A s \in Requests : s # r => reqs'[s] = reqs[s]
        /\ Rest(reqs[r], w, reqs'[r])
    BY <1>1, <2>1, TransferRequests
  <2>3. r \in InFlight /\ reqs[r].kind = "transfer"
    BY <1>1, <2>1, <2>2
       DEF InFlight, CalmInv, OwnerStillRead, TransferWrite
  <2>4. \A s \in InFlight : s # r => reqs[s].kind # "transfer"
    BY <1>1, <2>1, <2>3 DEF CalmInv, TransfersApart
  <2>5. reqs[r].pc = "write" /\ reqs[r].previous = reqs[r].actor
    BY <2>1, <2>2, <2>3 DEF TransfersByOwner
  <2>6. ASSUME reqs'[r].pending # {}, reqs'[r].pc # "idle"
        PROVE  reqs'[r].pc = "write"
    <3> DEFINE left == [reqs[r] EXCEPT !.pending = reqs[r].pending \ {w}]
    <3>1. reqs'[r] = Settled(reqs[r], w)
      BY <1>1, <2>1 DEF TransferWrite, TypeOK
    <3>2. /\ left \in Request /\ left.pc = "write"
          /\ left.pending = reqs[r].pending \ {w}
      BY <2>2, <2>5 DEF Request
    <3>3. left.pending # {}
      BY <2>2, <2>6, <3>2 DEF Rest, Idle
    <3> QED BY <3>1, <3>2, <3>3 DEF Settled
  <2>7. reqs'[r].pc \notin {"read", "target"}
    BY <2>2, <2>5 DEF Rest, Idle
  <2> QED BY <2>2, <2>4, <2>5, <2>6, <2>7
          DEF TransfersByOwner, InFlight, Rest, Idle
<1> QED BY <1>1, <1>2, <1>3, <1>4, <1>5, <1>6, <1>7, ChecksGoOn, NewRequests
        DEF Next

-----------------------------------------------------------------------------
\* One request changes, and the panel stays open or closed.
LEMMA OneOfMine ==
  ASSUME MineOK, NEW r \in Requests,
         \A s \in Requests : s # r => reqs'[s] = reqs[s],
         panel'.open = panel.open,
         reqs'[r].pc = "answered" => reqs'[r].mine,
         reqs'[r].pc # "idle" /\ reqs'[r].mine =>
           /\ panel.open /\ reqs'[r].actor = Me
           /\ reqs'[r].kind \in {"list", "invite", "role", "remove", "transfer"}
  PROVE  MineOK'
BY DEF MineOK, Mine, InFlight

\* The request q later on, idle or answered if it is the panel's.
Later(q, s) ==
  \/ s = Idle
  \/ /\ s.kind = q.kind /\ s.actor = q.actor
     /\ s.mine => q.mine
     /\ s.pc = "answered" => s.mine

LEMMA LaterMine ==
  ASSUME MineOK, NEW r \in Requests, reqs[r].pc # "idle",
         \A s \in Requests : s # r => reqs'[s] = reqs[s],
         panel'.open = panel.open, Later(reqs[r], reqs'[r])
  PROVE  MineOK'
<1>1. /\ reqs'[r].pc = "answered" => reqs'[r].mine
      /\ reqs'[r].pc # "idle" /\ reqs'[r].mine =>
           /\ panel.open /\ reqs'[r].actor = Me
           /\ reqs'[r].kind \in {"list", "invite", "role", "remove",
                                 "transfer"}
  BY DEF Later, Idle, MineOK, Mine, InFlight
<1> QED BY <1>1, OneOfMine

LEMMA AnsweredLater ==
  ASSUME NEW q \in Request, NEW ok \in BOOLEAN
  PROVE  Later(q, Answered(q, ok))
BY DEF Answered, Later, Request

LEMMA UnmountedLater ==
  ASSUME NEW q \in Request
  PROVE  /\ Later(q, Unmounted(q))
         /\ ~(Unmounted(q).pc # "idle" /\ Unmounted(q).mine)
BY DEF Unmounted, Later, Request, Idle

LEMMA SettledLater ==
  ASSUME NEW q \in Request, NEW w \in Writes, q.pc = "answered" => q.mine
  PROVE  /\ Later(q, Settled(q, w))
         /\ Later(q, Answered([q EXCEPT !.pending = q.pending \ {w}], FALSE))
<1> DEFINE left == [q EXCEPT !.pending = q.pending \ {w}]
<1>1. /\ left \in Request /\ left.kind = q.kind /\ left.actor = q.actor
      /\ left.mine = q.mine /\ left.pc = q.pc
  BY DEF Request
<1>2. \/ Settled(q, w) = left
      \/ Settled(q, w) = Idle
      \/ \E ok \in BOOLEAN : Settled(q, w) = Answered(left, ok)
  BY DEF Settled
<1> HIDE DEF left
<1>3. \A ok \in BOOLEAN : Later(q, Answered(left, ok))
  BY <1>1, AnsweredLater DEF Later
<1>4. Later(q, left) /\ Later(q, Idle)
  BY <1>1 DEF Later
<1>5. Later(q, Settled(q, w))
  BY <1>2, <1>3, <1>4
<1>6. Later(q, Answered(left, FALSE))
  BY <1>3
<1> QED BY <1>5, <1>6 DEF left

LEMMA MineStep ==
  ASSUME TypeOK, MineOK, [Next]_vars
  PROVE  MineOK'
<1>1. CASE UNCHANGED vars
  BY <1>1 DEF vars, MineOK, Mine, InFlight
<1>2. CASE LoadPage
  BY <1>2 DEF LoadPage, MineOK, Mine, InFlight
<1>3. CASE ClosePanel
  <2>1. \A s \in InFlight : reqs[s] \in Request
    BY InFlightType DEF InFlight
  <2>2. \A s \in InFlight :
          /\ ~(reqs'[s].pc # "idle" /\ reqs'[s].mine)
          /\ reqs'[s].pc # "answered"
    BY <1>3, <2>1, UnmountedLater DEF ClosePanel, InFlight, Later, Idle
  <2>3. \A s \in Requests : s \notin InFlight => reqs'[s].pc = "idle"
    BY <1>3 DEF ClosePanel, InFlight
  <2> QED BY <2>2, <2>3 DEF MineOK, Mine, InFlight
<1>4. ASSUME NEW r \in Requests, NEW kind, NEW u, NEW t, NEW new,
             NEW pc \in {"read", "write"}, UNCHANGED panel,
             NEW exact,
             \/ reqs' = [reqs EXCEPT ![r] =
                            [New(kind, u, t, new) EXCEPT !.pc = pc]]
             \/ reqs' = [reqs EXCEPT ![r] =
                            [New(kind, u, t, new)
                               EXCEPT !.pc = pc, !.exact = exact]]
      PROVE  MineOK'
  <2>1. ~reqs'[r].mine /\ reqs'[r].pc \in {"read", "write"}
    <3> DEFINE q == [New(kind, u, t, new) EXCEPT !.pc = pc]
               e == [New(kind, u, t, new) EXCEPT !.pc = pc, !.exact = exact]
    <3>1. /\ ~q.mine /\ q.pc = pc
          /\ ~e.mine /\ e.pc = pc
      BY NewFields
    <3>2. reqs' = [reqs EXCEPT ![r] = q] \/ reqs' = [reqs EXCEPT ![r] = e]
      BY <1>4
    <3> HIDE DEF q, e
    <3> QED BY <1>4, <3>1, <3>2 DEF TypeOK
  <2>2. \A s \in Requests : s # r => reqs'[s] = reqs[s]
    BY <1>4 DEF TypeOK
  <2> QED BY <1>4, <2>1, <2>2, OneOfMine
<1>5. ASSUME NEW r \in Requests, OpenPanel(r) PROVE MineOK'
  <2> DEFINE q == [New("list", Me, Me, "viewer") EXCEPT !.mine = TRUE]
  <2>1. q.pc = "check" /\ q.actor = Me /\ q.kind = "list"
    BY NewFields
  <2>2. reqs' = [reqs EXCEPT ![r] = q] /\ panel'.open /\ ~panel.open
    BY <1>5 DEF OpenPanel, Closed
  <2> HIDE DEF q
  <2> QED BY <2>1, <2>2 DEF MineOK, Mine, InFlight, TypeOK
<1>6. ASSUME NEW r \in Requests,
             NEW kind \in Kinds \ {"create", "list", "share"},
             NEW t \in Users, NEW new \in Given, panel.open,
             Send(r, kind, t, new)
      PROVE  MineOK'
  <2> DEFINE q == [New(kind, Me, t, new) EXCEPT !.mine = TRUE]
  <2>1. q.pc = "check" /\ q.actor = Me /\ q.kind = kind
    BY NewFields
  <2>2. reqs' = [reqs EXCEPT ![r] = q] /\ panel'.open = panel.open
    BY <1>6 DEF Send, TypeOK, Panel
  <2> HIDE DEF q
  <2> QED BY <1>6, <2>1, <2>2, OneOfMine DEF TypeOK, Kinds
<1>7. ASSUME NEW r \in Requests, NEW q, reqs[r].pc # "idle",
             reqs' = [reqs EXCEPT ![r] = q], Later(reqs[r], q),
             panel'.open = panel.open
      PROVE  MineOK'
  BY <1>7, LaterMine DEF TypeOK
<1>8. ASSUME NEW r \in Requests, NEW ok \in BOOLEAN, reqs[r].pc # "idle",
             Answer(r, ok), panel'.open = panel.open
      PROVE  MineOK'
  BY <1>7, <1>8, InFlightType, AnsweredLater DEF Answer
<1>9. ASSUME NEW r \in Requests, Seen(r) PROVE panel'.open = panel.open
  BY <1>9 DEF Seen, TypeOK, Panel
<1>10. ASSUME NEW r \in Requests,
              CreatePermission(r) \/ WriteRole(r) \/ AnswerLost(r)
                \/ CallFails(r) \/ Refused(r)
       PROVE  MineOK'
  <2>1. reqs[r].pc # "idle" /\ \E ok \in BOOLEAN : Answer(r, ok)
    BY <1>10 DEF CreatePermission, WriteRole, AnswerLost, CallFails, Refused,
       Check, Read, ReadTarget, At
  <2>2. panel'.open = panel.open
    BY <1>9, <1>10 DEF CreatePermission, WriteRole, AnswerLost, CallFails,
       Refused, Check, Read, ReadTarget, TypeOK, Panel
  <2> QED BY <1>8, <2>1, <2>2
<1>11. ASSUME NEW r \in Requests, NEW q \in Request, GoesOn(r, q)
       PROVE  MineOK'
  <2>1. Later(reqs[r], q) /\ reqs[r].pc # "idle"
    BY <1>11, FirstCallType DEF GoesOn, Later
  <2> QED BY <1>7, <1>11, <2>1 DEF GoesOn
<1>12. ASSUME NEW r \in Requests, ReadRows(r) PROVE MineOK'
  <2> DEFINE q == [reqs[r] EXCEPT !.rows = role]
  <2>1. reqs[r] \in Request /\ reqs[r].pc # "idle"
    BY <1>12, InFlightType DEF ReadRows, At
  <2>2. /\ q \in Request /\ q.kind = reqs[r].kind
        /\ q.actor = reqs[r].actor /\ q.mine = reqs[r].mine
    BY <2>1 DEF Request, TypeOK
  <2>3. reqs' = [reqs EXCEPT ![r] = Answered(q, TRUE)] /\ panel' = panel
    BY <1>12 DEF ReadRows
  <2> HIDE DEF q
  <2>4. Later(reqs[r], Answered(q, TRUE))
    BY <2>2, AnsweredLater DEF Later
  <2> QED BY <1>7, <2>1, <2>3, <2>4
<1>13. ASSUME NEW r \in Requests, NEW w \in Writes,
              TransferWrite(r, w) \/ TransferWriteFails(r, w)
       PROVE  MineOK'
  <2> DEFINE left == [reqs[r] EXCEPT !.pending = reqs[r].pending \ {w}]
  <2>1. reqs[r].pc # "idle" /\ reqs[r] \in Request
    BY <1>13, InFlightType DEF TransferWrite, TransferWriteFails
  <2>2. \/ reqs' = [reqs EXCEPT ![r] = Settled(reqs[r], w)]
        \/ reqs' = [reqs EXCEPT ![r] = Answered(left, FALSE)]
    BY <1>13 DEF TransferWrite, TransferWriteFails
  <2>3. panel'.open = panel.open
    BY <1>9, <1>13 DEF TransferWrite, TransferWriteFails, TypeOK, Panel
  <2>4. /\ Later(reqs[r], Settled(reqs[r], w))
        /\ Later(reqs[r], Answered(left, FALSE))
    BY <2>1, SettledLater DEF MineOK
  <2> HIDE DEF left
  <2> QED BY <1>7, <2>1, <2>2, <2>3, <2>4
<1>14. ASSUME NEW r \in Requests, Receive(r) PROVE MineOK'
  <2> DEFINE q == [[reqs[r] EXCEPT !.pc = "over"] EXCEPT !.mine = FALSE]
  <2>1. reqs[r] \in Request /\ reqs[r].pc = "answered"
    BY <1>14, InFlightType DEF Receive
  <2>2. Later(reqs[r], q) /\ Later(reqs[r], Idle)
    BY <2>1 DEF Later, Request
  <2>3. reqs' = [reqs EXCEPT ![r] = IF reqs[r].pending = {} THEN Idle ELSE q]
    BY <1>14 DEF Receive
  <2>4. panel'.open = panel.open
    BY <1>14 DEF Receive, Told, TypeOK, Panel
  <2> HIDE DEF q
  <2> QED BY <1>7, <2>1, <2>2, <2>3, <2>4
<1>15. ASSUME NEW r \in Requests, TimeOut(r) PROVE MineOK'
  <2>1. reqs[r] \in Request /\ reqs[r].pc # "idle"
    BY <1>15, InFlightType DEF TimeOut, Mine, InFlight
  <2>2. panel'.open = panel.open
    BY <1>15 DEF TimeOut, Told, TypeOK, Panel
  <2> QED BY <1>7, <1>15, <2>1, <2>2, UnmountedLater DEF TimeOut
<1>16. ASSUME NEW r \in Requests, NEW t \in Users, NEW new \in Given,
              \/ SubmitInvite(r, t, new)
              \/ \E kind \in Kinds : PressRow(r, kind, t, new)
       PROVE  MineOK'
  BY <1>6, <1>16 DEF SubmitInvite, PressRow, Kinds
<1>17. ASSUME NEW r \in Requests, NEW u \in Users, Create(r, u)
       PROVE  MineOK'
  BY <1>4, <1>17 DEF Create
<1>18. ASSUME NEW r \in Requests, NEW kind \in Kinds, NEW u \in Users,
              NEW t \in Users, NEW new \in Given, NEW exact \in BOOLEAN,
              Ask(r, kind, u, t, new, exact)
       PROVE  MineOK'
  BY <1>4, <1>18, FirstCallType DEF Ask
<1> QED BY <1>1, <1>2, <1>3, <1>5, <1>10, <1>11, <1>12, <1>13, <1>14,
           <1>15, <1>16, <1>17, <1>18, ChecksGoOn DEF Next

-----------------------------------------------------------------------------
\* What the panel's requests are, in the type of any request.
LEMMA MineType ==
  ASSUME TypeOK, NEW r \in Mine
  PROVE  /\ r \in Requests /\ r \in InFlight /\ reqs[r] \in Request
         /\ reqs[r].mine
BY InFlightType DEF Mine, InFlight

\* A step that changes no role, and a request that changes none by it.
LEMMA Ineffective ==
  ASSUME PanelRight, NEW r \in Requests, UNCHANGED role,
         panel'.list = panel.list,
         \A s \in Requests : s # r => reqs'[s] = reqs[s],
         r \in Mine <=> r \in Mine',
         r \in Mine => /\ reqs'[r].kind = reqs[r].kind
                       /\ reqs'[r].target = reqs[r].target
                       /\ ~Effective(reqs[r]) /\ ~Effective(reqs'[r])
                       /\ ForOthers(reqs'[r])
  PROVE  PanelRight'
<1>1. /\ Mine' = Mine
      /\ \A s \in Mine : s # r => reqs'[s] = reqs[s]
      /\ \A s \in Mine : reqs'[s].kind = reqs[s].kind
                         /\ reqs'[s].target = reqs[s].target
  BY DEF Mine, InFlight
<1>2. OneEach' /\ FetchedRows'
  BY <1>1 DEF PanelRight, OneEach, FetchedRows, Effective
<1>3. OtherRows'
  BY <1>1 DEF PanelRight, OtherRows, Concerns
<1>4. AnswersWillShow'
  BY <1>1 DEF PanelRight, AnswersWillShow, WillShow
<1>5. OwnRowIsSpared'
  <2>1. ASSUME NEW s \in Mine PROVE ForOthers(reqs[s])'
    <3>1. CASE s = r
      BY <2>1, <3>1 DEF ForOthers, Effective
    <3>2. CASE s # r
      BY <1>1, <2>1, <3>2
         DEF PanelRight, OwnRowIsSpared, ForOthers, Effective
    <3> QED BY <3>1, <3>2
  <2> QED BY <1>1, <2>1 DEF OwnRowIsSpared
<1> QED BY <1>2, <1>3, <1>4, <1>5 DEF PanelRight

\* An answer to a request of somebody else.
LEMMA OthersAnswered ==
  ASSUME TypeOK, PanelRight, NEW r \in Requests, ~reqs[r].mine,
         NEW q, ~q.mine, reqs' = [reqs EXCEPT ![r] = q],
         UNCHANGED role, panel'.list = panel.list
  PROVE  PanelRight'
<1>1. r \notin Mine /\ r \notin Mine'
  BY DEF Mine, TypeOK
<1> QED BY <1>1, Ineffective DEF TypeOK

\* A request without effect is answered with an error.
LEMMA AnsweredNo ==
  ASSUME TypeOK, PanelRight, NEW r \in Requests, reqs[r].pc # "idle",
         reqs[r].pc # "answered", reqs[r].pending = {}, Answer(r, FALSE),
         UNCHANGED role, panel'.list = panel.list
  PROVE  PanelRight'
<1>1. reqs[r] \in Request
  BY InFlightType
<1>2. reqs' = [reqs EXCEPT ![r] = Answered(reqs[r], FALSE)]
  BY DEF Answer
<1>3. CASE ~reqs[r].mine
  <2>1. r \notin Mine
    BY <1>3 DEF Mine
  <2>2. reqs'[r] = Idle
    BY <1>2, <1>3 DEF Answered, TypeOK
  <2>3. r \notin Mine'
    BY <2>2 DEF Mine, InFlight, Idle
  <2> QED BY <1>2, <2>1, <2>3, Ineffective DEF TypeOK
<1>4. CASE reqs[r].mine
  <2> DEFINE q == Answered(reqs[r], FALSE)
  <2>1. /\ q.pc = "answered" /\ ~q.ok /\ q.mine /\ q.pending = {}
        /\ q.kind = reqs[r].kind /\ q.target = reqs[r].target
    BY <1>1, <1>4 DEF Answered, Request
  <2>2. reqs'[r] = q /\ \A s \in Requests : s # r => reqs'[s] = reqs[s]
    BY <1>2 DEF TypeOK
  <2> HIDE DEF q
  <2>3. r \in Mine /\ r \in Mine'
    BY <1>4, <2>1, <2>2 DEF Mine, InFlight
  <2>4. ~Effective(reqs[r]) /\ ~Effective(reqs'[r])
    BY <2>1, <2>2 DEF Effective
  <2>5. ForOthers(reqs'[r])
    BY <2>1, <2>2, <2>3, <2>4 DEF ForOthers, PanelRight, OwnRowIsSpared
  <2> QED BY <2>1, <2>2, <2>3, <2>4, <2>5, Ineffective
<1> QED BY <1>3, <1>4

\* The next call of a request, up to the writes of a transfer.
LEMMA NextCallPanel ==
  ASSUME TypeOK, CalmInv, MineOK, PanelRight, NEW r \in Requests,
         NEW q \in Request, GoesOn(r, q), q.pending = {}, calm'
  PROVE  PanelRight'
<1>1. /\ UNCHANGED <<role, panel>> /\ reqs' = [reqs EXCEPT ![r] = q]
      /\ q.kind = reqs[r].kind /\ q.target = reqs[r].target
      /\ q.mine = reqs[r].mine /\ q.actor = reqs[r].actor
      /\ reqs[r].pc \in {"check", "read", "target"}
      /\ q.pc \in {"read", "target", "write"}
  BY FirstCallType DEF GoesOn
<1>2. CASE ~reqs[r].mine
  BY <1>1, <1>2, OthersAnswered
<1>3. CASE reqs[r].mine
  <2>1. r \in Mine /\ r \in InFlight
    BY <1>1, <1>3 DEF Mine, InFlight
  <2>2. r \in Mine' /\ reqs'[r] = q
    BY <1>1, <1>3 DEF Mine, InFlight, TypeOK
  <2>3. ~Effective(q) /\ ~Effective(reqs[r])
    BY <1>1, <2>1 DEF Effective, CalmInv, OwnerStillRead
  <2>4. ForOthers(q)
    <3> SUFFICES ASSUME q.target = Me, q.kind # "list" PROVE ForOthers(q)
      BY DEF ForOthers
    <3>1. ForOthers(reqs[r]) /\ reqs[r].actor = Me
      BY <2>1 DEF PanelRight, OwnRowIsSpared, MineOK
    <3>2. CASE q.kind = "invite"
      <4>1. q.pc = "read"
        BY <1>1, <3>1, <3>2 DEF GoesOn, FirstCall, ForOthers
      <4> QED BY <2>3, <3>2, <4>1 DEF ForOthers
    <3>3. CASE q.kind # "invite"
      <4>1. reqs[r].pc = "check" /\ role[Me] # "owner"
        BY <1>1, <3>1, <3>3 DEF ForOthers
      <4>2. May(Me, q.kind)
        BY <1>1, <3>1, <4>1 DEF GoesOn
      <4> QED BY <4>1, <4>2, MeIsUser, OnlyOwners
    <3> QED BY <3>2, <3>3
  <2> QED BY <1>1, <2>1, <2>2, <2>3, <2>4, Ineffective DEF TypeOK
<1> QED BY <1>2, <1>3

\* The row of an effective request is not the user's own.
LEMMA NotOwnRow ==
  ASSUME PanelRight, NEW s \in Mine, Effective(reqs[s]), reqs[s].kind # "list"
  PROVE  reqs[s].target # Me
BY DEF PanelRight, OwnRowIsSpared, ForOthers

\* Beside a request that changes roles the panel fetches nothing.
LEMMA NoFetch ==
  ASSUME PanelRight, NEW r \in Mine, reqs[r].kind # "list"
  PROVE  \A s \in Mine : reqs[s].kind # "list"
BY DEF PanelRight, OneEach

\* A transfer of the panel begins to write.
LEMMA TransferBegins ==
  ASSUME TypeOK, CalmInv, MineOK, TransfersByOwner, PanelRight,
         NEW r \in Requests, NEW q \in Request, GoesOn(r, q),
         q.pending # {}, reqs[r].mine
  PROVE  PanelRight'
<1>1. /\ UNCHANGED <<role, panel>> /\ reqs' = [reqs EXCEPT ![r] = q]
      /\ q.kind = reqs[r].kind /\ q.target = reqs[r].target
      /\ q.mine = reqs[r].mine /\ q.actor = reqs[r].actor
      /\ reqs[r].pc \in {"check", "read", "target"}
  BY DEF GoesOn
<1>2. r \in InFlight /\ r \in Mine /\ reqs[r].pending = {}
  BY <1>1 DEF InFlight, Mine, CalmInv, OwnerStillRead
<1>3. /\ reqs[r].pc = "target" /\ q.pc = "write" /\ q.pending = Writes
      /\ role[q.target] # NoRole
  BY <1>2 DEF GoesOn
<1>4. reqs[r].kind = "transfer" /\ owner # q.target /\ owner = Me
  <2>1. reqs[r].kind = "transfer" /\ owner # reqs[r].target
    BY <1>2, <1>3 DEF CalmInv, OwnerStillRead
  <2>2. owner = reqs[r].actor /\ reqs[r].actor = Me
    BY <1>2, <1>3, <2>1 DEF TransfersByOwner, MineOK
  <2> QED BY <1>1, <2>1, <2>2
<1>5. role[Me] = "owner"
  <2>1. \A s \in InFlight : reqs[s].kind # "create" /\ reqs[s].pending = {}
    BY <1>2, <1>4, OneTransfer, Underway
  <2>2. owner # None
    BY <1>2, <1>4, Underway
  <2> QED BY <1>4, <2>1, <2>2, MeIsUser DEF CalmInv, Settles
<1>6. \A s \in Mine : reqs[s].kind # "list"
  BY <1>2, <1>4, NoFetch
<1>7. \A s \in Mine : Effective(reqs[s]) =>
        /\ s # r /\ ~Concerns(reqs[s], Me) /\ ~Concerns(reqs[s], q.target)
  <2>1. ASSUME NEW s \in Mine, Effective(reqs[s])
        PROVE  s # r /\ reqs[s].target # Me
    BY <1>2, <1>3, <1>6, <2>1, NotOwnRow DEF Effective
  <2>2. ASSUME NEW s \in Mine, s # r
        PROVE  reqs[s].target # q.target /\ reqs[s].kind # "transfer"
    BY <1>1, <1>2, <1>4, <2>2
       DEF PanelRight, OneEach, CalmInv, TransfersApart, Mine
  <2> QED BY <1>4, <2>1, <2>2 DEF Concerns
<1>8. panel.list[Me] = "owner" /\ panel.list[q.target] # NoRole
  <2>1. q.target \in Users
    BY DEF Request
  <2> QED BY <1>3, <1>5, <1>6, <1>7, <2>1, MeIsUser DEF PanelRight, OtherRows
<1>9. /\ Mine' = Mine /\ reqs'[r] = q
      /\ \A s \in Mine : s # r => reqs'[s] = reqs[s]
  BY <1>1, <1>2, <1>3 DEF Mine, InFlight, TypeOK
<1>10. WillShow(q)
  BY <1>3, <1>4, <1>5, <1>8, <1>1 DEF WillShow, Writes, NoRole
<1>11. ForOthers(q)
  BY <1>4 DEF ForOthers
<1>12. OneEach' /\ FetchedRows'
  BY <1>1, <1>6, <1>9 DEF PanelRight, OneEach, FetchedRows
<1>13. OtherRows'
  BY <1>1, <1>6, <1>7, <1>9 DEF PanelRight, OtherRows
<1>14. AnswersWillShow'
  <2>1. ASSUME NEW s \in Mine, Effective(reqs'[s]), reqs'[s].kind # "list"
        PROVE  WillShow(reqs[s])'
    BY <1>1, <1>9, <1>10, <2>1 DEF PanelRight, AnswersWillShow, WillShow
  <2> QED BY <1>9, <2>1 DEF AnswersWillShow, Effective
<1>15. OwnRowIsSpared'
  <2>1. ASSUME NEW s \in Mine PROVE ForOthers(reqs[s])'
    BY <1>1, <1>9, <1>11, <2>1
       DEF PanelRight, OwnRowIsSpared, ForOthers, Effective
  <2> QED BY <1>9, <2>1 DEF OwnRowIsSpared
<1> QED BY <1>12, <1>13, <1>14, <1>15 DEF PanelRight

\* The panel's answer after the single write of a request of the panel.
LEMMA WriteRolePanel ==
  ASSUME TypeOK, CalmInv, MineOK, PanelRight, NEW r \in Requests,
         WriteRole(r), reqs[r].mine
  PROVE  PanelRight'
<1> DEFINE q == reqs[r]
           t == reqs[r].target
           ok == q.kind # "role" \/ role[t] # NoRole
           a == Answered(q, ok)
<1>1. /\ q.pc = "write" /\ q \in Request /\ r \in Mine /\ r \in InFlight
      /\ q.kind \in {"invite", "role", "remove"} /\ t \in Users
  <2>1. q.pc = "write" /\ r \in Mine /\ r \in InFlight
    BY DEF WriteRole, At, Mine, InFlight
  <2>2. q \in Request /\ t \in Users
    BY <2>1, MineType DEF Request
  <2>3. q.kind \in {"share", "invite", "role", "remove"}
    BY DEF WriteRole, At
  <2> QED BY <2>1, <2>2, <2>3 DEF MineOK
<1>2. q.pending = {} /\ ~Effective(q)
  BY <1>1 DEF CalmInv, OwnerStillRead, Effective
<1>3. t # Me
  BY <1>1 DEF PanelRight, OwnRowIsSpared, ForOthers
<1>4. \A s \in Mine : reqs[s].kind # "list"
  BY <1>1, NoFetch
<1>5. \A s \in Mine : s # r => reqs[s].target # t
  BY <1>1 DEF PanelRight, OneEach
<1>6. panel.list[t] = role[t]
  <2>1. \A s \in Mine : Effective(reqs[s]) => ~Concerns(reqs[s], t)
    BY <1>2, <1>3, <1>5 DEF Concerns
  <2> QED BY <1>1, <1>4, <2>1 DEF PanelRight, OtherRows
<1>7. /\ role' = [role EXCEPT ![t] = NewRole(q)]
      /\ reqs' = [reqs EXCEPT ![r] = a]
      /\ UNCHANGED panel
  BY DEF WriteRole, Answer, Seen
<1>8. /\ \A u \in Users : u # t => role'[u] = role[u]
      /\ role'[t] = NewRole(q)
  BY <1>1, <1>7 DEF TypeOK, Rows
<1>9. /\ a.pc = "answered" /\ a.mine /\ a.pending = {} /\ a.ok = ok
      /\ a.kind = q.kind /\ a.target = t /\ a.role = q.role
  BY <1>1, <1>2 DEF Answered, Request
<1>10. reqs'[r] = a /\ \A s \in Requests : s # r => reqs'[s] = reqs[s]
  BY <1>7 DEF TypeOK
<1> HIDE DEF a
<1>11. /\ Mine' = Mine
       /\ \A s \in Mine : s # r => reqs'[s] = reqs[s]
       /\ \A s \in Mine : reqs'[s].kind = reqs[s].kind
                          /\ reqs'[s].target = reqs[s].target
  BY <1>1, <1>9, <1>10 DEF Mine, InFlight
<1>12. /\ q.kind = "invite" => NewRole(q) = q.role
       /\ q.kind = "remove" => NewRole(q) = NoRole
       /\ q.kind = "role" => NewRole(q) = IF ok THEN q.role ELSE NoRole
  BY DEF NewRole
<1>13. OneEach' /\ FetchedRows'
  BY <1>4, <1>11 DEF PanelRight, OneEach, FetchedRows
<1>14. OtherRows'
  <2>1. ASSUME NEW u \in Users,
               \A s \in Mine : Effective(reqs'[s]) => ~Concerns(reqs'[s], u)
        PROVE  panel.list[u] = role'[u]
    <3>1. CASE u = t
      <4>1. ~ok
        BY <1>1, <1>9, <1>10, <2>1, <3>1 DEF Effective, Concerns
      <4> QED BY <1>6, <1>8, <1>12, <3>1, <4>1
    <3>2. CASE u # t
      <4>1. \A s \in Mine : Effective(reqs[s]) => ~Concerns(reqs[s], u)
        BY <1>2, <1>11, <2>1 DEF Concerns
      <4> QED BY <1>4, <1>8, <3>2, <4>1 DEF PanelRight, OtherRows
    <3> QED BY <3>1, <3>2
  <2> QED BY <1>7, <1>11, <2>1 DEF OtherRows, Effective, Concerns
<1>15. AnswersWillShow'
  <2>1. ASSUME NEW s \in Mine, Effective(reqs'[s]), reqs'[s].kind # "list"
        PROVE  WillShow(reqs[s])'
    <3>1. CASE s = r
      <4>1. ok /\ reqs'[r] = a
        BY <1>9, <1>10, <2>1, <3>1 DEF Effective
      <4> QED BY <1>1, <1>6, <1>7, <1>8, <1>9, <1>12, <3>1, <4>1
              DEF WillShow
    <3>2. CASE s # r
      <4>1. WillShow(reqs[s]) /\ reqs'[s] = reqs[s]
        BY <1>11, <2>1, <3>2 DEF PanelRight, AnswersWillShow
      <4>2. role'[reqs[s].target] = role[reqs[s].target]
        <5>1. reqs[s].target \in Users
          BY MineType DEF Request
        <5> QED BY <1>5, <1>8, <3>2, <5>1
      <4>3. role'[Me] = role[Me]
        BY <1>3, <1>8, MeIsUser
      <4> QED BY <1>7, <4>1, <4>2, <4>3 DEF WillShow
    <3> QED BY <3>1, <3>2
  <2> QED BY <1>11, <2>1 DEF AnswersWillShow, Effective
<1>16. OwnRowIsSpared'
  <2>1. ASSUME NEW s \in Mine PROVE ForOthers(reqs[s])'
    <3>1. CASE s = r
      BY <1>3, <1>9, <1>10, <3>1 DEF ForOthers
    <3>2. CASE s # r
      BY <1>3, <1>8, <1>11, <2>1, <3>2, MeIsUser
         DEF PanelRight, OwnRowIsSpared, ForOthers, Effective
    <3> QED BY <3>1, <3>2
  <2> QED BY <1>11, <2>1 DEF OwnRowIsSpared
<1> QED BY <1>13, <1>14, <1>15, <1>16 DEF PanelRight

\* One of the three writes of a transfer of the panel.
LEMMA TransferWritePanel ==
  ASSUME TypeOK, CalmInv, MineOK, TransfersByOwner, PanelRight,
         NEW r \in Requests, NEW w \in Writes, TransferWrite(r, w),
         reqs[r].mine
  PROVE  PanelRight'
<1> DEFINE q == reqs[r]
           t == reqs[r].target
           left == q.pending \ {w}
<1>1. /\ q \in Request /\ w \in q.pending /\ t \in Users
      /\ r \in Mine /\ r \in InFlight
  <2>1. q \in Request /\ w \in q.pending /\ q.pc # "idle"
    BY TransferRequests DEF TransferWrite
  <2> QED BY <2>1 DEF Mine, InFlight, Request
<1>2. q.kind = "transfer" /\ Effective(q)
  BY <1>1 DEF CalmInv, OwnerStillRead, Effective
<1>3. q.pc = "write" /\ q.previous = Me
  BY <1>1, <1>2 DEF TransfersByOwner, MineOK
<1>4. t # Me
  BY <1>1, <1>2, NotOwnRow
<1>5. \A s \in Mine : s # r =>
        reqs[s].target # t /\ reqs[s].kind \notin {"list", "transfer"}
  BY <1>1, <1>2, NoFetch
     DEF PanelRight, OneEach, CalmInv, TransfersApart, Mine
<1>6. WillShow(q)
  BY <1>1, <1>2 DEF PanelRight, AnswersWillShow
<1>7. UNCHANGED panel /\ TransferEffect(q, w)
  BY DEF TransferWrite, Seen
<1>8. /\ \A u \in Users : u \notin {Me, t} => role'[u] = role[u]
      /\ role'[Me] = IF w = "demote" THEN "editor" ELSE role[Me]
      /\ role'[t] = IF w = "promote" THEN "owner" ELSE role[t]
  <2>1. CASE w = "save"
    BY <1>7, <2>1 DEF TransferEffect
  <2>2. CASE w = "demote"
    BY <1>1, <1>2, <1>3, <1>4, <1>6, <1>7, <2>2, MeIsUser
       DEF TransferEffect, WillShow, TypeOK, Rows
  <2>3. CASE w = "promote"
    BY <1>1, <1>2, <1>4, <1>6, <1>7, <2>3, MeIsUser
       DEF TransferEffect, WillShow, TypeOK, Rows
  <2> QED BY <2>1, <2>2, <2>3 DEF Writes
<1>9. /\ reqs'[r].pc # "idle" /\ reqs'[r].mine
      /\ reqs'[r].kind = "transfer" /\ reqs'[r].target = t
      /\ reqs'[r].pending = left /\ Effective(reqs'[r])
  <2> DEFINE rest == [q EXCEPT !.pending = q.pending \ {w}]
  <2>1. reqs'[r] = Settled(q, w)
    BY DEF TransferWrite, TypeOK
  <2>2. /\ rest \in Request /\ rest.pc = "write" /\ rest.mine
        /\ rest.kind = "transfer" /\ rest.target = t
        /\ rest.pending = left
    BY <1>1, <1>2, <1>3 DEF Request
  <2>3. Settled(q, w) = IF rest.pending # {} THEN rest
                        ELSE Answered(rest, TRUE)
    BY <1>3 DEF Settled
  <2> HIDE DEF rest
  <2>4. CASE rest.pending # {}
    BY <2>1, <2>2, <2>3, <2>4 DEF Effective
  <2>5. CASE rest.pending = {}
    <3>1. /\ Answered(rest, TRUE).pc = "answered"
          /\ Answered(rest, TRUE).ok
      BY <2>2 DEF Answered, Request
    <3>2. /\ Answered(rest, TRUE).mine
          /\ Answered(rest, TRUE).kind = rest.kind
          /\ Answered(rest, TRUE).target = rest.target
          /\ Answered(rest, TRUE).pending = rest.pending
      BY <2>2, AnsweredFields
    <3> QED BY <2>1, <2>2, <2>3, <2>5, <3>1, <3>2 DEF Effective
  <2> QED BY <2>4, <2>5
<1>10. \A s \in Requests : s # r => reqs'[s] = reqs[s]
  BY TransferRequests
<1>11. Mine' = Mine
  BY <1>1, <1>9, <1>10 DEF Mine, InFlight
<1>12. OneEach' /\ FetchedRows'
  BY <1>2, <1>5, <1>9, <1>10, <1>11, MineType
     DEF PanelRight, OneEach, FetchedRows
<1>13. OtherRows'
  <2>1. ASSUME NEW u \in Users,
               \A s \in Mine : Effective(reqs'[s]) => ~Concerns(reqs'[s], u)
        PROVE  panel.list[u] = role'[u]
    <3>1. u # t /\ u # Me
      BY <1>1, <1>9, <2>1 DEF Concerns
    <3>2. \A s \in Mine : Effective(reqs[s]) => ~Concerns(reqs[s], u)
      BY <1>10, <2>1, <3>1, MineType DEF Concerns
    <3>3. \A s \in Mine : reqs[s].kind # "list"
      BY <1>2, <1>5
    <3> QED BY <1>8, <3>1, <3>2, <3>3 DEF PanelRight, OtherRows
  <2> QED BY <1>7, <1>11, <2>1 DEF OtherRows, Effective, Concerns
<1>14. AnswersWillShow'
  <2>1. ASSUME NEW s \in Mine, Effective(reqs'[s]), reqs'[s].kind # "list"
        PROVE  WillShow(reqs[s])'
    <3>1. CASE s = r
      BY <1>1, <1>2, <1>4, <1>6, <1>7, <1>8, <1>9, <3>1, MeIsUser
         DEF WillShow, NoRole
    <3>2. CASE s # r
      <4>1. reqs'[s] = reqs[s] /\ reqs[s] \in Request
        BY <1>10, <3>2, MineType
      <4>2. WillShow(reqs[s]) /\ reqs[s].target \notin {Me, t}
        BY <1>5, <2>1, <3>2, <4>1, NotOwnRow DEF PanelRight, AnswersWillShow
      <4>3. role'[reqs[s].target] = role[reqs[s].target]
        BY <1>8, <4>1, <4>2 DEF Request
      <4> QED BY <1>5, <1>7, <3>2, <4>1, <4>2, <4>3 DEF WillShow
    <3> QED BY <3>1, <3>2
  <2> QED BY <1>11, <2>1 DEF AnswersWillShow, Effective
<1>15. OwnRowIsSpared'
  <2>1. ASSUME NEW s \in Mine PROVE ForOthers(reqs[s])'
    <3>1. CASE s = r
      BY <1>4, <1>9, <3>1 DEF ForOthers
    <3>2. CASE s # r
      <4>1. reqs'[s] = reqs[s] /\ ForOthers(reqs[s])
        BY <1>10, <3>2, MineType DEF PanelRight, OwnRowIsSpared
      <4> QED BY <1>8, <4>1 DEF ForOthers, Effective
    <3> QED BY <3>1, <3>2
  <2> QED BY <1>11, <2>1 DEF OwnRowIsSpared
<1> QED BY <1>12, <1>13, <1>14, <1>15 DEF PanelRight

\* The fetch of the panel is read.
LEMMA ReadRowsPanel ==
  ASSUME TypeOK, PanelRight, NEW r \in Requests, ReadRows(r)
  PROVE  PanelRight'
<1> DEFINE q == [reqs[r] EXCEPT !.rows = role]
<1>1. /\ reqs[r] \in Request /\ reqs[r].kind = "list"
      /\ reqs[r].pc # "idle"
  BY InFlightType DEF ReadRows, At
<1>2. /\ q \in Request /\ q.kind = "list" /\ q.rows = role
      /\ q.mine = reqs[r].mine /\ q.pending = reqs[r].pending
      /\ q.pc = reqs[r].pc
  BY <1>1 DEF Request, TypeOK
<1>3. /\ reqs' = [reqs EXCEPT ![r] = Answered(q, TRUE)]
      /\ UNCHANGED <<role, panel>>
  BY DEF ReadRows
<1>4. /\ ~q.mine => Answered(q, TRUE).pc = "idle"
                   \/ ~Answered(q, TRUE).mine
      /\ q.mine => /\ Answered(q, TRUE).kind = "list"
                   /\ Answered(q, TRUE).rows = role
                   /\ Answered(q, TRUE).pc = "answered"
                   /\ Answered(q, TRUE).mine
  BY <1>2 DEF Answered, Request, Idle
<1> HIDE DEF q
<1>5. CASE ~reqs[r].mine
  <2>1. r \notin Mine /\ r \notin Mine'
    BY <1>2, <1>3, <1>4, <1>5 DEF Mine, InFlight, TypeOK
  <2> QED BY <1>3, <2>1, Ineffective DEF TypeOK
<1>6. CASE reqs[r].mine
  <2>1. Mine = {r}
    BY <1>1, <1>6 DEF Mine, InFlight, PanelRight, OneEach
  <2>2. /\ reqs'[r].kind = "list" /\ reqs'[r].rows = role
        /\ \A s \in Requests : s # r => reqs'[s] = reqs[s]
    BY <1>2, <1>3, <1>4, <1>6 DEF TypeOK
  <2>3. Mine' = {r}
    BY <1>2, <1>3, <1>4, <1>6, <2>1, <2>2 DEF Mine, InFlight, TypeOK
  <2> QED BY <1>3, <2>2, <2>3
          DEF PanelRight, OneEach, FetchedRows, OtherRows, AnswersWillShow,
              OwnRowIsSpared, ForOthers
<1> QED BY <1>5, <1>6

\* The panel is opened and fetches the list.
LEMMA OpenPanelRight ==
  ASSUME TypeOK, MineOK, NEW r \in Requests, OpenPanel(r)
  PROVE  PanelRight'
<1> DEFINE q == [New("list", Me, Me, "viewer") EXCEPT !.mine = TRUE]
<1>1. q.pc = "check" /\ q.kind = "list" /\ q.pending = {}
  BY NewFields
<1>2. reqs' = [reqs EXCEPT ![r] = q] /\ ~panel.open
  BY DEF OpenPanel
<1> HIDE DEF q
<1>3. Mine = {}
  BY <1>2 DEF MineOK
<1>4. Mine' \subseteq {r} /\ reqs'[r] = q
  BY <1>2, <1>3 DEF Mine, InFlight, TypeOK
<1>5. r \in Mine'
  <2>1. q.mine
    BY DEF q, New
  <2> QED BY <1>1, <1>2, <2>1 DEF Mine, InFlight, TypeOK
<1> QED BY <1>1, <1>4, <1>5
        DEF PanelRight, OneEach, FetchedRows, OtherRows, AnswersWillShow,
            OwnRowIsSpared, ForOthers, Effective

\* The panel sends a request.
LEMMA SendPanel ==
  ASSUME TypeOK, CalmInv, PanelRight, NEW r \in Requests,
         NEW kind \in {"invite", "role", "remove", "transfer"},
         NEW t \in Users, NEW new \in Given, Send(r, kind, t, new),
         kind # "invite" => panel.list[t] \in Given,
         panel'.sole
  PROVE  PanelRight'
<1> DEFINE q == [New(kind, Me, t, new) EXCEPT !.mine = TRUE]
           quiet == \A s \in Mine : reqs[s].target # t
                                   /\ reqs[s].kind # "list"
<1>1. /\ q.pc = "check" /\ q.kind = kind /\ q.pending = {}
      /\ q.target = t /\ q.mine
  BY DEF New
<1>2. /\ reqs' = [reqs EXCEPT ![r] = q] /\ reqs[r].pc = "idle"
      /\ UNCHANGED role
  BY DEF Send
<1>3. panel'.list = panel.list /\ quiet
  <2>1. panel' = [panel EXCEPT
          !.updating = IF kind = "invite" THEN panel.updating ELSE t,
          !.busy = (panel.busy \/ kind = "invite"),
          !.sole = panel.sole /\ quiet]
    BY DEF Send
  <2> HIDE DEF quiet
  <2> QED BY <2>1 DEF TypeOK, Panel
<1> HIDE DEF q
<1>4. /\ Mine' = Mine \cup {r} /\ r \notin Mine /\ reqs'[r] = q
      /\ \A s \in Mine : reqs'[s] = reqs[s]
  BY <1>1, <1>2 DEF Mine, InFlight, TypeOK
<1>5. ~Effective(q) /\ q.kind # "list"
  BY <1>1 DEF Effective
<1>6. ForOthers(q)
  <2> SUFFICES ASSUME t = Me, kind # "invite" PROVE role[Me] # "owner"
    BY <1>1, <1>5 DEF ForOthers
  <2>1. panel.list[Me] \in Given
    OBVIOUS
  <2>2. \A s \in Mine : Effective(reqs[s]) => ~Concerns(reqs[s], Me)
    <3>1. ASSUME NEW s \in Mine, Effective(reqs[s]), reqs[s].kind = "transfer"
          PROVE  panel.list[Me] = "owner"
      BY <3>1 DEF PanelRight, AnswersWillShow, WillShow
    <3> QED BY <1>3, <2>1, <3>1, NotOwnRow DEF Concerns, Given
  <2>3. panel.list[Me] = role[Me]
    BY <1>3, <2>2, MeIsUser DEF PanelRight, OtherRows
  <2> QED BY <2>1, <2>3 DEF Given
<1>7. OneEach' /\ FetchedRows'
  BY <1>1, <1>3, <1>4, <1>5 DEF PanelRight, OneEach, FetchedRows
<1>8. OtherRows'
  <2>1. ASSUME NEW u \in Users,
               \A s \in Mine' : Effective(reqs'[s]) => ~Concerns(reqs'[s], u)
        PROVE  panel.list[u] = role[u]
    <3>1. \A s \in Mine : Effective(reqs[s]) => ~Concerns(reqs[s], u)
      BY <1>4, <2>1
    <3> QED BY <1>3, <3>1 DEF PanelRight, OtherRows
  <2> QED BY <1>2, <1>3, <2>1 DEF OtherRows, Effective, Concerns
<1>9. AnswersWillShow'
  <2>1. ASSUME NEW s \in Mine', Effective(reqs'[s]), reqs'[s].kind # "list"
        PROVE  WillShow(reqs[s])'
    <3>1. s \in Mine /\ reqs'[s] = reqs[s]
      BY <1>4, <1>5, <2>1
    <3>2. WillShow(reqs[s])
      BY <2>1, <3>1 DEF PanelRight, AnswersWillShow
    <3> QED BY <1>2, <1>3, <3>1, <3>2 DEF WillShow
  <2> QED BY <2>1 DEF AnswersWillShow, Effective
<1>10. OwnRowIsSpared'
  <2>1. ASSUME NEW s \in Mine' PROVE ForOthers(reqs[s])'
    <3>1. ForOthers(reqs'[s])
      BY <1>4, <1>6, <2>1 DEF PanelRight, OwnRowIsSpared
    <3> QED BY <1>2, <3>1 DEF ForOthers, Effective
  <2> QED BY <2>1 DEF OwnRowIsSpared
<1> QED BY <1>7, <1>8, <1>9, <1>10 DEF PanelRight

\* The answer to one of its requests reaches the panel.
LEMMA ReceivePanel ==
  ASSUME TypeOK, CalmInv, MineOK, TransfersByOwner, PanelRight,
         NEW r \in Requests, Receive(r), panel'.sole
  PROVE  PanelRight'
<1> DEFINE q == reqs[r]
           t == reqs[r].target
<1>1. /\ q.pc = "answered" /\ q \in Request /\ r \in InFlight /\ r \in Mine
      /\ t \in Users /\ q.ok \in BOOLEAN
  <2>1. q.pc = "answered" /\ r \in InFlight
    BY DEF Receive, InFlight
  <2>2. q.mine
    BY <2>1 DEF MineOK
  <2>3. r \in Mine
    BY <2>1, <2>2 DEF Mine
  <2> QED BY <2>1, <2>3, MineType DEF Request
<1>2. q.pending = {}
  BY <1>1 DEF CalmInv, OwnerStillRead, TransfersByOwner
<1>3. Mine' = Mine \ {r} /\ \A s \in Requests : s # r => reqs'[s] = reqs[s]
  <2>1. reqs' = [reqs EXCEPT ![r] = Idle]
    BY <1>2 DEF Receive
  <2> QED BY <2>1 DEF Mine, InFlight, Idle, TypeOK
<1>4. /\ panel'.list = IF q.ok THEN Shown(q) ELSE panel.list
      /\ q.ok \/ q.kind # "list"
      /\ UNCHANGED role
  <2> DEFINE list == IF q.ok THEN Shown(q) ELSE panel.list
             updating == IF q.kind \in {"list", "invite"}
                         THEN panel.updating ELSE None
             busy == panel.busy /\ q.kind # "invite"
             sole == panel.sole /\ (q.ok \/ q.kind # "list")
  <2>1. panel' = [panel EXCEPT !.list = list, !.updating = updating,
                               !.busy = busy, !.sole = sole]
    BY Zenon DEF Receive, Told
  <2> HIDE DEF list, updating, busy, sole
  <2>2. panel'.list = list /\ panel'.sole = sole
    BY <2>1 DEF TypeOK, Panel
  <2>3. UNCHANGED role
    BY DEF Receive
  <2> QED BY <2>2, <2>3 DEF list, sole
<1>5. panel.list \in Rows /\ role \in Rows
  BY DEF TypeOK, Panel
<1>6. CASE q.kind = "list"
  <2>1. Mine = {r}
    BY <1>1, <1>6 DEF PanelRight, OneEach
  <2>2. Mine' = {}
    BY <1>3, <2>1
  <2>3. panel'.list = role
    BY <1>1, <1>4, <1>6 DEF Shown, PanelRight, FetchedRows
  <2> QED BY <1>4, <2>2, <2>3
          DEF PanelRight, OneEach, FetchedRows, OtherRows, AnswersWillShow,
              OwnRowIsSpared
<1>7. CASE q.kind # "list"
  <2>1. \A s \in Mine : reqs[s].kind # "list"
    BY <1>1, <1>7, NoFetch
  <2>2. OneEach' /\ FetchedRows'
    BY <1>3, <2>1, MineType DEF PanelRight, OneEach, FetchedRows
  <2>3. OwnRowIsSpared'
    <3>1. ASSUME NEW s \in Mine' PROVE ForOthers(reqs[s])'
      <4>1. s \in Mine /\ reqs'[s] = reqs[s]
        BY <1>3, <3>1, MineType
      <4> QED BY <1>4, <4>1
              DEF PanelRight, OwnRowIsSpared, ForOthers, Effective
    <3> QED BY <3>1 DEF OwnRowIsSpared
  <2>4. CASE ~q.ok
    <3>1. ~Effective(q) /\ panel'.list = panel.list
      BY <1>2, <1>4, <2>4 DEF Effective
    <3>2. OtherRows'
      <4>1. ASSUME NEW u \in Users,
                   \A s \in Mine' : Effective(reqs'[s]) =>
                                       ~Concerns(reqs'[s], u)
            PROVE  panel.list[u] = role[u]
        <5>1. \A s \in Mine : Effective(reqs[s]) => ~Concerns(reqs[s], u)
          BY <1>3, <3>1, <4>1, MineType
        <5> QED BY <2>1, <5>1 DEF PanelRight, OtherRows
      <4> QED BY <1>4, <3>1, <4>1 DEF OtherRows, Effective, Concerns
    <3>3. AnswersWillShow'
      <4>1. ASSUME NEW s \in Mine', Effective(reqs'[s])
            PROVE  WillShow(reqs[s])'
        <5>1. s \in Mine /\ reqs'[s] = reqs[s]
          BY <1>3, <4>1, MineType
        <5>2. WillShow(reqs[s])
          BY <2>1, <4>1, <5>1 DEF PanelRight, AnswersWillShow
        <5> QED BY <1>4, <3>1, <5>1, <5>2 DEF WillShow
      <4> QED BY <4>1 DEF AnswersWillShow, Effective
    <3> QED BY <2>2, <2>3, <3>2, <3>3 DEF PanelRight
  <2>5. CASE q.ok
    <3>1. Effective(q) /\ WillShow(q) /\ t # Me
      BY <1>1, <1>7, <2>5, NotOwnRow
         DEF Effective, PanelRight, AnswersWillShow
    <3>2. /\ \A u \in Users : ~Concerns(q, u) => Shown(q)[u] = panel.list[u]
          /\ \A u \in Users : Concerns(q, u) => Shown(q)[u] = role[u]
      <4>1. q.kind \in {"invite", "role", "remove", "transfer"}
        BY <1>1, <1>7 DEF MineOK
      <4>2. CASE q.kind \in {"invite", "role", "remove"}
        BY <1>1, <1>5, <3>1, <4>2 DEF Shown, Concerns, WillShow, Rows
      <4>3. CASE q.kind = "transfer"
        BY <1>1, <1>2, <1>5, <3>1, <4>3, MeIsUser
           DEF Shown, Concerns, WillShow, Rows, NoRole
      <4> QED BY <4>1, <4>2, <4>3
    <3>3. panel'.list = Shown(q)
      BY <1>4, <2>5
    <3>4. OtherRows'
      <4>1. ASSUME NEW u \in Users,
                   \A s \in Mine' : Effective(reqs'[s]) =>
                                       ~Concerns(reqs'[s], u)
            PROVE  panel'.list[u] = role[u]
        <5>1. CASE Concerns(q, u)
          BY <3>2, <3>3, <5>1
        <5>2. CASE ~Concerns(q, u)
          <6>1. \A s \in Mine : Effective(reqs[s]) => ~Concerns(reqs[s], u)
            BY <1>3, <4>1, <5>2, MineType
          <6> QED BY <2>1, <3>2, <3>3, <5>2, <6>1 DEF PanelRight, OtherRows
        <5> QED BY <5>1, <5>2
      <4> QED BY <1>4, <4>1 DEF OtherRows, Effective, Concerns
    <3>5. AnswersWillShow'
      <4>1. ASSUME NEW s \in Mine', Effective(reqs'[s])
            PROVE  WillShow(reqs[s])'
        <5>1. s \in Mine /\ s # r /\ reqs'[s] = reqs[s] /\ reqs[s] \in Request
          BY <1>3, <4>1, MineType
        <5>2. WillShow(reqs[s]) /\ reqs[s].target # Me
          BY <2>1, <4>1, <5>1, NotOwnRow DEF PanelRight, AnswersWillShow
        <5>3. reqs[s].target # t /\ reqs[s].target \in Users
          BY <1>1, <5>1 DEF PanelRight, OneEach, Request
        <5>4. panel'.list[reqs[s].target] = panel.list[reqs[s].target]
          BY <3>2, <3>3, <5>2, <5>3 DEF Concerns
        <5>5. reqs[s].kind = "transfer" => panel'.list[Me] = panel.list[Me]
          <6>1. reqs[s].kind = "transfer" => q.kind # "transfer"
            BY <1>1, <5>1 DEF CalmInv, TransfersApart, Mine
          <6> QED BY <3>1, <3>2, <3>3, <6>1, MeIsUser DEF Concerns
        <5> QED BY <1>4, <5>1, <5>2, <5>4, <5>5 DEF WillShow
      <4> QED BY <4>1 DEF AnswersWillShow, Effective
    <3> QED BY <2>2, <2>3, <3>4, <3>5 DEF PanelRight
  <2> QED BY <1>1, <2>4, <2>5
<1> QED BY <1>6, <1>7

\* Requests, answers and writes, the panel's own and others'.
LEMMA PanelStep ==
  ASSUME PInv, [Next]_vars, calm', panel'.open, panel'.sole
  PROVE  PanelRight'
<1>1. /\ TypeOK /\ ListOK /\ MineOK
      /\ calm => CalmInv /\ TransfersByOwner
      /\ calm /\ panel.open /\ panel.sole => PanelRight
  BY DEF PInv, IInv
<1>2. ASSUME NEW r \in Requests, Seen(r)
      PROVE  /\ panel'.open = panel.open /\ panel.sole /\ reqs[r].mine
             /\ panel' = panel
  BY <1>1, <1>2 DEF Seen, TypeOK, Panel
<1>3. CASE UNCHANGED vars
  BY <1>1, <1>3
     DEF vars, PanelRight, OneEach, FetchedRows, OtherRows, AnswersWillShow,
         OwnRowIsSpared, ForOthers, WillShow, Effective, Concerns, Mine,
         InFlight
<1>4. CASE LoadPage \/ ClosePanel
  BY <1>4 DEF LoadPage, ClosePanel, Closed
<1>5. ASSUME NEW r \in Requests, NEW u \in Users, Create(r, u)
      PROVE  FALSE
  BY <1>1, <1>5 DEF Create, CalmInv, BeforeCreation
<1>6. ASSUME NEW r \in Requests, CreatePermission(r) PROVE FALSE
  BY <1>1, <1>2, <1>6
     DEF CreatePermission, At, InFlight, CalmInv, DuringCreation
<1>7. ASSUME NEW r \in Requests, NEW kind \in Kinds, NEW u \in Users,
             NEW t \in Users, NEW new \in Given, NEW exact \in BOOLEAN,
             Ask(r, kind, u, t, new, exact)
      PROVE  PanelRight'
  <2>1. /\ PanelRight /\ UNCHANGED <<role, panel>> /\ reqs[r].pc = "idle"
        /\ reqs' = [reqs EXCEPT ![r] =
             [New(kind, u, t, new)
                EXCEPT !.pc = FirstCall(kind), !.exact = exact]]
    BY <1>1, <1>7 DEF Ask
  <2>2. ~reqs'[r].mine
    BY <1>1, <2>1, NewFields DEF TypeOK
  <2>3. r \notin Mine /\ r \notin Mine'
    BY <2>1, <2>2 DEF Mine, InFlight
  <2> QED BY <1>1, <2>1, <2>3, Ineffective DEF TypeOK
<1>8. ASSUME NEW r \in Requests, Refused(r) \/ CallFails(r)
      PROVE  PanelRight'
  <2>1. /\ UNCHANGED <<role, panel>> /\ Answer(r, FALSE) /\ calm
        /\ reqs[r].pc \in {"check", "read", "target", "write"}
        /\ reqs[r].pc = "write" => reqs[r].pending = {}
    BY <1>8 DEF Refused, Check, Read, ReadTarget, CallFails
  <2>2. reqs[r].pending = {}
    BY <1>1, <2>1 DEF InFlight, CalmInv, OwnerStillRead
  <2> QED BY <1>1, <2>1, <2>2, AnsweredNo
<1>9. ASSUME NEW r \in Requests, NEW q \in Request, GoesOn(r, q)
      PROVE  PanelRight'
  <2>1. PanelRight /\ calm
    BY <1>1, <1>9 DEF GoesOn
  <2>2. CASE ~reqs[r].mine
    BY <1>1, <1>9, <2>1, <2>2, OthersAnswered DEF GoesOn
  <2>3. CASE reqs[r].mine
    BY <1>1, <1>9, <2>1, <2>3, NextCallPanel, TransferBegins
  <2> QED BY <2>2, <2>3
<1>10. ASSUME NEW r \in Requests, WriteRole(r) PROVE PanelRight'
  BY <1>1, <1>2, <1>10, WriteRolePanel DEF WriteRole
<1>11. ASSUME NEW r \in Requests, ReadRows(r) PROVE PanelRight'
  BY <1>1, <1>11, ReadRowsPanel DEF ReadRows
<1>12. ASSUME NEW r \in Requests, NEW w \in Writes, TransferWrite(r, w)
       PROVE  PanelRight'
  BY <1>1, <1>2, <1>12, TransferWritePanel DEF TransferWrite
<1>13. ASSUME NEW r \in Requests,
              \/ AnswerLost(r) \/ TimeOut(r)
              \/ \E w \in Writes : TransferWriteFails(r, w)
       PROVE  FALSE
  <2>1. reqs[r].pc # "idle" => Told(reqs[r], FALSE) \in Panel
    BY <1>1, InFlightType, ToldType
  <2> QED BY <1>1, <1>13, <2>1
          DEF AnswerLost, TimeOut, TransferWriteFails, Mine, InFlight,
              TypeOK, Panel
<1>14. ASSUME NEW r \in Requests, OpenPanel(r) PROVE PanelRight'
  BY <1>1, <1>14, OpenPanelRight
<1>15. ASSUME NEW r \in Requests, Receive(r) PROVE PanelRight'
  <2>1. panel'.open = panel.open /\ (panel'.sole => panel.sole) /\ calm
    BY <1>1, <1>15 DEF Receive, Told, TypeOK, Panel
  <2> QED BY <1>1, <1>15, <2>1, ReceivePanel
<1>16. ASSUME NEW r \in Requests,
              NEW kind \in {"invite", "role", "remove", "transfer"},
              NEW t \in Users, NEW new \in Given, Send(r, kind, t, new),
              kind # "invite" => panel.list[t] \in Given
       PROVE  PanelRight'
  <2>1. panel'.open = panel.open /\ (panel'.sole => panel.sole) /\ calm
    BY <1>1, <1>16 DEF Send, TypeOK, Panel
  <2> QED BY <1>1, <1>16, <2>1, SendPanel
<1>17. ASSUME NEW r \in Requests, NEW t \in Users, NEW new \in Given,
              \/ SubmitInvite(r, t, new)
              \/ \E kind \in Kinds : PressRow(r, kind, t, new)
       PROVE  PanelRight'
  BY <1>16, <1>17 DEF SubmitInvite, PressRow
<1> QED BY <1>1, <1>3, <1>4, <1>5, <1>6, <1>7, <1>8, <1>9, <1>10, <1>11,
           <1>12, <1>13, <1>14, <1>15, <1>17, ChecksGoOn DEF Next

LEMMA InitPInv == Init => PInv
<1> SUFFICES ASSUME Init PROVE PInv
  OBVIOUS
<1>1. ~panel.open /\ \A r \in Requests : reqs[r] = Idle
  BY DEF Init, Closed
<1> QED BY <1>1, InitIInv
        DEF PInv, MineOK, TransfersByOwner, Mine, InFlight, Idle

LEMMA NextPInv == ASSUME PInv, [Next]_vars PROVE PInv'
<1>1. IInv /\ TypeOK /\ MineOK /\ (calm => TransfersByOwner)
  BY DEF PInv, IInv
<1> QED BY <1>1, NextIInv, MineStep, TransfersStep, PanelStep DEF PInv

\* ShareModal.jsx: when nothing of its own is under way the panel shows the
\* roles as the routes have left them, whatever it sent and in whatever order
\* it was answered, as long as it alone changed them, one request at a time
\* for each row, and nothing unexpected befell the routes.
THEOREM PanelIsRight == Spec => []PanelShowsRoles
<1>1. PInv => PanelShowsRoles
  <2> SUFFICES ASSUME PInv, calm, panel.open, panel.sole, Mine = {}
               PROVE  panel.list = role
    BY DEF PanelShowsRoles
  <2>1. panel.list \in Rows /\ role \in Rows
    BY DEF PInv, IInv, TypeOK, Panel
  <2>2. \A u \in Users : panel.list[u] = role[u]
    BY DEF PInv, PanelRight, OtherRows
  <2> QED BY <2>1, <2>2 DEF Rows
<1> QED BY <1>1, InitPInv, NextPInv, PTL DEF Spec
=============================================================================
