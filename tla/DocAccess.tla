------------------------------ MODULE DocAccess ------------------------------
(***************************************************************************)
(* Who may do what with a document: the routes of routes/docs.js that      *)
(* create it, list, invite, change and remove its collaborators and        *)
(* transfer its ownership, behind middleware/require-doc-access.js, and    *)
(* the sharing panel of one user's page (ShareModal.jsx).                  *)
(*                                                                         *)
(* The rows of one document concern no other, so this is one document: its *)
(* ownerId and, for each user, the role of the permission row, which is    *)
(* unique by index.  Every action is what a route does with the answer of  *)
(* one awaited call, up to the next call; requests interleave at each.     *)
(***************************************************************************)
EXTENDS Naturals

CONSTANTS
  Users, Requests, None,
  Me,         \* the user whose sharing panel is followed
  MaxSharing, \* bound: requests that share, change, remove or transfer
  MaxFailures \* bound: calls that reject and requests that time out

ASSUME MeIsUser == Me \in Users
ASSUME NoneIsNobody == None \notin Users
ASSUME BoundsAreNumbers == {MaxSharing, MaxFailures} \subseteq Nat

VARIABLES
  owner,    \* ownerId of the document, None before it exists
  role,     \* the permission rows
  reqs,     \* the requests in progress
  panel,    \* the sharing panel of Me
  calm,     \* history: nothing has happened that the routes do not expect
  sharing, failures

counts == <<sharing, failures>>
vars == <<owner, role, reqs, panel, calm, counts>>

Roles == {"owner", "editor", "viewer"}
Given == {"editor", "viewer"}  \* what shareDocSchema and the others admit
NoRole == "none"
Rows == [Users -> Roles \cup {NoRole}]
NoRows == [u \in Users |-> NoRole]

\* hierarchy of require-doc-access.js.
Rank(r) == CASE r = "owner" -> 3 [] r = "editor" -> 2 [] r = "viewer" -> 1
             [] OTHER -> 0

Kinds == {"create", "share", "invite", "role", "remove", "transfer", "list"}
\* The parallel writes of a transfer.
Writes == {"save", "demote", "promote"}

\* pc: the call a request waits for; "over" once it is answered but writes of
\* its Promise.all are still pending.  exact: it spells the target as the
\* database does; schemas.js:42 and :54 admit an id in capitals too, which the
\* queries cast and the comparisons do not.  mine: the panel waits for the
\* answer.
Request == [pc : {"check", "read", "target", "write", "answered", "over"},
            kind : Kinds, actor : Users, target : Users, exact : BOOLEAN,
            role : Given,
            previous : Users \cup {None}, pending : SUBSET Writes,
            rows : Rows, ok : BOOLEAN, mine : BOOLEAN]
Idle == [pc |-> "idle"]

\* isOwner: the role with which the page was loaded.  updating: the row whose
\* buttons are disabled.  sole: history, nobody and nothing but the answers
\* of this panel, one at a time for each row, has changed a role.
Panel == [open : BOOLEAN, isOwner : BOOLEAN, list : Rows,
          updating : Users \cup {None}, busy : BOOLEAN, sole : BOOLEAN]

\* Mutant: without a list, as useState() would leave it.
ClosedBare == [open |-> FALSE, isOwner |-> FALSE, list |-> None,
               updating |-> None, busy |-> FALSE, sole |-> FALSE]

Closed == [open |-> FALSE, isOwner |-> FALSE, list |-> NoRows,
           updating |-> None, busy |-> FALSE, sole |-> FALSE]

TypeOK ==
  /\ owner \in Users \cup {None}
  /\ role \in Rows
  /\ reqs \in [Requests -> Request \cup {Idle}]
  /\ panel \in Panel
  /\ calm \in BOOLEAN
  /\ sharing \in 0..MaxSharing
  /\ failures \in 0..MaxFailures

Init ==
  /\ owner = None
  /\ role = NoRows
  /\ reqs = [r \in Requests |-> Idle]
  /\ panel = Closed
  /\ calm = TRUE
  /\ sharing = 0
  /\ failures = 0

-----------------------------------------------------------------------------
InFlight == {r \in Requests : reqs[r].pc # "idle"}
At(r, pc, kinds) == reqs[r].pc = pc /\ reqs[r].kind \in kinds

New(kind, u, t, new) ==
  [pc |-> "check", kind |-> kind, actor |-> u, target |-> t, role |-> new,
   exact |-> TRUE, previous |-> None, pending |-> {}, rows |-> NoRows,
   ok |-> FALSE, mine |-> FALSE]

Goto(r, pc) == reqs' = [reqs EXCEPT ![r].pc = pc]

\* The request is answered; only the panel's answers are followed further.
Answered(q, ok) ==
  IF q.mine THEN [q EXCEPT !.pc = "answered", !.ok = ok]
  ELSE IF q.pending = {} THEN Idle
  ELSE [q EXCEPT !.pc = "over"]
Answer(r, ok) == reqs' = [reqs EXCEPT ![r] = Answered(reqs[r], ok)]

\* A transfer overlaps with another one, or with a request about its target.
Conflict(kind, t) ==
  \E s \in InFlight :
    \/ kind = "transfer" /\ reqs[s].kind = "transfer"
    \/ /\ reqs[s].target = t
       /\ "transfer" \in {kind, reqs[s].kind}
       /\ {kind, reqs[s].kind} \cap {"share", "invite", "role", "remove"} # {}

\* Somebody else than the panel changes a role.
Seen(r) ==
  panel' = IF reqs[r].mine THEN panel ELSE [panel EXCEPT !.sole = FALSE]

-----------------------------------------------------------------------------
(* The routes.                                                             *)

\* POST /: Document.create, then Permission.create is sent.
Create(r, u) ==
  /\ owner = None /\ reqs[r].pc = "idle"
  /\ owner' = u
  /\ reqs' = [reqs EXCEPT ![r] = [New("create", u, u, "viewer")
                                    EXCEPT !.pc = "write"]]
  /\ UNCHANGED <<role, panel, calm, counts>>

CreatePermission(r) ==
  /\ At(r, "write", {"create"})
  /\ role' = [role EXCEPT ![reqs[r].actor] = "owner"]
  /\ Answer(r, TRUE)
  /\ Seen(r)
  /\ UNCHANGED <<owner, calm, counts>>

MinRole(kind) == IF kind = "list" THEN "viewer" ELSE "owner"

\* Mutant: editors pass, as they do for a rename.
MayAsEditor(u, kind) ==
  Rank(role[u]) >= Rank(IF kind = "list" THEN "viewer" ELSE "editor")

\* requireDocAccess; the role is read once and not looked at again.
May(u, kind) == Rank(role[u]) >= Rank(MinRole(kind))

FirstCall(kind) ==
  IF kind \in {"invite", "role", "remove", "transfer"} THEN "read" ELSE "write"

\* The requests that have a role in their body.
NamesRole(kind) == kind \in {"share", "invite", "role"}

\* The requests that have the id of their target in the path or the body and
\* compare it with ownerId.
ComparesId(kind) == kind \in {"role", "remove", "transfer"}

\* A request that does not come from the panel.  The permission query comes
\* first, so the two are one step; if it is refused nothing has happened.
Ask(r, kind, u, t, new, exact) ==
  /\ reqs[r].pc = "idle"
  /\ May(u, kind)
  /\ NamesRole(kind) \/ new = "viewer"
  /\ ComparesId(kind) \/ exact
  /\ sharing < MaxSharing /\ sharing' = sharing + 1
  /\ reqs' = [reqs EXCEPT ![r] = [New(kind, u, t, new)
       EXCEPT !.pc = FirstCall(kind), !.exact = exact]]
  /\ calm' = (calm /\ ~Conflict(kind, t))
  /\ UNCHANGED <<owner, role, panel, failures>>

\* The permission query of a request of the panel.
Check(r) ==
  /\ reqs[r].pc = "check"
  /\ \/ /\ May(reqs[r].actor, reqs[r].kind)
        /\ Goto(r, FirstCall(reqs[r].kind))
     \/ /\ ~May(reqs[r].actor, reqs[r].kind)
        /\ Answer(r, FALSE)
  /\ UNCHANGED <<owner, role, panel, calm, counts>>

\* Mutant: the owner may be named too.
ReadAny(r) ==
  /\ reqs[r].pc = "read"
  /\ \/ At(r, "read", {"invite", "role", "remove"}) /\ Goto(r, "write")
     \/ /\ At(r, "read", {"transfer"})
        /\ reqs' = [reqs EXCEPT ![r].pc = "target", ![r].previous = owner]
  /\ UNCHANGED <<owner, role, panel, calm, counts>>

\* An invitation is refused to oneself, a change of role, a removal and a
\* transfer to the ownerId of the document, if it is spelled alike.
Read(r) ==
  LET named == reqs[r].target = IF reqs[r].kind = "invite"
                                THEN reqs[r].actor ELSE owner
      refused == named /\ reqs[r].exact
  IN /\ reqs[r].pc = "read"
     /\ \/ refused /\ Answer(r, FALSE)
        \/ /\ ~refused /\ reqs[r].kind # "transfer"
           /\ Goto(r, "write")
        \/ /\ ~refused /\ reqs[r].kind = "transfer"
           /\ reqs' = [reqs EXCEPT ![r].pc = "target", ![r].previous = owner]
     /\ calm' = (calm /\ (named => refused))
     /\ UNCHANGED <<owner, role, panel, counts>>

\* transfer-ownership: Permission.findOne of the target, then Promise.all.
ReadTarget(r) ==
  /\ reqs[r].pc = "target"
  /\ \/ role[reqs[r].target] = NoRole /\ Answer(r, FALSE)
     \/ /\ role[reqs[r].target] # NoRole
        /\ reqs' = [reqs EXCEPT ![r].pc = "write", ![r].pending = Writes]
  /\ UNCHANGED <<owner, role, panel, calm, counts>>

\* The single write of share, invite, a change of role and a removal.
NewRole(q) ==
  CASE q.kind \in {"share", "invite"} -> q.role          \* upsert
    [] q.kind = "role" /\ role[q.target] # NoRole -> q.role
    [] OTHER -> NoRole

WriteRole(r) ==
  LET q == reqs[r]
  IN /\ At(r, "write", {"share", "invite", "role", "remove"})
     /\ role' = [role EXCEPT ![q.target] = NewRole(q)]
     /\ Answer(r, q.kind # "role" \/ role[q.target] # NoRole)
     /\ calm' = (calm /\ ~(q.kind = "share" /\ q.target = owner))
     /\ Seen(r)
     /\ UNCHANGED <<owner, counts>>

\* GET collaborators; the names of the users do not matter here.
ReadRows(r) ==
  /\ At(r, "write", {"list"})
  /\ reqs' = [reqs EXCEPT ![r] =
       Answered([reqs[r] EXCEPT !.rows = role], TRUE)]
  /\ UNCHANGED <<owner, role, panel, calm, counts>>

\* Mutant: the permissions are upserted, as /share and /invite do.
TransferEffectUpsert(q, w) ==
  /\ owner' = IF w = "save" /\ q.target # q.previous THEN q.target ELSE owner
  /\ role' = CASE w = "demote"  -> [role EXCEPT ![q.previous] = "editor"]
               [] w = "promote" -> [role EXCEPT ![q.target] = "owner"]
               [] OTHER -> role

\* What the three writes of a transfer do; an update without a row to match
\* changes nothing, and save() writes ownerId if it has changed.
TransferEffect(q, w) ==
  LET Set(u, new) == IF role[u] = NoRole THEN role
                     ELSE [role EXCEPT ![u] = new]
  IN /\ owner' = IF w = "save" /\ q.target # q.previous THEN q.target
                 ELSE owner
     /\ role' = CASE w = "demote"  -> Set(q.previous, "editor")
                  [] w = "promote" -> Set(q.target, "owner")
                  [] OTHER -> role

\* After a write of Promise.all: the request is answered when all are done,
\* unless it was answered with an error before.
Settled(q, w) ==
  LET left == [q EXCEPT !.pending = @ \ {w}]
  IN IF left.pending # {} THEN left
     ELSE IF q.pc = "over" THEN Idle
     ELSE Answered(left, q.pc = "write")

TransferWrite(r, w) ==
  /\ reqs[r].pc \in {"write", "answered", "over"}
  /\ w \in reqs[r].pending
  /\ TransferEffect(reqs[r], w)
  /\ reqs' = [reqs EXCEPT ![r] = Settled(reqs[r], w)]
  /\ Seen(r)
  /\ UNCHANGED <<calm, counts>>

-----------------------------------------------------------------------------
(* Calls that reject.                                                      *)

\* A call rejects before it has had an effect: the error is the answer.
CallFails(r) ==
  /\ failures < MaxFailures
  /\ failures' = failures + 1
  /\ reqs[r].pc \in {"check", "read", "target", "write"}
  /\ reqs[r].pending = {}
  /\ Answer(r, FALSE)
  /\ calm' = (calm /\ reqs[r].kind # "create")
  /\ UNCHANGED <<owner, role, panel, sharing>>

\* The answer of a single write is lost: it has had its effect.
AnswerLost(r) ==
  /\ failures < MaxFailures
  /\ failures' = failures + 1
  /\ At(r, "write", {"share", "invite", "role", "remove"})
  /\ role' = [role EXCEPT ![reqs[r].target] = NewRole(reqs[r])]
  /\ calm' = (calm /\ ~(reqs[r].kind = "share" /\ reqs[r].target = owner))
  /\ Answer(r, FALSE)
  /\ panel' = [panel EXCEPT !.sole = FALSE]
  /\ UNCHANGED <<owner, sharing>>

\* One of the three writes of a transfer rejects, with or without effect.
\* Promise.all rejects with it; the other two go on.
TransferWriteFails(r, w) ==
  /\ failures < MaxFailures
  /\ failures' = failures + 1
  /\ reqs[r].pc = "write" /\ w \in reqs[r].pending
  /\ TransferEffect(reqs[r], w) \/ UNCHANGED <<owner, role>>
  /\ reqs' = [reqs EXCEPT ![r] =
       Answered([reqs[r] EXCEPT !.pending = @ \ {w}], FALSE)]
  /\ calm' = FALSE
  /\ panel' = [panel EXCEPT !.sole = FALSE]
  /\ UNCHANGED sharing

-----------------------------------------------------------------------------
(* The sharing panel.                                                      *)

\* The page was loaded with the role of this moment, or an earlier one: the
\* panel is opened at once, or closed and opened again later.
LoadPage ==
  /\ ~panel.open
  /\ role[Me] # NoRole
  /\ panel' = [Closed EXCEPT !.isOwner = (role[Me] = "owner")]
  /\ panel' # panel
  /\ UNCHANGED <<owner, role, reqs, calm, counts>>

\* The panel appears and fetches the list.
OpenPanel(r) ==
  /\ ~panel.open
  /\ role[Me] # NoRole
  /\ reqs[r].pc = "idle"
  /\ panel' = [Closed EXCEPT !.open = TRUE, !.sole = TRUE,
                             !.isOwner = panel.isOwner]
  /\ reqs' = [reqs EXCEPT ![r] = [New("list", Me, Me, "viewer")
                                    EXCEPT !.mine = TRUE]]
  /\ UNCHANGED <<owner, role, calm, counts>>

\* A request whose answer nobody waits for any more.
Unmounted(q) ==
  IF q.pc # "answered" THEN [q EXCEPT !.mine = FALSE]
  ELSE IF q.pending = {} THEN Idle
  ELSE [q EXCEPT !.mine = FALSE, !.pc = "over"]

\* Its answers will find the component unmounted.
ClosePanel ==
  /\ panel.open
  /\ panel' = [Closed EXCEPT !.isOwner = panel.isOwner]
  /\ reqs' = [r \in Requests |-> IF r \in InFlight
                                 THEN Unmounted(reqs[r]) ELSE reqs[r]]
  /\ UNCHANGED <<owner, role, calm, counts>>

Mine == {r \in InFlight : reqs[r].mine}

\* A request of the panel; two about one row, or one beside the fetch, are
\* not answered in the order in which they take effect.
Send(r, kind, t, new) ==
  /\ reqs[r].pc = "idle"
  /\ sharing < MaxSharing /\ sharing' = sharing + 1
  /\ reqs' = [reqs EXCEPT ![r] = [New(kind, Me, t, new) EXCEPT !.mine = TRUE]]
  /\ calm' = (calm /\ ~Conflict(kind, t))
  /\ panel' = [panel EXCEPT
       !.updating = IF kind = "invite" THEN @ ELSE t,
       !.busy = (@ \/ kind = "invite"),
       !.sole = @ /\ \A s \in Mine : /\ reqs[s].target # t
                                     /\ reqs[s].kind # "list"]
  /\ UNCHANGED <<owner, role, failures>>

\* handleInvite.
SubmitInvite(r, t, new) ==
  /\ panel.open /\ panel.isOwner /\ ~panel.busy
  /\ Send(r, "invite", t, new)

\* handleRoleChange, handleRemove, handleTransferOwnership: the controls of a
\* row, which the owners' rows do not have.
PressRow(r, kind, t, new) ==
  /\ panel.open /\ panel.isOwner
  /\ kind \in {"role", "remove", "transfer"}
  /\ NamesRole(kind) \/ new = "viewer"
  /\ panel.list[t] \in Given
  /\ kind = "role" => panel.list[t] # new
  /\ panel.updating # t
  /\ Send(r, kind, t, new)

\* Mutant: the old owner's row is left as it was.
ShownTransferOnly(q) ==
  CASE q.kind = "list" -> q.rows
    [] q.kind = "invite" -> [panel.list EXCEPT ![q.target] = q.role]
    [] q.kind = "remove" -> [panel.list EXCEPT ![q.target] = NoRole]
    [] OTHER ->
       [panel.list EXCEPT ![q.target] =
          IF @ = NoRole THEN @
          ELSE IF q.kind = "transfer" THEN "owner" ELSE q.role]

\* What the panel makes of a good answer.
Shown(q) ==
  LET Map(u, new) == IF panel.list[u] = NoRole THEN NoRole ELSE new
  IN CASE q.kind = "list" -> q.rows
       [] q.kind = "invite" -> [panel.list EXCEPT ![q.target] = q.role]
       [] q.kind = "remove" -> [panel.list EXCEPT ![q.target] = NoRole]
       [] q.kind = "role" ->
          [panel.list EXCEPT ![q.target] = Map(q.target, q.role)]
       [] OTHER ->
          [panel.list EXCEPT ![Me] = Map(Me, "editor"),
                             ![q.target] = Map(q.target, "owner")]

\* The panel after an answer, good or not; finally ends with either.  A list
\* that could not be fetched is not reported.
Told(q, ok) ==
  [panel EXCEPT !.list = IF ok THEN Shown(q) ELSE @,
                !.updating = IF q.kind \in {"list", "invite"} THEN @ ELSE None,
                !.busy = @ /\ q.kind # "invite",
                !.sole = @ /\ (ok \/ q.kind # "list")]

\* The answer arrives where the request came from.
Receive(r) ==
  /\ reqs[r].pc = "answered"
  /\ reqs' = [reqs EXCEPT ![r] =
       IF reqs[r].pending = {} THEN Idle
       ELSE [reqs[r] EXCEPT !.pc = "over", !.mine = FALSE]]
  /\ panel' = Told(reqs[r], reqs[r].ok)
  /\ UNCHANGED <<owner, role, calm, counts>>

\* api.js gives a request 15 seconds: the panel is told of a failure while
\* the request goes on.
TimeOut(r) ==
  /\ failures < MaxFailures
  /\ failures' = failures + 1
  /\ r \in Mine
  /\ reqs' = [reqs EXCEPT ![r] = Unmounted(reqs[r])]
  /\ panel' = [Told(reqs[r], FALSE) EXCEPT !.sole = FALSE]
  /\ UNCHANGED <<owner, role, calm, sharing>>

-----------------------------------------------------------------------------
Next ==
  \/ \E r \in Requests :
       \/ \E u \in Users : Create(r, u)
       \/ \E kind \in Kinds \ {"create", "list"}, u, t \in Users,
             new \in Given, exact \in BOOLEAN :
            Ask(r, kind, u, t, new, exact)
       \/ CreatePermission(r) \/ Check(r) \/ Read(r) \/ ReadTarget(r)
       \/ WriteRole(r) \/ ReadRows(r)
       \/ \E w \in Writes : TransferWrite(r, w) \/ TransferWriteFails(r, w)
       \/ CallFails(r) \/ AnswerLost(r) \/ TimeOut(r)
       \/ OpenPanel(r) \/ Receive(r)
       \/ \E t \in Users, new \in Given :
            \/ SubmitInvite(r, t, new)
            \/ \E kind \in Kinds : PressRow(r, kind, t, new)
  \/ LoadPage \/ ClosePanel

Spec == Init /\ [][Next]_vars

-----------------------------------------------------------------------------
(* Properties.                                                             *)

Owners == {u \in Users : role[u] = "owner"}

\* The document has been created and no creation or transfer is under way.
AtRest ==
  /\ owner # None
  /\ \A r \in InFlight : reqs[r].kind # "create" /\ reqs[r].pending = {}

\* README.md: "role management (owner/editor/viewer)".  Whatever is invited,
\* changed, removed and handed over, in whatever order it takes effect, the
\* document has one owner, and it is the one the document names -- unless a
\* transfer overlaps with another or with a request about its target or fails
\* half-way, the creation fails, or a request about the owner is let through:
\* POST /share, which does not look, and the others where the owner's id is
\* spelled otherwise.
OneOwner == calm /\ AtRest => Owners = {owner}

\* docs.js:506, "target user must already have access".  Nobody without
\* access becomes an owner, although the check is two calls before the write
\* and the access may be withdrawn in between.
OwnersHadAccess ==
  [][\A u \in Users :
       role[u] = NoRole /\ role'[u] = "owner"
         => \E r \in Requests : At(r, "write", {"create"})]_vars

\* A document that has lost its owners, by a failed creation or by transfers
\* that overlap, never gets one again, once the requests that were admitted
\* before are through.
OwnersAdmitted ==
  \E r \in InFlight : reqs[r].kind # "list" /\
    \/ reqs[r].pc \in {"read", "target", "write"}
    \/ reqs[r].pending # {}
Ownerless == owner # None /\ Owners = {} /\ ~OwnersAdmitted
LostOwnersStayLost == [][Ownerless => Ownerless']_vars

\* The panel, when nothing of its own is under way, shows the roles as they
\* are, as long as it alone changed them, one request at a time for each row.
PanelShowsRoles ==
  calm /\ panel.open /\ panel.sole /\ Mine = {} => panel.list = role
=============================================================================
