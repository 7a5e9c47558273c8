----------------------------- MODULE PageGates -----------------------------
(***************************************************************************)
(* Which pages open for whom, and what each page offers: its links, its    *)
(* buttons, the entries of its lists and the choices of its forms.  Every  *)
(* view decides on its own gate, every page on its own links, every        *)
(* service again on what it is asked to do.                                *)
(*                                                                         *)
(* A user carries, next to the memberships of AccessRules, the flag of     *)
(* the dashboard and the permissions Django stores.  A disabled account    *)
(* has no session: it is an anonymous user here.  That a session holds a   *)
(* second factor and a certificate is MfaAccess's.                         *)
(***************************************************************************)
EXTENDS AccessRules

Permissions ==
  {"apply_board_access", "manage_user_accounts", "view_audit_log", "run_integrity_audit",
   "manage_all_board_memberships"}

HasPerm(u, permission) == ActiveUser(u) /\ (u.superuser \/ permission \in u.perms)
HasDashboardAccess(u) == ActiveUser(u) /\ (u.superuser \/ u.dashboard)
CanReviewAccounts(u) == HasPerm(u, "manage_user_accounts")
CanViewSecurityOperations(u) == HasPerm(u, "view_audit_log")
CanRunIntegrityAudit(u) == CanViewSecurityOperations(u) /\ HasPerm(u, "run_integrity_audit")
CanViewReviewQueue(u, b) == Allows(u, b, "view_review_queue", FALSE)

ModerationCapabilities(u, boards) ==
  {c \in {"accounts", "posts", "comments", "boards"} :
     CASE c = "accounts" -> CanReviewAccounts(u)
       [] c = "posts" -> CanReviewPostsInAdmin(u, boards)
       [] c = "comments" -> CanAccessCommentAdmin(u, boards)
       [] c = "boards" -> CanAccessBoardAdmin(u, boards)}

CanAccessModerationCenter(u, boards) == ModerationCapabilities(u, boards) # {}

-----------------------------------------------------------------------------
(* The pages, and the gate of each *)

Page(name) == [at |-> name, board |-> "none"]
ManagePage(b) == [at |-> "manage", board |-> b.id]

DashboardPages == {"overview", "posts", "audit", "media", "settings"}
PageNames ==
  {"login", "access_requests", "post_create", "review_workspace", "hub", "review_accounts",
   "review_comments", "review_boards", "dashboard_comments", "dashboard_memberships",
   "legacy_admin", "security"} \union DashboardPages

Pages(boards) == {Page(n) : n \in PageNames} \union {ManagePage(b) : b \in boards}

(* Of a superuser too, the board must be active. *)
ManagerPageOpens(u, boards, id) ==
  \E b \in boards : b.id = id /\ b.active /\ CanManageBoardContent(u, b)

DashboardMembershipsOpen(u) ==
  HasDashboardAccess(u) /\ HasPerm(u, "manage_all_board_memberships")

Opens(u, boards, page) ==
  CASE page.at = "login" -> TRUE
    [] page.at = "access_requests" -> HasPerm(u, "apply_board_access")
    [] page.at = "post_create" -> CanChangePostsInAdmin(u, boards)
    [] page.at = "review_workspace" -> CanAccessPostAdmin(u, boards)
    [] page.at = "manage" -> ManagerPageOpens(u, boards, page.board)
    [] page.at = "hub" -> CanAccessModerationCenter(u, boards)
    [] page.at = "review_accounts" -> CanReviewAccounts(u)
    [] page.at = "review_comments" -> CanAccessCommentAdmin(u, boards)
    [] page.at = "review_boards" -> CanAccessBoardAdmin(u, boards)
    [] page.at = "dashboard_comments" -> HasDashboardAccess(u) /\ CanAccessCommentAdmin(u, boards)
    [] page.at = "dashboard_memberships" -> DashboardMembershipsOpen(u)
    [] page.at = "security" -> CanViewSecurityOperations(u)
    [] OTHER -> HasDashboardAccess(u)

-----------------------------------------------------------------------------
(* The links of each page *)

(* A set with one element, or none. *)
If(condition, name) == IF condition THEN {Page(name)} ELSE {}

BoardManagementLinks(u, boards) == {ManagePage(b) : b \in BoardsManageableBy(u, boards)}

(* The menu on every page. *)
Menu(u, boards) ==
  UNION {BoardManagementLinks(u, {b \in boards : b.active}),
         If(CanChangePostsInAdmin(u, boards), "post_create"),
         If(CanAccessModerationCenter(u, boards), "hub"),
         If(HasDashboardAccess(u), "overview"),
         If(DashboardMembershipsOpen(u), "dashboard_memberships"),
         If(CanViewSecurityOperations(u), "security"),
         If(HasPerm(u, "apply_board_access"), "access_requests")}

HubLinks(u, boards) ==
  LET may == ModerationCapabilities(u, boards) IN
  UNION {If("boards" \in may, "review_boards"), If("accounts" \in may, "review_accounts"),
         If("posts" \in may, "review_workspace"), If("comments" \in may, "review_comments")}

DashboardNavigation(u, boards) ==
  {Page(n) : n \in DashboardPages}
    \union If(HasPerm(u, "manage_all_board_memberships"), "dashboard_memberships")
    \union If(CanAccessCommentAdmin(u, boards), "dashboard_comments")

DashboardShell(u, boards) ==
  DashboardNavigation(u, boards) \union {Page("legacy_admin")}
    \union If(CanViewSecurityOperations(u), "security")

OverviewLinks(u, boards) ==
  {Page("posts"), Page("media"), Page("legacy_admin")}
    \union If(CanChangePostsInAdmin(u, boards), "post_create")
    \union If(CanAccessCommentAdmin(u, boards), "dashboard_comments")
    \union If(CanViewSecurityOperations(u), "security")

PostsPageLinks(u, boards) == If(CanChangePostsInAdmin(u, boards), "post_create")
MediaPageLinks(u, boards) == If(CanChangePostsInAdmin(u, boards), "post_create")
CommentsPageLinks == {Page("review_comments")}
AuditPageLinks(u) == If(CanViewSecurityOperations(u), "security")

Links(u, boards, page) ==
  Menu(u, boards) \union
  CASE page.at = "hub" -> HubLinks(u, boards)
    [] page.at \in DashboardPages \union {"dashboard_comments", "dashboard_memberships"} ->
         DashboardShell(u, boards) \union
         CASE page.at = "overview" -> OverviewLinks(u, boards)
           [] page.at = "posts" -> PostsPageLinks(u, boards)
           [] page.at = "media" -> MediaPageLinks(u, boards)
           [] page.at = "dashboard_comments" -> CommentsPageLinks
           [] page.at = "audit" -> AuditPageLinks(u)
           [] OTHER -> {}
    [] OTHER -> {}

(* board_index_shared_context: what the page of a board asks its reader to do. *)
Nowhere == Page("none")

MemberLink(u, boards, b, published) ==
  IF CanCreatePostForBoardCategory(u, boards, b, published) THEN Page("post_create")
  ELSE IF CanViewReviewQueue(u, b) THEN Page("review_workspace")
  ELSE Page("access_requests")

Participation(u, boards, b, published, pending) ==
  LET state ==
        IF ~u.authenticated THEN "anonymous"
        ELSE IF u.superuser \/ u.member[b.id].active THEN "member"
        ELSE IF pending THEN "pending"
        ELSE IF u.member[b.id].role = "none" /\ HasPerm(u, "apply_board_access") THEN "eligible"
        ELSE "suspended"
  IN [state |-> state,
      to |-> CASE state = "anonymous" -> Page("login")
               [] state = "member" -> MemberLink(u, boards, b, published)
               [] state = "suspended" -> Nowhere
               [] OTHER -> Page("access_requests")]

-----------------------------------------------------------------------------
(* Posts: what the pages offer, and what the services accept *)

(* PostReviewWorkspaceView.get_context_data, _published_context *)
Offered(u, boards, posts, action) ==
  CASE action = "submit" -> {p \in PostsVisibleTo(u, boards, posts) :
                               p.status = "draft" /\ CanSubmitPost(u, boards, p)}
    [] action \in {"approve", "reject"} ->
         {p \in PostsVisibleTo(u, boards, posts) : p.status = "review"
            /\ CanReviewPost(u, boards, p) /\ CanPublishPost(u, boards, p)}
    [] action = "unpublish" ->
         PostsPublishableBy(u, boards, {p \in posts : p.status = "normal"})

(* PostReviewWorkspaceView.post and the service behind the action. *)
Accepts(u, boards, posts, action) ==
  {p \in PostsVisibleTo(u, boards, posts) :
     CASE action = "submit" -> p.status = "draft" /\ CanSubmitPost(u, boards, p)
       [] action = "approve" -> p.status = "review" /\ CanPublishPost(u, boards, p)
       [] action = "reject" -> p.status = "review" /\ CanReviewPost(u, boards, p)
       [] action = "unpublish" -> p.status = "normal" /\ CanPublishPost(u, boards, p)}

(* PostAdmin.get_actions *)
AdminActions(u, boards) ==
  (IF u.superuser \/ CanChangePostsInAdmin(u, boards) THEN {"submit"} ELSE {}) \union
  (IF u.superuser \/ CanReviewPostsInAdmin(u, boards) THEN {"approve", "reject", "unpublish"} ELSE {})

(* PostAdmin, behind the gate of its site. *)
AdminSees(u, boards, post) == HasDashboardAccess(u) /\ CanViewPost(u, boards, post)
AdminChanges(u, boards, post) == AdminSees(u, boards, post) /\ CanEditPost(u, boards, post)

(* The two admin sites register some models twice: the dashboard's with    *)
(* rules of its own, the system's with Django's, which let a superuser do  *)
(* anything, and history of boards with rules that let nobody write.       *)
Histories == {"revision", "post_event", "log", "membership", "membership_event", "request"}

DashboardAdminMay(u, boards, model, op) ==
  /\ HasDashboardAccess(u)
  /\ CASE model = "revision" -> \/ op = "view" /\ CanAccessPostAdmin(u, boards)
                                \/ op = "delete" /\ u.superuser
       [] model = "post_event" -> op = "view" /\ CanAccessPostAdmin(u, boards)
       [] model = "log" -> op \in {"view", "add"} \/ u.superuser
       [] OTHER -> FALSE

SystemAdminMay(u, model, op) ==
  /\ ActiveSuperuser(u)
  /\ CASE model \in {"revision", "log"} -> TRUE
       [] model \in {"membership", "membership_event", "request"} -> op = "view"
       [] OTHER -> FALSE

(* PostEditView: its queryset, its test; posts_context marks the rows with a link. *)
EditOpens(u, boards, posts) ==
  {p \in PostsVisibleTo(u, boards, posts) : CanEditPost(u, boards, p)}
EditLinks(u, boards, posts) == PostsEditableBy(u, boards, PostsVisibleTo(u, boards, posts))

(* PostForm, PostAdmin.get_form: the categories on offer; form_valid,  *)
(* save_model: the post is judged again with the category that came in. *)
CategoryChoices(u, boards, post, categories) ==
  IF CanEditPost(u, boards, post) THEN CategoriesForPostCreation(u, boards, categories)
  ELSE CategoriesAvailableTo(u, boards, categories)
MoveAccepted(u, boards, post, c) == CanEditPost(u, boards, [post EXCEPT !.category = c])

(* What has been saved is a draft again, but for a superuser; its author is *)
(* shown the post, anybody else the form once more.                         *)
Saved(u, post, c) ==
  [post EXCEPT !.category = c, !.status = IF u.superuser THEN @ ELSE "draft"]
SavedPageOpens(u, boards, post) ==
  IF Owns(u, post) THEN CanViewPostDetail(u, boards, post)
  ELSE EditOpens(u, boards, {post}) = {post}

(* The public lists, the page of a post and of its revisions, and the edit *)
(* link each of them shows.                                                *)
Listed(u, boards, posts) == PublishedPostsVisibleTo(u, boards, posts)
DetailOpens(u, boards, posts) == {p \in posts : CanViewPostDetail(u, boards, p)}
ListEditLinks(u, boards, posts) == PostsEditableBy(u, boards, Listed(u, boards, posts))
DetailEditLinks(u, boards, posts) ==
  {p \in DetailOpens(u, boards, posts) : CanEditPost(u, boards, p)}

(* submit_own_post_for_review, from the page of one's profile. *)
OwnSubmits(u, boards, posts) ==
  {p \in posts : ActiveUser(u) /\ Owns(u, p) /\ p.status = "draft" /\ CanSubmitPost(u, boards, p)}

-----------------------------------------------------------------------------
(* Requests for board access, and accounts *)

(* A request names the board's id, whether the user made it, and the role. *)
Requests(boards) ==
  [board : {b.id : b \in boards}, own : BOOLEAN, role : {"contributor", "manager"}]

(* Seeded fault: a manager who has left still finds the requests. *)
BoardRequestsOfManagers(u, boards) ==
  {r \in Requests(boards) :
     u.superuser \/ \E b \in boards : b.id = r.board /\ b.active /\ u.member[b.id].role = "manager"}

(* ModerationHubView, BoardAccessModerationView, BoardAccessRequestAdminBase: three copies. *)
BoardRequests(u, boards) ==
  {r \in Requests(boards) :
     u.superuser \/ \E b \in boards : b.id = r.board /\ b.active
                                      /\ u.member[b.id] = [role |-> "manager", active |-> TRUE]}

(* can_review_board_access_request *)
Decidable(u, boards, r) ==
  /\ ActiveUser(u) /\ ~r.own
  /\ \/ u.superuser
     \/ /\ r.role # "manager"
        /\ \E b \in boards : b.id = r.board /\ CanManageBoardMembers(u, b)

(* submit_board_access_request, without the clash of two pending requests. *)
SubmitAccepted(u, b, role) ==
  /\ HasPerm(u, "apply_board_access")
  /\ b.active
  /\ u.member[b.id] # [role |-> role, active |-> TRUE]

Accounts ==
  [privileged : BOOLEAN, active : BOOLEAN, own : BOOLEAN,
   invitation : {"none", "open", "accepted"}]

(* AccountModerationView and the buttons beside its rows. *)
AccountsListed == {a \in Accounts : ~a.privileged}
AccountOffer(a) ==
  IF a.active THEN "deactivate" ELSE IF a.invitation # "open" THEN "activate" ELSE "none"

(* set_account_active_state *)
SetActiveAccepted(u, a, action) ==
  /\ CanReviewAccounts(u)
  /\ ~a.privileged /\ ~a.own
  /\ action = "activate" => a.invitation # "open"

-----------------------------------------------------------------------------
(* Properties, of a user u in a world of boards *)

(* Every board has a category that no other board has. *)
Settled(boards) == \A b \in boards : BoardForCategory(boards, b.category) = b

(* Every link on a page that opens leads to a page that opens, and every   *)
(* page that opens is linked, but for the workspace of an author who does  *)
(* not review: he submits from his profile.                                *)
LinksLead(u, boards) ==
  LET open == {p \in Pages(boards) : Opens(u, boards, p)} IN
  /\ \A p \in open : Links(u, boards, p) \subseteq open
  /\ \A p \in open :
       \/ p = Page("login")
       \/ p \in Menu(u, boards) \/ \E q \in open : p \in Links(u, boards, q)
       \/ p = Page("review_workspace") /\ ~CanReviewPostsInAdmin(u, boards)

(* What the page of a board asks for can be done, where every board has a  *)
(* category of its own, by whoever may apply at all; who is called         *)
(* eligible will have any request accepted.                                *)
ParticipationLeads(u, boards, published) ==
  \A b \in {c \in boards : c.active}, pending \in BOOLEAN :
    LET p == Participation(u, boards, b, published, pending) IN
    /\ Settled(boards) /\ (u.authenticated => HasPerm(u, "apply_board_access")) =>
         p.to = Nowhere \/ Opens(u, boards, p.to)
    /\ p.state = "eligible" => \A role \in AnyRole : SubmitAccepted(u, b, role)
    /\ p.to = Page("post_create") => Opens(u, boards, p.to)

(* Every button on a post does what it says, and every post on which the   *)
(* services accept an action is offered; the admin offers the action to    *)
(* whoever has such a post, and changes only what the edit page changes.   *)
(* A listed post opens, every edit link leads to a form, and an author may *)
(* submit from his profile what he may submit in the workspace.            *)
PostOffersHold(u, boards, posts) ==
  /\ \A action \in {"submit", "approve", "reject", "unpublish"} :
       /\ Offered(u, boards, posts, action) = Accepts(u, boards, posts, action)
       /\ action \in AdminActions(u, boards) <=> Accepts(u, boards, posts, action) # {}
  /\ EditLinks(u, boards, posts) = EditOpens(u, boards, posts)
  /\ \A p \in posts : AdminChanges(u, boards, p) => p \in EditOpens(u, boards, posts)
  /\ Listed(u, boards, posts) \subseteq DetailOpens(u, boards, posts)
  /\ ListEditLinks(u, boards, posts) \union DetailEditLinks(u, boards, posts)
       \subseteq EditOpens(u, boards, posts)
  /\ OwnSubmits(u, boards, posts) = {p \in Accepts(u, boards, posts, "submit") : Owns(u, p)}

(* No admin writes the history of posts or boards, nobody but a superuser  *)
(* touches a revision or an entry of the log that is there, and only those *)
(* see a history who may see the posts or the dashboard.                   *)
HistoryStands(u, boards) ==
  \A model \in Histories, op \in {"view", "add", "change", "delete"} :
    DashboardAdminMay(u, boards, model, op) \/ SystemAdminMay(u, model, op) =>
      \/ u.superuser /\ (op = "view" \/ model \in {"revision", "log"})
      \/ op = "view" /\ model \in {"revision", "post_event"} /\ CanAccessPostAdmin(u, boards)
      \/ op \in {"view", "add"} /\ model = "log" /\ HasDashboardAccess(u)

(* A category on offer is accepted for one's own draft, and for any post   *)
(* one may edit if one manages the board it moves to; only between boards  *)
(* with different roles the form may offer what saving then refuses.  Who  *)
(* has saved is led to a page that opens.                                  *)
ChoicesHold(u, boards, posts, categories) ==
  \A p \in EditOpens(u, boards, posts) :
    /\ \A c \in CategoryChoices(u, boards, p, categories) :
         \/ MoveAccepted(u, boards, p, c)
         \/ /\ ~Owns(u, p) \/ p.status # "draft"
            /\ u.member[BoardForCategory(boards, c).id].role # "manager"
            /\ BoardForCategory(boards, c) # BoardForCategory(boards, p.category)
    /\ \A c \in CategoryChoices(u, boards, p, categories) :
         MoveAccepted(u, boards, p, c) => SavedPageOpens(u, boards, Saved(u, p, c))

(* Whatever a reviewer may decide is listed for him; what is listed and    *)
(* cannot be decided is his own request, or for a manager one to become    *)
(* manager.  Every button on an account works but on one's own row.        *)
ReviewListsHold(u, boards) ==
  /\ \A r \in Requests(boards) :
       /\ Decidable(u, boards, r) => r \in BoardRequests(u, boards)
       /\ r \in BoardRequests(u, boards) =>
            Decidable(u, boards, r) \/ r.own \/ (~u.superuser /\ r.role = "manager")
  /\ BoardRequests(u, boards) # {} => CanAccessBoardAdmin(u, boards)
  /\ CanReviewAccounts(u) => \A a \in AccountsListed :
       AccountOffer(a) # "none" => SetActiveAccepted(u, a, AccountOffer(a)) <=> ~a.own
=============================================================================
