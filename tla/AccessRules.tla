---------------------------- MODULE AccessRules ----------------------------
(***************************************************************************)
(* Who may do what on a board: the table of boards/access_rules.py, the    *)
(* predicates of boards/policies.py about one object, and the querysets of *)
(* the same module that select the objects of a list.  A user carries the  *)
(* memberships, a board its category, a post its category, owner and       *)
(* status; NoCategory is NULL.                                             *)
(***************************************************************************)
EXTENDS FiniteSets

NoCategory == "none"
NoBoard == [id |-> "none", active |-> FALSE, category |-> NoCategory]

ContributorActions == {"create_post", "edit_own_draft", "submit_post"}

ReviewerActions ==
  {"view_review_queue", "review_post", "publish_post", "moderate_comment"}

ManagerActions ==
  ContributorActions \union ReviewerActions
    \union {"edit_own_post", "edit_any_post", "change_board_settings", "manage_board_members"}

RoleActions ==
  [contributor |-> ContributorActions,
   editor |-> ContributorActions \union {"edit_own_post"},
   reviewer |-> ReviewerActions,
   manager |-> ManagerActions]

OwnOnly == {"edit_own_draft", "edit_own_post", "submit_post"}
OthersOnly == {"review_post", "publish_post"}

(* A role that no longer exists allows nothing. *)
AllowsBoardAction(role, action, owns) ==
  /\ role \in DOMAIN RoleActions
  /\ action \in RoleActions[role]
  /\ action \in OwnOnly => owns
  /\ action \in OthersOnly => ~owns

-----------------------------------------------------------------------------
(* The objects behind a request *)

ActiveUser(u) == u.authenticated /\ u.active
ActiveSuperuser(u) == ActiveUser(u) /\ u.superuser

(* Exactly one board, or none: an ambiguous category belongs to no board. *)
BoardForCategory(boards, c) ==
  LET owners == {b \in boards : b.category = c} IN
  IF c # NoCategory /\ Cardinality(owners) = 1 THEN CHOOSE b \in owners : TRUE ELSE NoBoard

HasMembership(u, b) ==
  ActiveUser(u) /\ b # NoBoard /\ b.active /\ u.member[b.id].active

Allows(u, b, action, owns) ==
  /\ ActiveUser(u)
  /\ u.superuser \/ (HasMembership(u, b) /\ AllowsBoardAction(u.member[b.id].role, action, owns))

Owns(u, post) == post.owner = u.id

CanManageBoardMembers(u, b) == Allows(u, b, "manage_board_members", FALSE)
CanManageBoardContent(u, b) == Allows(u, b, "change_board_settings", FALSE)
CanCreatePost(u, b) == Allows(u, b, "create_post", FALSE)

CanCreatePostForBoardCategory(u, boards, b, published) ==
  /\ b # NoBoard /\ b.active
  /\ b.category \in published
  /\ BoardForCategory(boards, b.category) = b
  /\ CanCreatePost(u, b)

CanEditPost(u, boards, post) ==
  Allows(u, BoardForCategory(boards, post.category),
         IF ~Owns(u, post) THEN "edit_any_post"
         ELSE IF post.status = "draft" THEN "edit_own_draft" ELSE "edit_own_post",
         Owns(u, post))

CanDo(u, boards, post, action) ==
  Allows(u, BoardForCategory(boards, post.category), action, Owns(u, post))

CanSubmitPost(u, boards, post) == CanDo(u, boards, post, "submit_post")
CanReviewPost(u, boards, post) == CanDo(u, boards, post, "review_post")
CanPublishPost(u, boards, post) == CanDo(u, boards, post, "publish_post")

CanModerateComment(u, boards, post) ==
  Allows(u, BoardForCategory(boards, post.category), "moderate_comment", FALSE)

CanViewPost(u, boards, post) ==
  LET b == BoardForCategory(boards, post.category) IN
  \/ ActiveSuperuser(u)
  \/ /\ HasMembership(u, b)
     /\ \/ u.member[b.id].role \in {"reviewer", "manager"}
        \/ u.member[b.id].role \in {"contributor", "editor"} /\ Owns(u, post)

CanViewPublishedPost(u, boards, post) ==
  /\ post.status = "normal"
  /\ post.visibility = "public" \/ CanViewPost(u, boards, post)

(* An unpublished post is previewed by its author alone. *)
CanViewPostDetail(u, boards, post) ==
  \/ CanViewPublishedPost(u, boards, post)
  \/ post.status \in {"draft", "review"} /\ ActiveUser(u) /\ Owns(u, post)

-----------------------------------------------------------------------------
(* The querysets *)

Unambiguous(boards) ==
  {b.category : b \in {d \in boards : BoardForCategory(boards, d.category) = d}}

MembershipCategories(u, boards, roles) ==
  {b.category : b \in {d \in boards :
     /\ ActiveUser(u) /\ d.active
     /\ u.member[d.id].active /\ u.member[d.id].role \in roles
     /\ d.category \in Unambiguous(boards)}}

HasScopedRole(u, boards, roles) ==
  ActiveSuperuser(u) \/ MembershipCategories(u, boards, roles) # {}

AnyRole == {"contributor", "editor", "reviewer", "manager"}
Writers == {"contributor", "editor", "manager"}
Reviewers == {"reviewer", "manager"}

CanAccessPostAdmin(u, boards) == HasScopedRole(u, boards, AnyRole)
CanChangePostsInAdmin(u, boards) == HasScopedRole(u, boards, Writers)
CanReviewPostsInAdmin(u, boards) == HasScopedRole(u, boards, Reviewers)
CanAccessCommentAdmin(u, boards) == HasScopedRole(u, boards, Reviewers)

CanAccessBoardAdmin(u, boards) ==
  \/ ActiveSuperuser(u)
  \/ ActiveUser(u) /\ \E b \in boards : b.active /\ u.member[b.id] = [role |-> "manager", active |-> TRUE]

BoardsManageableBy(u, boards) ==
  {b \in boards :
     \/ ActiveSuperuser(u)
     \/ /\ ActiveUser(u) /\ b.active
        /\ u.member[b.id].role = "manager" /\ u.member[b.id].active}

CategoriesForPostCreation(u, boards, categories) ==
  {c \in categories : ActiveSuperuser(u) \/ c \in MembershipCategories(u, boards, Writers)}

CategoriesAvailableTo(u, boards, categories) ==
  {c \in categories : ActiveSuperuser(u) \/ c \in MembershipCategories(u, boards, AnyRole)}

(* Of posts, and of the revisions of posts. *)
PostsVisibleTo(u, boards, posts) ==
  {p \in posts :
     \/ ActiveSuperuser(u)
     \/ p.category \in MembershipCategories(u, boards, Reviewers)
     \/ (p.category \in MembershipCategories(u, boards, {"contributor", "editor"}) /\ Owns(u, p))}

PostsEditableBy(u, boards, posts) ==
  {p \in posts :
     \/ ActiveSuperuser(u)
     \/ p.category \in MembershipCategories(u, boards, {"manager"})
     \/ p.category \in MembershipCategories(u, boards, {"editor"}) /\ Owns(u, p)
     \/ /\ p.category \in MembershipCategories(u, boards, {"contributor"})
        /\ Owns(u, p) /\ p.status = "draft"}

(* Seeded fault: the author's own posts are listed for publishing too. *)
PostsPublishableByOwners(u, boards, posts) ==
  {p \in posts : ActiveSuperuser(u) \/ p.category \in MembershipCategories(u, boards, Reviewers)}

PostsPublishableBy(u, boards, posts) ==
  {p \in posts :
     \/ ActiveSuperuser(u)
     \/ p.category \in MembershipCategories(u, boards, Reviewers) /\ ~Owns(u, p)}

PublishedPostsVisibleTo(u, boards, posts) ==
  LET published == {p \in posts : p.status = "normal"} IN
  {p \in published :
     \/ ActiveSuperuser(u)
     \/ p.visibility = "public"
     \/ p \in PostsVisibleTo(u, boards, {q \in published : q.visibility = "staff_only"})}

CommentsVisibleToModerator(u, boards, posts) ==
  {p \in posts :
     ActiveSuperuser(u) \/ p.category \in MembershipCategories(u, boards, Reviewers)}

-----------------------------------------------------------------------------
(* Properties, of a user u in a world of boards, posts and categories *)

(* boards/policies.py decides twice, once per object and once per queryset:  *)
(* every list shows exactly the objects on which the same user may act.      *)
ListsAgreeWithChecks(u, boards, posts, categories) ==
  /\ BoardsManageableBy(u, boards) = {b \in boards : CanManageBoardMembers(u, b)}
  /\ PostsVisibleTo(u, boards, posts) = {p \in posts : CanViewPost(u, boards, p)}
  /\ PostsEditableBy(u, boards, posts) = {p \in posts : CanEditPost(u, boards, p)}
  /\ PostsPublishableBy(u, boards, posts) = {p \in posts : CanPublishPost(u, boards, p)}
  /\ PublishedPostsVisibleTo(u, boards, posts) = {p \in posts : CanViewPublishedPost(u, boards, p)}
  /\ CommentsVisibleToModerator(u, boards, posts) = {p \in posts : CanModerateComment(u, boards, p)}
  /\ CategoriesForPostCreation(u, boards, categories)
       = {c \in categories : CanCreatePost(u, BoardForCategory(boards, c))}
  /\ CategoriesAvailableTo(u, boards, categories)
       = {c \in categories : \E p \in posts : p.category = c /\ CanViewPost(u, boards, p)}

(* A page opens for a user exactly when something behind it may be done, and *)
(* whoever acts on a post may see it: no page that is always empty, no       *)
(* button on a post the list hides, and nobody but a superuser publishes a   *)
(* post he wrote or edits one he reviews without being a manager.            *)
PagesFitRights(u, boards, posts) ==
  LET Some(Can(_, _, _)) == \E p \in posts : Can(u, boards, p) IN
  /\ CanAccessPostAdmin(u, boards) <=> Some(CanViewPost)
  /\ CanChangePostsInAdmin(u, boards) <=> Some(CanEditPost)
  /\ CanReviewPostsInAdmin(u, boards) <=> Some(CanPublishPost)
  /\ CanAccessCommentAdmin(u, boards) <=> Some(CanModerateComment)
  /\ CanAccessBoardAdmin(u, boards) <=> ActiveSuperuser(u) \/ BoardsManageableBy(u, boards) # {}
  /\ BoardsManageableBy(u, boards) = {b \in boards : CanManageBoardContent(u, b)}
  /\ \A b \in boards, published \in SUBSET {c.category : c \in boards} :
       CanCreatePostForBoardCategory(u, boards, b, published)
         => b.category \in CategoriesForPostCreation(u, boards, published)
  /\ \A p \in posts :
       /\ (\/ CanEditPost(u, boards, p) \/ CanSubmitPost(u, boards, p)
           \/ CanPublishPost(u, boards, p) \/ CanModerateComment(u, boards, p))
            => CanViewPost(u, boards, p)
       /\ CanReviewPost(u, boards, p) <=> CanPublishPost(u, boards, p)
       /\ CanPublishPost(u, boards, p) /\ ~u.superuser
            => /\ ~Owns(u, p)
               /\ CanEditPost(u, boards, p)
                    => u.member[BoardForCategory(boards, p.category).id].role = "manager"
=============================================================================
