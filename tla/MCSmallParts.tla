---------------------------- MODULE MCSmallParts ----------------------------
(***************************************************************************)
(* The parts of the system that share no state with the rest, each         *)
(* explored by itself: `part' says which one a behaviour is about, and the *)
(* variables of the others stay as they were.                              *)
(*                                                                         *)
(* chain: a cursor yields documents one by one, in any order and with any  *)
(* omission or repetition, out of three chains (one of p1, one of p1 that  *)
(* went another way after its first document, which is what a restored     *)
(* backup grows into, and one of p2), and a document whose MAC does not    *)
(* fit.  rights: a user (anonymous, disabled, plain or superuser, with a   *)
(* role, an ended role or an unknown role) in a world of two boards that   *)
(* share a category, have one each or have none.  music, coding: the       *)
(* content of these boards under forms, admin and imports.  layout: the    *)
(* clips of one page.  clips: the forms that make clips.  seeding: the     *)
(* commands that set a site up.                                            *)
(***************************************************************************)
EXTENDS AuditChain, PageGates, BoardIndex, ClipForms, Seeding

CONSTANTS
  MaxScan,   \* bound on the documents of a cursor
  MaxShown   \* bound on the clips of a page

VARIABLES part, scanned, checkpoint, user, boards, shown

inputs == <<part, scanned, checkpoint, user, boards, shown>>
vars == <<inputs, content, clipForms, site>>

-----------------------------------------------------------------------------
(* verify_chain *)

Doc(p, i, previous, mac) ==
  [partition |-> p, sequence |-> i, previous |-> previous, mac |-> mac, genuine |-> TRUE]

Main == <<Doc("p1", 1, NoPrevious, 1), Doc("p1", 2, 1, 2), Doc("p1", 3, 2, 3)>>
Regrown == <<Doc("p1", 1, NoPrevious, 1), Doc("p1", 2, 1, 4), Doc("p1", 3, 4, 5)>>
Other == <<Doc("p2", 1, NoPrevious, 6), Doc("p2", 2, 6, 7)>>
Chains == {Main, Regrown, Other}
Altered == [Main[2] EXCEPT !.genuine = FALSE]

Documents == UNION {{c[i] : i \in 1..Len(c)} : c \in Chains} \union {Altered}

Checkpoints ==
  {NoCheckpoint} \union
  {[partition |-> d.partition, sequence |-> d.sequence, mac |-> d.mac] : d \in Documents}

NotGenuine == {d \in {scanned[i] : i \in 1..Len(scanned)} : ~d.genuine}

Covers(s, c) ==
  c = NoCheckpoint \/ \E i \in 1..Len(s) : /\ s[i].partition = c.partition
                                           /\ s[i].sequence = c.sequence
                                           /\ s[i].mac = c.mac

-----------------------------------------------------------------------------
(* boards/policies.py *)

Categories == {"c1", "c2"}
BoardIds == {"b1", "b2"}

MCBoards ==
  {{[id |-> "b1", active |-> a, category |-> c], [id |-> "b2", active |-> b, category |-> d]} :
     a \in BOOLEAN, b \in BOOLEAN, c \in {"c1", NoCategory}, d \in Categories \union {NoCategory}}

Memberships ==
  [role : AnyRole, active : BOOLEAN] \union {[role |-> "retired", active |-> TRUE]}

NoMembership == [role |-> "none", active |-> FALSE]

User(logged, a, s, m) ==
  [id |-> "u", authenticated |-> logged, active |-> a, superuser |-> s, member |-> m]

OnBoards(m1, m2) == [i \in BoardIds |-> IF i = "b1" THEN m1 ELSE m2]

Nobody == User(FALSE, FALSE, FALSE, OnBoards(NoMembership, NoMembership))

MCUsers ==
  {Nobody} \union
  {User(TRUE, a, s, OnBoards(m1, m2)) :
     a \in BOOLEAN, s \in BOOLEAN, m1 \in Memberships \union {NoMembership},
     m2 \in {NoMembership} \union [role : {"contributor", "manager"}, active : BOOLEAN]}

(* Every post that could be asked about; the owner "v" is someone else. *)
Posts ==
  [category : Categories \union {NoCategory}, owner : {"u", "v"},
   status : {"draft", "review", "normal"}, visibility : {"public", "staff_only"}]

(* The flag of the dashboard, and none, one, all but one or all permissions. *)
Grants ==
  [dashboard : BOOLEAN,
   perms : {{}, Permissions} \union {{p} : p \in Permissions}
             \union {Permissions \ {p} : p \in Permissions}]

-----------------------------------------------------------------------------
(* The content of the boards *)

Year == [scope |-> "yearly", year |-> 1, month |-> 0]
May == [scope |-> "monthly", year |-> 1, month |-> 5]

RecordRow(title, period, kind, rank, label, artist, cover) ==
  [title |-> title, period |-> period, kind |-> kind, rank |-> rank, label |-> label,
   value |-> rank, artist |-> artist, cover |-> cover]

(* A ranked record, another of its rank, one without a rank, one of a month. *)
OwnRecords ==
  {RecordRow("own", Year, "top_artist", 1, "A", a, TRUE) : a \in {NoArtist, 1}} \union
  {RecordRow("own", Year, "top_artist", 1, "B", NoArtist, FALSE),
   RecordRow("own", Year, "core_artist", 0, "A", NoArtist, FALSE),
   RecordRow("own", May, "total", 0, "T", NoArtist, FALSE)}

ProjectRow(type, repository, url, active, featured) ==
  [type |-> type, repository |-> repository, demo |-> FALSE, url |-> url, active |-> active,
   featured |-> featured]

(* The last one is for the admin alone, which does not ask for the demo. *)
OwnProjects ==
  {ProjectRow("github", TRUE, FALSE, active, featured) : active \in BOOLEAN, featured \in BOOLEAN}
    \union {ProjectRow("local_tool", FALSE, FALSE, TRUE, FALSE),
            ProjectRow("external", FALSE, FALSE, TRUE, FALSE)}

MCEntries ==
  [artist |-> [name : Names, link : {"", "own"}],
   record |-> OwnRecords,
   project |-> OwnProjects,
   principle |-> {[text |-> "principle"]},
   experiment |-> {[text |-> "experiment"]}]

Entry(kind, rank, label, value, artist, link) ==
  [title |-> "list", period |-> Year, kind |-> kind, rank |-> rank, label |-> label,
   value |-> value, artist |-> artist, link |-> link]

(* A list, a later version of it that swaps its ranking, and a list with an *)
(* entry that is refused.                                                   *)
MCLists ==
  {<<Entry("top_artist", 1, "A", 1, "a", "l1"), Entry("top_artist", 2, "B", 1, "b", ""),
     Entry("total", 0, "T", 2, Unnamed, "")>>,
   <<Entry("top_artist", 1, "B", 2, "b", "l2"), Entry("top_artist", 1, "A", 3, "", "")>>,
   <<Entry("total", 0, "T", 3, "a", ""), Entry("top_track", 0, "B", 3, "b", "")>>}

MCWrapped ==
  <<RecordRow("wrapped", Year, "top_artist", 1, "A", NoArtist, FALSE),
    RecordRow("wrapped", Year, "total", 0, "T", NoArtist, FALSE)>>

(* Nothing; or, on the coding board, projects from before there were two links. *)
NoContent == [k \in Kinds |-> <<>>]
OldProjects ==
  <<ProjectRow("github", FALSE, TRUE, TRUE, FALSE), ProjectRow("external", FALSE, TRUE, TRUE, TRUE)>>
MCFoundings == {NoContent, [NoContent EXCEPT !.project = OldProjects]}

Layouts == UNION {[1..n -> {"portrait", "landscape", "square", "unknown"}] : n \in 0..MaxShown}

-----------------------------------------------------------------------------
Init ==
  /\ part \in {"chain", "rights", "music", "coding", "layout", "clips", "seeding"}
  /\ scanned = <<>>
  /\ checkpoint \in IF part = "chain" THEN Checkpoints ELSE {NoCheckpoint}
  /\ user \in IF part = "rights" THEN MCUsers ELSE {Nobody}
  /\ boards \in IF part = "rights" THEN MCBoards ELSE {{}}
  /\ shown \in IF part = "layout" THEN Layouts ELSE {<<>>}
  /\ ContentInit /\ (part = "coding" \/ store = NoContent)
  /\ ClipInit
  /\ SeedingInit

Yield ==
  /\ Len(scanned) < MaxScan
  /\ \E d \in Documents : scanned' = Append(scanned, d)
  /\ UNCHANGED <<part, checkpoint, user, boards, shown>>

Next ==
  \/ part = "chain" /\ Yield /\ UNCHANGED <<content, clipForms, site>>
  \/ part = "music" /\ MusicSteps /\ UNCHANGED <<inputs, clipForms, site>>
  \/ part = "coding" /\ CodingSteps /\ UNCHANGED <<inputs, clipForms, site>>
  \/ part = "clips" /\ ClipSteps /\ UNCHANGED <<inputs, content, site>>
  \/ part = "seeding" /\ SeedingSteps /\ UNCHANGED <<inputs, content, clipForms>>

Spec == Init /\ [][Next]_vars

-----------------------------------------------------------------------------
(* Properties *)

(* security/audit.py, verify_chain: exactly the beginnings of one chain are  *)
(* accepted, and with a checkpoint only those that reach and contain it; a   *)
(* gap, a repetition, a swap, a foreign or altered document, a cut tail and  *)
(* a chain that went another way are all found.                              *)
AcceptsExactlyChains ==
  part = "chain" =>
    (ChainErrors(scanned, checkpoint, NotGenuine) = {} <=>
       /\ Covers(scanned, checkpoint)
       /\ \E c \in Chains : /\ Len(scanned) <= Len(c)
                            /\ \A i \in 1..Len(scanned) : scanned[i] = c[i])

(* boards/policies.py: the queryset of a list and the predicate about one    *)
(* object, written separately, select the same objects for every user; a     *)
(* page opens exactly for those who find something in it, acting on a post   *)
(* implies seeing it, and only managers and superusers both edit and         *)
(* publish, a manager never his own post.                                    *)
RightsAgree ==
  part = "rights" =>
    /\ ListsAgreeWithChecks(user, boards, Posts, Categories)
    /\ PagesFitRights(user, boards, Posts)

(* boards/views.py, Blogs/views.py, Blogs/admin.py, boards/admin.py,         *)
(* moderation/views.py, PowerAdapterBlogs/dashboard_context.py: for every    *)
(* user, with every flag and permission, a link leads to a page that opens,  *)
(* a button does what it says and a choice is accepted, save the cases       *)
(* PageGates names; and what may be done is offered somewhere.               *)
DoorsFit ==
  part = "rights" /\ (user.authenticated => user.active) =>
    /\ \A grant \in Grants : LET u == user @@ grant IN
         LinksLead(u, boards) /\ ReviewListsHold(u, boards) /\ HistoryStands(u, boards)
    /\ \A perms \in {{}, {"apply_board_access"}}, published \in SUBSET Categories :
         ParticipationLeads(user @@ [dashboard |-> FALSE, perms |-> perms], boards, published)
    /\ LET u == user @@ [dashboard |-> TRUE, perms |-> {}] IN
         PostOffersHold(u, boards, Posts) /\ ChoicesHold(u, boards, Posts, Categories)

(* boards/music_record_import.py, boards/models.py: whatever forms, admin    *)
(* and earlier imports have left, overlapping or not, every record links to  *)
(* an artist that exists, and every list that can be imported converges.     *)
ImportsConverge == part = "music" => ContentConverges

(* boards/board_index.py: whatever forms, admin and imports have left, the   *)
(* pages of the boards show every row once, in one place, with figures that  *)
(* agree.                                                                    *)
PagesFit == part \in {"music", "coding", "layout"} => PagesFitContent(shown)

(* seed_board_index, bootstrap_fresh_site, seed_boards: any order of runs,   *)
(* kills and resets leaves every board with the content of one run, and      *)
(* setting up again what is set up changes nothing.                          *)
SetupConverges == part = "seeding" => SeedsConverge
=============================================================================
