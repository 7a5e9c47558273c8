------------------------------ MODULE Seeding ------------------------------
(***************************************************************************)
(* The commands that set a site up: bootstrap_fresh_site and seed_boards   *)
(* make the rows of the three boards and bind them to categories, and      *)
(* seed_board_index fills the boards with content, row by row and without  *)
(* a transaction, so that a killed command leaves what it has done.        *)
(*                                                                         *)
(* Abstractions.  A batch of rows a seeder creates in one loop is one row, *)
(* and it is known by the run that made it.  Commands do not overlap, and  *)
(* nobody edits content while a site is being set up.  People do create    *)
(* categories, also several of one name, and unbind boards.                *)
(***************************************************************************)
EXTENDS Integers, SequencesExt, FiniteSetsExt

CONSTANTS
  MaxSeeds,       \* bound on the runs of seed_board_index
  MaxCategories,  \* bound on the categories people create
  MaxBinds        \* bound on the steps that touch the rows of the boards

SiteBoards == <<"skateboard", "music", "coding">>
BoardSlugs == ToSet(SiteBoards)

(* The tables in the order in which a seeder fills and empties them.  The  *)
(* board counts as filled as soon as the first one has a row.              *)
Fills == [skateboard |-> <<"homie", "clip", "homie", "clip">>,
          music |-> <<"spotify", "apple", "spotify", "apple">>,
          coding |-> <<"project", "principle", "experiment">>]

(* Seeded fault: the tables are emptied in the order they are filled. *)
EmptiesAnchorFirst == [skateboard |-> <<"homie", "clip">>,
                       music |-> <<"spotify", "apple">>,
                       coding |-> <<"project", "principle", "experiment">>]
Empties == [skateboard |-> <<"clip", "homie">>,
            music |-> <<"apple", "spotify">>,
            coding |-> <<"experiment", "principle", "project">>]

Anchor == [skateboard |-> "homie", music |-> "spotify", coding |-> "project"]
TablesOf(b) == ToSet(Fills[b])
Tables == UNION {TablesOf(b) : b \in BoardSlugs}

NoBoardRow == [exists |-> FALSE, category |-> 0]
NoSeed == [run |-> 0, reset |-> FALSE, boards |-> <<>>, steps |-> <<>>, done |-> FALSE]

VARIABLES
  categories,  \* the categories by id: whose name they bear, and whether they are shown
  boardRows,   \* the rows of the boards and their categories
  seeded,      \* the runs whose rows are in a table
  seed,        \* the latest run of seed_board_index
  binds        \* steps on the boards left

site == <<categories, boardRows, seeded, seed, binds>>

SeedingInit ==
  /\ categories = <<>>
  /\ boardRows = [b \in BoardSlugs |-> NoBoardRow]
  /\ seeded = [t \in Tables |-> <<>>]
  /\ seed = NoSeed
  /\ binds = MaxBinds

Binding == binds > 0 /\ binds' = binds - 1

-----------------------------------------------------------------------------
(* The boards *)

Called(cs, b) == {i \in DOMAIN cs : cs[i].name = b}

(* get_or_create of the category by name, get_or_create of the board, and *)
(* its category only where there is none.                                 *)
BootstrapBoard(db, b) ==
  LET cs == IF Called(db.categories, b) = {}
              THEN Append(db.categories, [name |-> b, nav |-> TRUE]) ELSE db.categories
      i == CHOOSE i \in Called(cs, b) : TRUE
  IN [categories |-> [cs EXCEPT ![i].nav = TRUE],
      boards |-> IF db.boards[b].category = 0
                   THEN [db.boards EXCEPT ![b] = [exists |-> TRUE, category |-> i]] ELSE db.boards]

Site == [categories |-> categories, boards |-> boardRows]

(* get_or_create raises on two of a name, and nothing is done. *)
Bootstrapped(db) ==
  IF \E b \in BoardSlugs : Cardinality(Called(db.categories, b)) > 1 THEN db
  ELSE FoldLeft(BootstrapBoard, db, SiteBoards)

BootstrapFreshSite ==
  /\ Binding
  /\ categories' = Bootstrapped(Site).categories
  /\ boardRows' = Bootstrapped(Site).boards
  /\ UNCHANGED <<seeded, seed>>

(* seed_boards binds the boards to the categories 1, 2 and 3, whatever they *)
(* are called, and skips a board whose category is missing.                 *)
SeededBoards(db, n) ==
  [db EXCEPT !.boards = [b \in BoardSlugs |->
     LET i == CHOOSE i \in 1..3 : SiteBoards[i] = b IN
     IF i <= n /\ i \in DOMAIN db.categories THEN [exists |-> TRUE, category |-> i] ELSE @[b]]]

(* One statement a board: a kill leaves the first n. *)
SeedBoards ==
  /\ Binding
  /\ \E n \in 0..3 : boardRows' = SeededBoards(Site, n).boards
  /\ UNCHANGED <<categories, seeded, seed>>

(* People: a new category, and a board whose category is taken off or deleted. *)
AddCategory(b) ==
  /\ Binding
  /\ Len(categories) < MaxCategories
  /\ categories' = Append(categories, [name |-> b, nav |-> FALSE])
  /\ UNCHANGED <<boardRows, seeded, seed>>

Unbind(b) ==
  /\ Binding
  /\ boardRows[b].category # 0
  /\ boardRows' = [boardRows EXCEPT ![b].category = 0]
  /\ UNCHANGED <<categories, seeded, seed>>

-----------------------------------------------------------------------------
(* The content *)

Running == seed.boards # <<>> \/ seed.steps # <<>>

(* Refused while one of the boards is missing. *)
StartSeed(reset) ==
  /\ ~Running
  /\ seed.run < MaxSeeds
  /\ \A b \in BoardSlugs : boardRows[b].exists
  /\ seed' = [run |-> seed.run + 1, reset |-> reset, boards |-> SiteBoards, steps |-> <<>>,
              done |-> FALSE]
  /\ UNCHANGED <<categories, boardRows, seeded, binds>>

Steps(kind, tables) == [n \in DOMAIN tables |-> [kind |-> kind, table |-> tables[n]]]

(* Filled: skip the board, or empty it first. *)
OpenBoard ==
  /\ seed.boards # <<>> /\ seed.steps = <<>>
  /\ LET b == Head(seed.boards)
         filled == seeded[Anchor[b]] # <<>>
         fill == Steps("create", Fills[b])
     IN seed' = [seed EXCEPT !.boards = Tail(@),
                             !.steps = IF ~filled THEN fill
                                       ELSE IF seed.reset THEN Steps("delete", Empties[b]) \o fill
                                       ELSE <<>>,
                             !.done = filled /\ ~seed.reset /\ Len(seed.boards) = 1]
  /\ UNCHANGED <<categories, boardRows, seeded, binds>>

SeedStep ==
  /\ seed.steps # <<>>
  /\ LET s == Head(seed.steps) IN
     seeded' = [seeded EXCEPT ![s.table] = IF s.kind = "delete" THEN <<>> ELSE Append(@, seed.run)]
  /\ seed' = [seed EXCEPT !.steps = Tail(@),
                          !.done = Len(seed.steps) = 1 /\ seed.boards = <<>>]
  /\ UNCHANGED <<categories, boardRows, binds>>

KillSeed ==
  /\ Running
  /\ seed' = [seed EXCEPT !.boards = <<>>, !.steps = <<>>]
  /\ UNCHANGED <<categories, boardRows, seeded, binds>>

SeedingSteps ==
  \/ BootstrapFreshSite \/ SeedBoards
  \/ \E b \in BoardSlugs : AddCategory(b) \/ Unbind(b)
  \/ \E reset \in BOOLEAN : StartSeed(reset)
  \/ OpenBoard \/ SeedStep \/ KillSeed

-----------------------------------------------------------------------------
(* Properties *)

Runs(b) == UNION {ToSet(seeded[t]) : t \in TablesOf(b)}

(* The rows of a board are of one run, whatever was killed before it; a    *)
(* run that ends leaves no board empty, and one that resets fills all.     *)
SeedsNeverDouble ==
  /\ \A b \in BoardSlugs : Cardinality(Runs(b)) <= 1
  /\ \A b \in BoardSlugs : Runs(b) # {} => boardRows[b].exists
  /\ seed.done => \A b \in BoardSlugs : seeded[Anchor[b]] # <<>>
  /\ seed.done /\ seed.reset => \A b \in BoardSlugs : \A t \in TablesOf(b) :
       seeded[t] = [n \in DOMAIN SelectSeq(Fills[b], LAMBDA u : u = t) |-> seed.run]

(* A bootstrap that is not refused binds every board, one to a category,   *)
(* keeps every binding there was, and changes nothing the second time; on  *)
(* a fresh site seed_boards agrees with it.                                *)
BootstrapConverges ==
  LET after == Bootstrapped(Site)
      fresh == Bootstrapped([categories |-> <<>>, boards |-> [b \in BoardSlugs |-> NoBoardRow]])
  IN /\ Bootstrapped(after) = after
     /\ SeededBoards(fresh, 3) = fresh
     /\ after # Site => \A b \in BoardSlugs :
          /\ after.boards[b].exists /\ after.boards[b].category \in DOMAIN after.categories
          /\ boardRows[b].category # 0 => after.boards[b] = boardRows[b]
          /\ boardRows[b].category = 0 =>
               after.categories[after.boards[b].category] = [name |-> b, nav |-> TRUE]

(* seed_board_index, bootstrap_fresh_site, seed_boards: any order of runs, *)
(* kills and resets leaves every board with the content of one run, and    *)
(* setting up again what is set up changes nothing.                        *)
SeedsConverge == SeedsNeverDouble /\ BootstrapConverges
=============================================================================
