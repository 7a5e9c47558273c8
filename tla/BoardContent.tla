---------------------------- MODULE BoardContent ----------------------------
(***************************************************************************)
(* The content of the music and coding boards: artists, records, projects, *)
(* principles and experiments, the managers' forms, the superuser's admin, *)
(* and the commands that import music records.                             *)
(*                                                                         *)
(* A table is the sequence of its rows by primary key; a deleted row stays *)
(* as Absent.  A form is two database calls: the row is loaded and what    *)
(* was entered is checked, then the whole row is written, and inserted     *)
(* again if somebody has deleted it.  A command is one transaction.        *)
(*                                                                         *)
(* Abstractions.  One provider's records are modelled, the other's are a   *)
(* table of the same shape.  `value' stands for all fields a list          *)
(* declares, `cover' for those it does not.                                *)
(***************************************************************************)
EXTENDS Integers, SequencesExt, FiniteSetsExt

CONSTANTS
  Names,       \* normalized names of artists
  Entries,     \* Entries[k]: the rows that may be entered for kind k
  Lists,       \* the lists a file of music records may hold
  Wrapped,     \* the records of a Spotify export
  Foundings,   \* the content a board may start with
  MaxRows,     \* bound on the rows of a table that forms fill
  MaxEdits     \* bound on the changes

Kinds == {"artist", "record", "project", "principle", "experiment"}
Absent == [absent |-> TRUE]
NoArtist == 0
NoForm == [kind |-> "none"]
RankedKinds == {"top_artist", "top_track", "core_artist", "period_artist"}

VARIABLES
  store,   \* store[k]: the table of kind k
  form,    \* the form that is checked and not saved yet
  edits    \* changes left

content == <<store, form, edits>>

ContentInit ==
  /\ store \in Foundings
  /\ form = NoForm
  /\ edits = MaxEdits

Spent == edits > 0 /\ edits' = edits - 1

-----------------------------------------------------------------------------
(* Rows *)

Present(table) == {i \in DOMAIN table : table[i] # Absent}
RowsIn(table) == {table[i] : i \in Present(table)}
Named(table, name) == {i \in Present(table) : table[i].name = name}

(* FOREIGN KEY and the unique name of an artist. *)
Accepted(db, kind, i, row) ==
  CASE kind = "artist" -> Named(db.artist, row.name) \subseteq {i}
    [] kind = "record" -> row.artist \in {NoArtist} \union Present(db.artist)
    [] OTHER -> TRUE

Monthly(r) == r.period.scope = "monthly"

CleanRecord(r) ==
  /\ Monthly(r) <=> r.period.month # 0
  /\ r.kind \in {"top_artist", "top_track"} => r.rank # 0

CleanProject(p) ==
  /\ p.type = "github" => p.repository
  /\ p.type = "external" => p.demo

Clean(db, kind, i, row) ==
  CASE kind = "artist" -> Named(db.artist, row.name) \subseteq {i}
    [] kind = "record" -> CleanRecord(row)
    [] kind = "project" -> CleanProject(row)
    [] OTHER -> TRUE

-----------------------------------------------------------------------------
(* Forms *)

(* The fields of a row that no form shows keep what was loaded. *)
Merged(kind, old, new) ==
  CASE kind = "project" -> [new EXCEPT !.url = old.url]
    [] OTHER -> new

OpenNew(kind, row) ==
  /\ form = NoForm
  /\ Len(store[kind]) < MaxRows
  /\ Clean(store, kind, 0, row) /\ Accepted(store, kind, 0, row)
  /\ Spent
  /\ form' = [kind |-> kind, id |-> 0, row |-> row]
  /\ UNCHANGED store

OpenRow(kind, i, row) ==
  /\ form = NoForm
  /\ i \in Present(store[kind])
  /\ LET entered == Merged(kind, store[kind][i], row) IN
     /\ Clean(store, kind, i, entered) /\ Accepted(store, kind, i, entered)
     /\ form' = [kind |-> kind, id |-> i, row |-> entered]
  /\ Spent
  /\ UNCHANGED store

(* INSERT, or UPDATE of the whole row and INSERT if that found none; *)
(* the database may refuse.                                          *)
Write(db, kind, i, row) ==
  IF i = 0 THEN [db EXCEPT ![kind] = Append(@, row)] ELSE [db EXCEPT ![kind][i] = row]

Save ==
  /\ form # NoForm
  /\ store' = IF Accepted(store, form.kind, form.id, form.row)
                THEN Write(store, form.kind, form.id, form.row) ELSE store
  /\ form' = NoForm
  /\ UNCHANGED edits

(* SET NULL: the records of an artist outlive it. *)
Dropped(db, kind, i) ==
  LET unlinked == IF kind # "artist" THEN db
                  ELSE [db EXCEPT !.record = [j \in DOMAIN @ |->
                          IF @[j] # Absent /\ @[j].artist = i
                            THEN [@[j] EXCEPT !.artist = NoArtist] ELSE @[j]]]
  IN [unlinked EXCEPT ![kind][i] = Absent]

Delete(kind, i) ==
  /\ i \in Present(store[kind])
  /\ Spent
  /\ store' = Dropped(store, kind, i)
  /\ UNCHANGED form

(* The admin knows the model, not the rules of the managers' forms. *)
AdminSave(kind, row) ==
  /\ Len(store[kind]) < MaxRows
  /\ Accepted(store, kind, 0, row)
  /\ Spent
  /\ store' = Write(store, kind, 0, row)
  /\ UNCHANGED form

FormSteps(kind) ==
  \/ \E row \in Entries[kind] : OpenNew(kind, row) \/ AdminSave(kind, row)
  \/ \E i \in DOMAIN store[kind] :
       Delete(kind, i) \/ \E row \in Entries[kind] : OpenRow(kind, i, row)

RecordSteps == FormSteps("record")
ArtistSteps == FormSteps("artist")
ProjectSteps == FormSteps("project")
PrincipleSteps == FormSteps("principle")
ExperimentSteps == FormSteps("experiment")

-----------------------------------------------------------------------------
(* Importing a list of records *)

Ranked(raw) == raw.kind \in RankedKinds

Valid(raw) ==
  /\ Monthly(raw) => raw.period.month # 0
  /\ Ranked(raw) => raw.rank # 0

(* Seeded fault: rows are told apart by their label, ranked or not. *)
SameIdentityByLabel(row, raw) ==
  row.period = raw.period /\ row.kind = raw.kind /\ row.label = raw.label

(* A ranking has one row per rank, everything else one per label. *)
SameIdentity(row, raw) ==
  /\ row.period = raw.period
  /\ row.kind = raw.kind
  /\ IF Ranked(raw) THEN row.rank = raw.rank ELSE row.label = raw.label

Matches(db, raw) == {i \in Present(db.record) : SameIdentity(db.record[i], raw)}

(* "unnamed": the entry has no artist_name; "": it names nobody. *)
Unnamed == "unnamed"
ArtistOf(db, raw) ==
  IF raw.artist = "" THEN NoArtist ELSE CHOOSE i \in Present(db.artist) : db.artist[i].name = raw.artist

(* get_or_create, and the link only where there is none. *)
WithArtist(db, raw) ==
  LET known == IF Named(db.artist, raw.artist) # {} THEN db
               ELSE [db EXCEPT !.artist = Append(@, [name |-> raw.artist, link |-> ""])]
      i == ArtistOf(known, raw)
      link == IF raw.kind = "top_track" THEN "" ELSE raw.link
  IN IF raw.artist \in {Unnamed, ""} THEN db
     ELSE IF link # "" /\ known.artist[i].link = "" THEN [known EXCEPT !.artist[i].link = link]
     ELSE known

Declared(row, raw, artist) ==
  [row EXCEPT !.rank = raw.rank, !.label = raw.label, !.value = raw.value, !.title = raw.title,
              !.artist = IF raw.artist = Unnamed THEN @ ELSE artist]

Blank(raw) ==
  [title |-> raw.title, period |-> raw.period, kind |-> raw.kind, rank |-> raw.rank,
   label |-> raw.label, value |-> raw.value, artist |-> NoArtist, cover |-> FALSE]

ImportEntry(db, raw) ==
  LET named == WithArtist(db, raw)
      artist == IF raw.artist = Unnamed THEN NoArtist ELSE ArtistOf(named, raw)
      same == Matches(named, raw)
  IN IF same = {} THEN [named EXCEPT !.record = Append(@, Declared(Blank(raw), raw, artist))]
     ELSE [named EXCEPT !.record = [i \in DOMAIN @ |->
            IF i = Min(same) THEN Declared(@[i], raw, artist)
            ELSE IF i \in same THEN Absent ELSE @[i]]]

(* One refused entry undoes all. *)
Imported(db, list) ==
  IF \A n \in DOMAIN list : Valid(list[n]) THEN FoldLeft(ImportEntry, db, list) ELSE db

Import(list) ==
  /\ Len(store.record) < MaxRows
  /\ Spent
  /\ store' = Imported(store, list)
  /\ UNCHANGED form

(* The records of an earlier export go, told by their title; no artist is linked. *)
Exported(db) ==
  [db EXCEPT !.record = [i \in DOMAIN @ |->
      IF @[i] # Absent /\ @[i].title = "wrapped" THEN Absent ELSE @[i]] \o Wrapped]

ImportExport ==
  /\ Len(store.record) < MaxRows
  /\ Spent
  /\ store' = Exported(store)
  /\ UNCHANGED form

MusicSteps == RecordSteps \/ ArtistSteps \/ Save \/ ImportExport \/ \E l \in Lists : Import(l)
CodingSteps == ProjectSteps \/ PrincipleSteps \/ ExperimentSteps \/ Save

-----------------------------------------------------------------------------
(* Properties *)

Linked(db) == \A r \in RowsIn(db.record) : r.artist \in {NoArtist} \union Present(db.artist)
OnePerName(db) == \A n \in Names : Cardinality(Named(db.artist, n)) <= 1

Carries(row, raw) == row.label = raw.label /\ row.value = raw.value /\ row.rank = raw.rank

(* Where a row or an entry stands on the page: a place of a ranking, or a name. *)
Place(r) ==
  <<r.period, r.kind, IF r.kind \in RankedKinds THEN <<"rank", r.rank>> ELSE <<"name", r.label>>>>

(* Of a valid list: afterwards every place it declares is held by one row, *)
(* with what was declared last; covers and links that were there are kept, *)
(* nothing else is touched, and a second import changes nothing.           *)
ImportConverges(db, list) ==
  LET once == Imported(db, list)
      places == {Place(list[n]) : n \in DOMAIN list}
      Newest(place) == list[Max({n \in DOMAIN list : Place(list[n]) = place})]
      Holders(place) == {i \in Present(once.record) : Place(once.record[i]) = place}
  IN /\ Imported(once, list) = once
     /\ Linked(once) /\ OnePerName(once)
     /\ \A place \in places :
          \E i \in Holders(place) : /\ Holders(place) = {i}
                                    /\ Carries(once.record[i], Newest(place))
     /\ \A i \in Present(db.record) :
          IF Place(db.record[i]) \in places
            THEN once.record[i] # Absent => once.record[i].cover = db.record[i].cover
            ELSE once.record[i] = db.record[i]
     /\ \A i \in Present(db.artist) :
          db.artist[i].link # "" => once.artist[i].link = db.artist[i].link

(* boards/music_record_import.py, boards/models.py: whatever forms, admin  *)
(* and earlier imports have left, overlapping or not, every record links   *)
(* to an artist that exists, and every importable list converges.          *)
ContentConverges ==
  /\ Linked(store) /\ OnePerName(store)
  /\ \A l \in Lists : (\A n \in DOMAIN l : Valid(l[n])) => ImportConverges(store, l)
=============================================================================
