----------------------------- MODULE BoardIndex -----------------------------
(***************************************************************************)
(* What the public pages of the three boards make of their content: the    *)
(* music page groups the flat records into periods and rankings, the       *)
(* coding page sets one project apart, the skateboard page lays clips out. *)
(*                                                                         *)
(* Abstractions.  display_order has its default, so that rows come in the  *)
(* order of their keys.  A record's minutes are its value.  Wording and    *)
(* number formats are left out, and so is that formatting the month of the *)
(* newest Apple group raises when that group is a year: the figures are    *)
(* those a page with a month would show.                                   *)
(***************************************************************************)
EXTENDS BoardContent

(* (year, month or 0), newest first. *)
Period(r) == <<r.period.year, r.period.month>>
Later(p, q) == p[1] > q[1] \/ (p[1] = q[1] /\ p[2] > q[2])
Ordered(ids) == SetToSortSeq(ids, <)

(* One group: its period and the keys of its records. *)
GroupByPeriod(table) ==
  LET newest == SetToSortSeq({Period(r) : r \in RowsIn(table)}, Later)
  IN [n \in DOMAIN newest |->
        [period |-> newest[n],
         records |-> Ordered({i \in Present(table) : Period(table[i]) = newest[n]})]]

OfKinds(table, group, kinds) == SelectSeq(group.records, LAMBDA i : table[i].kind \in kinds)
Has(table, group, kind) == OfKinds(table, group, {kind}) # <<>>

(* next((e for e in records if e.kind == "total"), None) *)
Minutes(table, group) ==
  IF Has(table, group, "total") THEN table[OfKinds(table, group, {"total"})[1]].value ELSE 0

(* The total, or else the first record. *)
ArchiveRows(table, groups) ==
  [n \in DOMAIN groups |->
     LET shown == IF Has(table, groups[n], "total") THEN OfKinds(table, groups[n], {"total"})[1]
                  ELSE groups[n].records[1]
     IN [period |-> groups[n].period, minutes |-> table[shown].value]]

(* apple_months, and the bars that say the same: oldest first. *)
Months(table, groups) ==
  LET n == Len(groups) IN
  [m \in 1..n |-> [period |-> groups[n + 1 - m].period,
                   minutes |-> Minutes(table, groups[n + 1 - m]),
                   current |-> m = n]]

Bars(table, groups) ==
  LET months == Months(table, groups)
      highest == Max({months[m].minutes : m \in DOMAIN months})
  IN [m \in DOMAIN months |->
        months[m] @@ [pct |-> IF highest = 0 THEN 0 ELSE (months[m].minutes * 100) \div highest]]

(* Sorted by rank; a record without one is shown with its place. *)
ArtistRows(table, group, kinds) ==
  LET before(i, j) == table[i].rank < table[j].rank \/ (table[i].rank = table[j].rank /\ i < j)
      selected == SetToSortSeq({i \in ToSet(group.records) : table[i].kind \in kinds}, before)
      shown(i, n) == IF table[i].rank # 0 THEN table[i].rank ELSE n
      name(r) == IF r.artist # NoArtist THEN r.artist ELSE r.label
  IN [n \in DOMAIN selected |->
        [record |-> selected[n], rank |-> shown(selected[n], n), name |-> name(table[selected[n]])]]

TrackRows(table, group) == ArtistRows(table, group, {"top_track"})

PreferredArtistRows(table, group, primary, fallback) ==
  ArtistRows(table, group, IF Has(table, group, primary) THEN {primary} ELSE {fallback})

MinutesOf(table, ids) == FoldLeft(LAMBDA sum, i : sum + table[i].value, 0, ids)

(* spotify_summary: the minutes of the ranking, and what the total leaves. *)
Summary(table, group) ==
  LET kind == IF Has(table, group, "top_artist") THEN "top_artist" ELSE "core_artist"
      ranked == MinutesOf(table, OfKinds(table, group, {kind}))
      total == Minutes(table, group)
  IN [ranked |-> ranked, total |-> total,
      remainder |-> IF total > ranked THEN total - ranked ELSE 0,
      share |-> IF total = 0 THEN 0 ELSE (ranked * 100) \div total]

Spotify(table) ==
  LET groups == GroupByPeriod(table) IN
  [archive |-> ArchiveRows(table, groups),
   artists |-> IF groups = <<>> THEN <<>>
               ELSE ArtistRows(table, groups[1], {"top_artist", "core_artist"}),
   tracks |-> IF groups = <<>> THEN <<>> ELSE TrackRows(table, groups[1]),
   summary |-> IF groups = <<>> THEN <<>> ELSE <<Summary(table, groups[1])>>]

Apple(table) ==
  LET groups == GroupByPeriod(table) IN
  [archive |-> ArchiveRows(table, groups),
   months |-> Months(table, groups),
   bars |-> Bars(table, groups),
   current |-> IF groups = <<>> THEN 0 ELSE Minutes(table, groups[1]),
   artists |-> IF groups = <<>> THEN <<>>
               ELSE PreferredArtistRows(table, groups[1], "top_artist", "period_artist"),
   tracks |-> IF groups = <<>> THEN <<>> ELSE TrackRows(table, groups[1])]

-----------------------------------------------------------------------------
(* Coding *)

(* An old row has only `url'. *)
ProjectLinks(p) ==
  LET repository == p.repository \/ (p.type = "github" /\ p.url)
      demo == p.demo \/ (p.type = "external" /\ p.url)
  IN [repository |-> repository, demo |-> demo, url |-> repository \/ demo]

Shown(table) == Ordered({i \in Present(table) : table[i].active})

(* The first featured project, or else the first; 0 when there is none. *)
Featured(table) ==
  LET shown == Shown(table)
      featured == SelectSeq(shown, LAMBDA i : table[i].featured)
  IN IF featured # <<>> THEN featured[1] ELSE IF shown # <<>> THEN shown[1] ELSE 0

(* Seeded fault: everything featured is taken off the list. *)
ProjectNodesUnfeatured(table) == SelectSeq(Shown(table), LAMBDA i : ~table[i].featured)
ProjectNodes(table) == SelectSeq(Shown(table), LAMBDA i : i # Featured(table))

-----------------------------------------------------------------------------
(* Skateboard *)

Firsts(s, n) == SubSeq(s, 1, IF Len(s) < n THEN Len(s) ELSE n)
Others(s, n) == SubSeq(s, n + 1, Len(s))

(* Two upright and three wide clips a group; a clip whose media is not ready *)
(* has no orientation and takes any place that would stay empty.             *)
RECURSIVE ClipGroups(_, _, _)
ClipGroups(portraits, landscapes, unknown) ==
  IF portraits = <<>> /\ landscapes = <<>> /\ unknown = <<>> THEN <<>>
  ELSE LET upright == Firsts(portraits, 2)
           filled == Firsts(unknown, 2 - Len(upright))
           after == Others(unknown, Len(filled))
           wide == Firsts(landscapes, 3)
           widened == Firsts(after, 3 - Len(wide))
       IN <<[vertical |-> upright \o filled, horizontal |-> wide \o widened]>> \o
          ClipGroups(Others(portraits, 2), Others(landscapes, 3), Others(after, Len(widened)))

(* The place of each clip, by what its media says. *)
PrepareSkateClips(clips) ==
  LET places == [n \in DOMAIN clips |-> n]
      Like(kinds) == SelectSeq(places, LAMBDA n : clips[n] \in kinds)
  IN ClipGroups(Like({"portrait"}), Like({"landscape", "square"}), Like({"unknown"}))

-----------------------------------------------------------------------------
(* Properties *)

(* Of a sequence of keys: these, each once. *)
Exactly(keys, ids) == Len(keys) = Cardinality(ids) /\ ToSet(keys) = ids

(* Every record is in one period, newest period first; the figure of a     *)
(* period is the same in the archive, the bars and the current section,    *)
(* and only the newest period is current.                                  *)
MusicFits(table) ==
  LET groups == GroupByPeriod(table)
      page == Apple(table)
      n == Len(groups)
      newest == groups[1].records
  IN /\ \A i \in Present(table) : \E m \in 1..n :
          i \in ToSet(groups[m].records) /\ \A k \in 1..n : i \in ToSet(groups[k].records) => k = m
     /\ \A m \in 1..n, k \in 1..n : m < k => Later(groups[m].period, groups[k].period)
     /\ \A m \in 1..n :
          /\ page.months[m].current <=> (page.months[m].period = groups[1].period)
          /\ page.bars[m].minutes = page.months[m].minutes /\ page.bars[m].pct \in 0..100
          /\ page.archive[n + 1 - m].period = page.months[m].period
          /\ Has(table, groups[n + 1 - m], "total") =>
               page.archive[n + 1 - m].minutes = page.months[m].minutes
     /\ n > 0 => page.current = page.months[n].minutes

(* A ranking lists the records of its kinds, each once, by rank; those     *)
(* without one first.  What is ranked and what remains make up the total.  *)
RankingFits(table, group, rows, kinds) ==
  /\ Exactly([n \in DOMAIN rows |-> rows[n].record], ToSet(OfKinds(table, group, kinds)))
  /\ \A n \in DOMAIN rows, m \in DOMAIN rows :
       n < m => \/ table[rows[n].record].rank < table[rows[m].record].rank
                \/ /\ table[rows[n].record].rank = table[rows[m].record].rank
                   /\ rows[n].record < rows[m].record

RankingsFit(table) ==
  LET groups == GroupByPeriod(table)
      page == Spotify(table)
      summary == page.summary[1]
  IN groups # <<>> =>
     /\ RankingFits(table, groups[1], page.artists, {"top_artist", "core_artist"})
     /\ RankingFits(table, groups[1], page.tracks, {"top_track"})
     /\ \E kind \in {"top_artist", "period_artist"} :
          RankingFits(table, groups[1], Apple(table).artists, {kind})
     /\ summary.ranked <= summary.total =>
          summary.remainder + summary.ranked = summary.total /\ summary.share <= 100
     /\ summary.ranked > summary.total => summary.remainder = 0

(* Every active project is on the page once, the featured one apart, and a *)
(* project that a form would accept leads where its type says.             *)
ProjectsFit(table) ==
  LET active == {i \in Present(table) : table[i].active} IN
  /\ active # {} => Exactly(<<Featured(table)>> \o ProjectNodes(table), active)
  /\ active = {} => Featured(table) = 0 /\ ProjectNodes(table) = <<>>
  /\ (\E i \in active : table[i].featured) => table[Featured(table)].featured
  /\ \A i \in active : LET p == table[i] IN
       /\ CleanProject(p) /\ p.type # "local_tool" => ProjectLinks(p).url
       /\ p.type = "github" /\ ProjectLinks(p).url => ProjectLinks(p).repository \/ p.demo
       /\ ProjectLinks(p).url => p.url \/ p.repository \/ p.demo

(* Every clip has one place; clips of one orientation keep their order;    *)
(* an upright place never holds a wide clip, nor the other way round.      *)
ClipsFit(clips) ==
  LET groups == PrepareSkateClips(clips)
      Flat(part(_)) == FoldLeft(LAMBDA all, g : all \o part(g), <<>>, groups)
      vertical == Flat(LAMBDA g : g.vertical)
      horizontal == Flat(LAMBDA g : g.horizontal)
      InOrder(s, kinds) == \A n, m \in DOMAIN s :
        n < m /\ clips[s[n]] \in kinds /\ clips[s[m]] \in kinds => s[n] < s[m]
  IN /\ Exactly(vertical \o horizontal, DOMAIN clips)
     /\ \A n \in DOMAIN groups :
          /\ Len(groups[n].vertical) <= 2 /\ Len(groups[n].horizontal) <= 3
          /\ groups[n].vertical # <<>> \/ groups[n].horizontal # <<>>
     /\ \A n \in DOMAIN vertical : clips[vertical[n]] \in {"portrait", "unknown"}
     /\ \A n \in DOMAIN horizontal : clips[horizontal[n]] # "portrait"
     /\ InOrder(vertical, {"portrait"}) /\ InOrder(horizontal, {"landscape", "square"})

(* boards/board_index.py: whatever forms, admin and imports have left, the *)
(* pages show every row once, in one place, with figures that agree.       *)
PagesFitContent(clips) ==
  /\ MusicFits(store.record) /\ RankingsFit(store.record)
  /\ ProjectsFit(store.project)
  /\ ClipsFit(clips)
=============================================================================
