-------------------------------- MODULE MCMenu --------------------------------
(* A small library and the lines worth typing in it.                       *)
EXTENDS Menu

CONSTANTS libraries, favorites, latest, series, season, e1, e2, film

MCPersistent == {Root, libraries, favorites, latest}
MCChildren ==
    [f \in MCPersistent \cup {Search, series, season} |->
       CASE f = Root -> <<favorites, libraries, latest>>
         [] f = libraries -> <<film, series>>
         [] f \in {favorites, latest} -> <<>>
         [] f = series -> <<season>>
         [] f = season -> <<e1, e2>>
         [] f = Search -> <<series, film, season>>]
MCTypeOf ==
    [f \in DOMAIN MCChildren |->
       CASE f = Root -> "MENU_ROOT"
         [] f = libraries -> "MENU_LIBRARIES"
         [] f = favorites -> "MENU_FAVORITES"
         [] f = latest -> "MENU_LATEST_ADDED"
         [] f = series -> "SERIES"
         [] f = season -> "SEASON"
         [] f = Search -> "SEARCH_RESULT"]

SpanOf(l, r) == [do |-> "range", l |-> l, r |-> r]
FilterOf(f) == [do |-> "filter", filter |-> f]
Do(name) == [do |-> name]
FiltersOn(fs) == <<Do("filters")>> \o [k \in DOMAIN fs |-> FilterOf(fs[k])]

SelectorLines ==
    {<<Digest(n)>> : n \in 0 .. 4}
    \cup {<<SpanOf(l, r)>> : l, r \in 0 .. 4}
    \cup {<<Digest(n), Digest(m)>> : n, m \in 1 .. 3}
    \cup {<<SpanOf(2, 1), Digest(1)>>, <<Digest(2), SpanOf(9, 7)>>, <<Do("all")>>}
FilterLines ==
    {FiltersOn(<<>>), FiltersOn(<<"played">>), FiltersOn(<<"favorite", "unplayed">>),
     FiltersOn(<<"played", "unplayed", "likes">>), FiltersOn(<<"likes", "dislikes">>)}
SpecialLines == {<<Do(name)>> : name \in {"dotdot", "help", "home", "search", "quit"}}
MarkLines == {<<[do |-> "mark", flag |-> m]>> \o s : m \in {"MARK_PLAYED", "MARK_UNFAVORITE"}, s \in SelectorLines}

AllLines == SelectorLines \cup FilterLines \cup SpecialLines \cup MarkLines
FewMarks == SelectorLines \cup {<<[do |-> "mark", flag |-> "MARK_PLAYED"], Digest(1)>>}
=============================================================================
