----------------------------- MODULE MCSaxParser -----------------------------
(* Items a Jellyfin server sends, with the keys the parser knows.              *)
EXTENDS SaxParser

Named == "Name" :> Full @@ "Id" :> Full

MCShapes == {
    Named @@ "Type" :> "Audio" @@ "RunTimeTicks" :> Full @@ "AlbumArtist" :> Full
          @@ "UserData" :> Full @@ "PlaybackPositionTicks" :> Full,
    Named @@ "Type" :> "Movie" @@ "RunTimeTicks" :> Absent @@ "UserData" :> Full,
    Named @@ "Type" :> "Season" @@ "SeriesName" :> Full @@ "Other" :> Full,
    Named @@ "Type" :> "CollectionFolder" @@ "CollectionType" :> "music"}

MCTags == <<"a", "b">>

\* Every item that one of these shapes may stand for.
MCItems == {MenuItem(Said(s, n), p) : s \in MCShapes, n \in DOMAIN MCTags, p \in BOOLEAN}

MCFolders == {i \in MCItems : i.type \notin Atoms}
=============================================================================
