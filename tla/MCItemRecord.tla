---------------------------- MODULE MCItemRecord ----------------------------
(* Items with strings shorter than, as long as and longer than the buffers, and a video  *)
(* with a version that has two subtitle streams.                                         *)
EXTENDS ItemRecord

MCTexts == {<<>>, <<"b", "a">>}
MCRests == {<<NUL>>}

\* As in the text of a document: more of it, and the NUL no sooner than by chance.
DocumentRests == {<<NUL>>, <<"b", NUL>>}

Item(type, id, name, path, children) ==
    [type |-> type, id |-> id, name |-> name, path |-> path,
     runtime |-> 5, playback |-> 0, children |-> children]

Plain == Item("AUDIO", "id1", <<"a">>, <<"b">>, <<>>)
Bare == Item("FOLDER", "id2", <<"a", "b", "c">>, NULL, <<>>)
Long == Item("MOVIE", "id3", <<"a", "b">>, <<"c", "a", "b">>, <<>>)
Unnamed == Item("AUDIO", "id4", <<>>, <<"a", "b", "c", "d">>, <<>>)
Sub1 == Item("VIDEO_SUB", "eng", <<"a">>, <<"d">>, <<>>)
Sub2 == Item("VIDEO_SUB", "ita", <<"c">>, <<>>, <<>>)
Source == Item("VIDEO_SOURCE", "id5", NULL, <<"b", "d">>, <<Sub1, Sub2>>)
Film == Item("MOVIE", "id6", <<"b">>, NULL, <<Source, Source>>)

MCItems == {Plain, Bare, Long, Unnamed, Sub1, Sub2, Source, Film}
=============================================================================
