------------------------------ MODULE MCSplitPart ------------------------------
(* Two videos, the first in three parts of which some bear a mark.             *)
EXTENDS SplitPart

MCRuntimes == <<<<2, 1, 2>>, <<2>>>>
MCBookmarks == <<{<<0, 0, 1>>, <<1, 0, 1>>}, {<<0>>, <<1>>}>>
=============================================================================
